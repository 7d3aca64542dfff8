------------------------------ MODULE ConnPool ------------------------------
(***************************************************************************)
(* ConnectionPool<Connection> of src/src/com/conn_pool.h: a deque of idle  *)
(* connections behind an atomic flag used as a spin lock.                  *)
(*                                                                         *)
(* Every thread loops over get() .. use .. release().  A step of the model *)
(* is one access to the shared state, so that everything the lock has to   *)
(* protect can interleave: the test of the size, the move out of the front *)
(* (which leaves a null pointer in the deque), the pop, the creation of a  *)
(* connection, the append and the clear of the flag are separate actions.  *)
(*                                                                         *)
(* A connection is named by the value ++used_conns_ had when it was made,  *)
(* a null ConnectionPtr is NoConn.                                         *)
(***************************************************************************)
EXTENDS Integers, Sequences, FiniteSets

CONSTANTS
    Threads     \* the finite set of threads that use the pool

ASSUME ThreadsAssumption == IsFiniteSet(Threads)

NoConn == 0

VARIABLES
    spin_lock_,     \* TRUE while the flag is set
    conns_,         \* the deque of idle connections, front first
    used_conns_,    \* the number of connections ever made; never decremented
    pc,             \* where each thread is in get() or release()
    conn            \* each thread's ConnectionPtr

vars == <<spin_lock_, conns_, used_conns_, pc, conn>>

Labels == {"idle", "get_spin", "get_size", "get_front", "get_pop", "get_create",
           "get_throw", "get_clear", "using", "rel_spin", "rel_push", "rel_clear"}

\* The places at which a thread has set the flag and not yet cleared it.
Critical == {"get_size", "get_front", "get_pop", "get_create", "get_throw",
             "get_clear", "rel_push", "rel_clear"}

Holders == {t \in Threads : pc[t] \in Critical}

Waiting(t) == pc[t] \in {"get_spin", "rel_spin"}

Goto(t, from, to) == pc[t] = from /\ pc' = [pc EXCEPT ![t] = to]

Init == /\ spin_lock_ = FALSE
        /\ conns_ = <<>>
        /\ used_conns_ = 0
        /\ pc = [t \in Threads |-> "idle"]
        /\ conn = [t \in Threads |-> NoConn]

-----------------------------------------------------------------------------
(* get() *)

GetCall(t) == /\ Goto(t, "idle", "get_spin")
              /\ UNCHANGED <<spin_lock_, conns_, used_conns_, conn>>

\* Mutant: the flag is stored, not tested and set.
TestAndSet_NoTest(t, from, to) == /\ Goto(t, from, to)
                                  /\ spin_lock_' = TRUE
                                  /\ UNCHANGED <<conns_, used_conns_, conn>>

\* test_and_set returned false: the flag was clear and is now ours.  A test
\* that returns true changes nothing and is retried.
TestAndSet(t, from, to) == /\ Goto(t, from, to)
                           /\ ~spin_lock_
                           /\ spin_lock_' = TRUE
                           /\ UNCHANGED <<conns_, used_conns_, conn>>

GetAcquire(t) == TestAndSet(t, "get_spin", "get_size")

\* Mutant: conns_.size() > 1
GetSize_KeepsOne(t) == /\ Goto(t, "get_size", IF Len(conns_) > 1 THEN "get_front" ELSE "get_create")
                       /\ UNCHANGED <<spin_lock_, conns_, used_conns_, conn>>

GetSize(t) == /\ Goto(t, "get_size", IF conns_ # <<>> THEN "get_front" ELSE "get_create")
              /\ UNCHANGED <<spin_lock_, conns_, used_conns_, conn>>

\* conn = std::move(conns_.front())
GetFront(t) == /\ Goto(t, "get_front", "get_pop")
               /\ conn' = [conn EXCEPT ![t] = Head(conns_)]
               /\ conns_' = [conns_ EXCEPT ![1] = NoConn]
               /\ UNCHANGED <<spin_lock_, used_conns_>>

\* Mutant: the moved-from front is not popped.
GetPop_Forgotten(t) == /\ Goto(t, "get_pop", "get_clear")
                       /\ UNCHANGED <<spin_lock_, conns_, used_conns_, conn>>

GetPop(t) == /\ Goto(t, "get_pop", "get_clear")
             /\ conns_' = Tail(conns_)
             /\ UNCHANGED <<spin_lock_, used_conns_, conn>>

\* Mutant: the counter is not incremented in a build without logger_debug.
GetCreate_NotCounted(t) == /\ Goto(t, "get_create", "get_clear")
                           /\ conn' = [conn EXCEPT ![t] = used_conns_ + 1]
                           /\ UNCHANGED <<spin_lock_, conns_, used_conns_>>

GetCreate(t) == /\ Goto(t, "get_create", "get_clear")
                /\ used_conns_' = used_conns_ + 1
                /\ conn' = [conn EXCEPT ![t] = used_conns_']
                /\ UNCHANGED <<spin_lock_, conns_>>

\* The constructor of Connection threw: the database cannot be opened.
GetCreateFails(t) == /\ Goto(t, "get_create", "get_throw")
                     /\ UNCHANGED <<spin_lock_, conns_, used_conns_, conn>>

Clear(t, from, to) == /\ Goto(t, from, to)
                      /\ spin_lock_' = FALSE
                      /\ UNCHANGED <<conns_, used_conns_, conn>>

\* Mutant: the exception path does not clear the flag.
GetThrow_KeepsLock(t) == /\ Goto(t, "get_throw", "idle")
                         /\ UNCHANGED <<spin_lock_, conns_, used_conns_, conn>>

GetThrow(t) == Clear(t, "get_throw", "idle")

GetReturn(t) == Clear(t, "get_clear", "using")

-----------------------------------------------------------------------------
(* release() *)

\* The pool's callers release only what get() gave them, so the early return
\* on a null pointer is never taken here.
RelCall(t) == /\ Goto(t, "using", "rel_spin")
              /\ conn[t] # NoConn
              /\ UNCHANGED <<spin_lock_, conns_, used_conns_, conn>>

RelAcquire(t) == TestAndSet(t, "rel_spin", "rel_push")

\* Mutant: conns_.emplace_back(conn), and the caller goes on using conn.
RelPush_Copies(t) == /\ Goto(t, "rel_push", "rel_clear")
                     /\ conns_' = Append(conns_, conn[t])
                     /\ UNCHANGED <<spin_lock_, used_conns_, conn>>

\* Mutant: the connection is closed and dropped.
RelPush_Drops(t) == /\ Goto(t, "rel_push", "rel_clear")
                    /\ conn' = [conn EXCEPT ![t] = NoConn]
                    /\ UNCHANGED <<spin_lock_, conns_, used_conns_>>

\* conns_.emplace_back(std::move(conn))
RelPush(t) == /\ Goto(t, "rel_push", "rel_clear")
              /\ conns_' = Append(conns_, conn[t])
              /\ conn' = [conn EXCEPT ![t] = NoConn]
              /\ UNCHANGED <<spin_lock_, used_conns_>>

\* Mutant: release() returns without clearing the flag.
RelReturn_KeepsLock(t) == /\ Goto(t, "rel_clear", "idle")
                          /\ UNCHANGED <<spin_lock_, conns_, used_conns_, conn>>

RelReturn(t) == Clear(t, "rel_clear", "idle")

-----------------------------------------------------------------------------

\* The steps inside the pool's two functions, as against the calls.
Get(t) == \/ GetAcquire(t) \/ GetSize(t) \/ GetFront(t) \/ GetPop(t)
          \/ GetCreate(t) \/ GetCreateFails(t) \/ GetThrow(t) \/ GetReturn(t)

Release(t) == RelAcquire(t) \/ RelPush(t) \/ RelReturn(t)

Next == \E t \in Threads : GetCall(t) \/ Get(t) \/ RelCall(t) \/ Release(t)

Spec == Init /\ [][Next]_vars

\* A thread finishes the function it is in; nothing makes it call,
\* and no test_and_set is promised to find the flag clear.
ThreadsFair == \A t \in Threads : WF_vars(Get(t) \/ Release(t))

FairSpec == Spec /\ ThreadsFair

-----------------------------------------------------------------------------
(* Properties *)

\* The places at which a thread's ConnectionPtr is not null.
Owning == {"get_pop", "get_clear", "using", "rel_spin", "rel_push"}

\* The slots of the deque that hold a connection.
Idle == {i \in 1..Len(conns_) : conns_[i] # NoConn}

TypeOK == /\ spin_lock_ \in BOOLEAN
          /\ used_conns_ \in Nat
          /\ conns_ \in Seq(0..used_conns_)
          /\ pc \in [Threads -> Labels]
          /\ conn \in [Threads -> 0..used_conns_]

(* The spin lock serialises the two functions: the flag is set exactly when *)
(* one thread is between its test_and_set and its clear, on the exception   *)
(* path too (conn_pool.h:30, 43, 48, 58, 61).                               *)
LockMutualExclusion == /\ \A t, u \in Holders : t = u
                       /\ spin_lock_ <=> Holders # {}

OneThreadEach == \A t, u \in Threads : conn[t] # NoConn /\ conn[t] = conn[u] => t = u
OneSlotEach == \A i, j \in Idle : conns_[i] = conns_[j] => i = j
NotLentAndIdle == \A t \in Threads, i \in Idle : conn[t] # conns_[i]
NoneLost == \A c \in 1..used_conns_ : \/ \E t \in Threads : conn[t] = c
                                      \/ \E i \in Idle : conns_[i] = c

(* A connection that was made is in exactly one place, a thread's pointer   *)
(* or one slot of the deque: get() never gives one to two threads, and none *)
(* is lost or comes back twice (conn_pool.h:33-34, 59).                     *)
OneOwnerPerConnection == OneThreadEach /\ OneSlotEach /\ NotLentAndIdle /\ NoneLost

(* get() returns a connection and never the null pointer that the move at   *)
(* conn_pool.h:33 leaves in the deque: it is in front, and only until the   *)
(* thread that moved pops it, so that no other thread's size test, move or  *)
(* append can meet it.                                                      *)
NeverNullInUse ==
    /\ \A t \in Threads : conn[t] # NoConn <=> pc[t] \in Owning
    /\ \A i \in 1..Len(conns_) :
           conns_[i] = NoConn => i = 1 /\ \E t \in Threads : pc[t] = "get_pop"
    /\ \A t \in Threads :
           /\ pc[t] = "get_front" => conns_ # <<>>
           /\ pc[t] = "get_pop" => conns_ # <<>> /\ conns_[1] = NoConn
           /\ pc[t] = "get_create" => conns_ = <<>>

(* "based on the finite thread usage" (conn_pool.h:13): the pool opens at   *)
(* most as many connections as threads use it, because it opens one only    *)
(* when it has none idle, and each thread holds at most one.                *)
ConnectionsBoundedByThreads == used_conns_ <= Cardinality(Threads)

(* A connection is opened only when all the others are in use by threads    *)
(* other than the caller (conn_pool.h:32-37).                               *)
OpensOnlyWhenAllInUse ==
    [][used_conns_' > used_conns_ =>
         \A c \in 1..used_conns_ : \E t \in Threads : conn[t] = c /\ conn'[t] = c]_vars

(* No path out of get() or release() leaves the flag set, the one on which  *)
(* the connection cannot be opened included (conn_pool.h:43).               *)
LockIsAlwaysReleased == spin_lock_ ~> ~spin_lock_

Return(t) == GetThrow(t) \/ GetReturn(t) \/ RelReturn(t)

(* What is left of "lock-free" (conn_pool.h:13) with a flag the calls spin   *)
(* on: as long as every thread keeps running, and one of them waits, some   *)
(* call returns sooner or later.  A thread that is stopped while it holds   *)
(* the flag stops the others.                                               *)
SystemWideProgress ==
    (<>[](\E t \in Threads : Waiting(t)))
        => []<><<\E t \in Threads : Return(t)>>_vars

-----------------------------------------------------------------------------
(* What the pool promises: PoolService. *)

IdleConns == {conns_[i] : i \in Idle}

Service == INSTANCE PoolService
             WITH MaxOpened <- Cardinality(Threads),
                  idle      <- IdleConns,
                  lent      <- conn,
                  opened    <- used_conns_

(* The pool with its lock and its deque implements the atomic pool.         *)
ImplementsService == Service!ServiceSpec

=============================================================================

--------------------------- MODULE ConnPool_proofs ---------------------------
(***************************************************************************)
(* Proofs about ConnPool, for any finite set of threads.                   *)
(*                                                                         *)
(* Inv is the inductive invariant: the properties of ConnPool are the      *)
(* parts of it.  The lock comes first, since its argument needs only the   *)
(* types; with one thread inside, each later step disturbs the pointer of  *)
(* that thread and one slot of the deque.                                  *)
(***************************************************************************)
EXTENDS ConnPool, FiniteSetTheorems, SequenceTheorems, TLAPS

Inv == TypeOK /\ LockMutualExclusion /\ NeverNullInUse /\ OneOwnerPerConnection

(* A new pool: nothing made, nothing lent, the flag clear.                  *)
LEMMA InitInv == Init => Inv /\ ConnectionsBoundedByThreads
<1> SUFFICES ASSUME Init PROVE Inv /\ ConnectionsBoundedByThreads
  OBVIOUS
<1> USE DEF Init, NoConn, Idle
<1>1. TypeOK
  <2>1. conns_ \in Seq(0..used_conns_)
    BY EmptySeq
  <2>2. conn \in [Threads -> 0..used_conns_]
    OBVIOUS
  <2>3. pc \in [Threads -> Labels]
    BY DEF Labels
  <2>4. QED
    BY <2>1, <2>2, <2>3 DEF TypeOK
<1>2. LockMutualExclusion
  BY DEF LockMutualExclusion, Holders, Critical
<1>3. NeverNullInUse
  BY DEF NeverNullInUse, Owning
<1>4. OneOwnerPerConnection
  BY DEF OneOwnerPerConnection, OneThreadEach, OneSlotEach, NotLentAndIdle, NoneLost
<1>5. ConnectionsBoundedByThreads
  BY ThreadsAssumption, FS_CardinalityType DEF ConnectionsBoundedByThreads
<1>6. QED
  BY <1>1, <1>2, <1>3, <1>4, <1>5 DEF Inv

\* A step is one action of one thread; an action of t leaves the pc of the
\* other threads alone.
LEMMA NextCases ==
  ASSUME Next
  PROVE  \E t \in Threads :
            \/ GetCall(t) \/ GetAcquire(t) \/ GetSize(t) \/ GetFront(t)
            \/ GetPop(t) \/ GetCreate(t) \/ GetCreateFails(t) \/ GetThrow(t)
            \/ GetReturn(t) \/ RelCall(t) \/ RelAcquire(t) \/ RelPush(t) \/ RelReturn(t)
BY DEF Next, Get, Release

(* A step keeps the types: in particular the connections stay between 1 and *)
(* the counter.                                                             *)
LEMMA TypeStep == TypeOK /\ NeverNullInUse /\ [Next]_vars => TypeOK'
<1> SUFFICES ASSUME TypeOK, NeverNullInUse, [Next]_vars PROVE TypeOK'
  OBVIOUS
<1>1. CASE UNCHANGED vars
  BY <1>1 DEF TypeOK, vars
<1>2. CASE Next
  <2>1. PICK t \in Threads :
            \/ GetCall(t) \/ GetAcquire(t) \/ GetSize(t) \/ GetFront(t)
            \/ GetPop(t) \/ GetCreate(t) \/ GetCreateFails(t) \/ GetThrow(t)
            \/ GetReturn(t) \/ RelCall(t) \/ RelAcquire(t) \/ RelPush(t) \/ RelReturn(t)
    BY <1>2, NextCases
  <2> USE DEF TypeOK, Labels, Goto, TestAndSet, Clear, NoConn
  <2>2. CASE GetFront(t)
    <3>1. conns_ # <<>> /\ 1 \in 1..Len(conns_)
      BY <2>2 DEF GetFront, NeverNullInUse
    <3>2. Head(conns_) \in 0..used_conns_
      BY <3>1, HeadTailProperties
    <3>3. conns_' \in Seq(0..used_conns_)
      BY <2>2, <3>1, ExceptSeq DEF GetFront
    <3>4. QED
      BY <2>2, <3>2, <3>3 DEF GetFront
  <2>3. CASE GetPop(t)
    <3>1. conns_ # <<>>
      BY <2>3 DEF GetPop, NeverNullInUse
    <3>2. Tail(conns_) \in Seq(0..used_conns_)
      BY <3>1, HeadTailProperties
    <3>3. QED
      BY <2>3, <3>2 DEF GetPop
  <2>4. CASE GetCreate(t)
    <3>1. conns_ = <<>>
      BY <2>4 DEF GetCreate, NeverNullInUse
    <3>2. QED
      BY <2>4, <3>1 DEF GetCreate
  <2>5. CASE RelPush(t)
    <3>1. Append(conns_, conn[t]) \in Seq(0..used_conns_)
      BY AppendProperties
    <3>2. QED
      BY <2>5, <3>1 DEF RelPush
  <2>6. CASE GetCall(t) \/ GetAcquire(t) \/ GetSize(t) \/ GetCreateFails(t) \/ GetThrow(t)
                \/ GetReturn(t) \/ RelCall(t) \/ RelAcquire(t) \/ RelReturn(t)
    BY <2>6 DEF GetCall, GetAcquire, GetSize, GetCreateFails, GetThrow, GetReturn,
                RelCall, RelAcquire, RelReturn
  <2>7. QED
    BY <2>1, <2>2, <2>3, <2>4, <2>5, <2>6
<1>3. QED
  BY <1>1, <1>2

(* The spin lock: only a thread that saw the flag clear goes in, and only a *)
(* thread that is in clears it.                                             *)
LEMMA LockStep == TypeOK /\ LockMutualExclusion /\ [Next]_vars => LockMutualExclusion'
<1> SUFFICES ASSUME TypeOK, LockMutualExclusion, [Next]_vars PROVE LockMutualExclusion'
  OBVIOUS
<1> USE DEF TypeOK, LockMutualExclusion, Holders, Critical
<1>1. CASE UNCHANGED vars
  BY <1>1 DEF vars
<1>2. CASE Next
  <2>1. PICK t \in Threads :
            \/ GetCall(t) \/ GetAcquire(t) \/ GetSize(t) \/ GetFront(t)
            \/ GetPop(t) \/ GetCreate(t) \/ GetCreateFails(t) \/ GetThrow(t)
            \/ GetReturn(t) \/ RelCall(t) \/ RelAcquire(t) \/ RelPush(t) \/ RelReturn(t)
    BY <1>2, NextCases
  <2>2. CASE GetAcquire(t) \/ RelAcquire(t)
    <3>1. Holders = {} /\ Holders' = {t} /\ spin_lock_'
      BY <2>2 DEF GetAcquire, RelAcquire, TestAndSet, Goto
    <3>2. QED
      BY <3>1
  <2>3. CASE GetThrow(t) \/ GetReturn(t) \/ RelReturn(t)
    <3>1. Holders = {t} /\ Holders' = {} /\ ~spin_lock_'
      BY <2>3 DEF GetThrow, GetReturn, RelReturn, Clear, Goto
    <3>2. QED
      BY <3>1
  <2>4. CASE GetCall(t) \/ GetSize(t) \/ GetFront(t) \/ GetPop(t) \/ GetCreate(t)
                \/ GetCreateFails(t) \/ RelCall(t) \/ RelPush(t)
    <3>1. Holders' = Holders /\ spin_lock_' = spin_lock_
      BY <2>4 DEF GetCall, GetSize, GetFront, GetPop, GetCreate, GetCreateFails,
                  RelCall, RelPush, Goto
    <3>2. QED
      BY <3>1
  <2>5. QED
    BY <2>1, <2>2, <2>3, <2>4
<1>3. QED
  BY <1>1, <1>2

(* Null pointers: the one moved out of the front goes before the flag does. *)
(* The actions inside the lock change the deque of no other thread.         *)
LEMMA NullStep == Inv /\ [Next]_vars => NeverNullInUse'
<1> SUFFICES ASSUME Inv, [Next]_vars PROVE NeverNullInUse'
  OBVIOUS
<1> USE DEF Inv
<1>1. CASE UNCHANGED vars
  BY <1>1 DEF vars, NeverNullInUse
<1>2. CASE Next
  <2>1. PICK t \in Threads :
            \/ GetCall(t) \/ GetAcquire(t) \/ GetSize(t) \/ GetFront(t)
            \/ GetPop(t) \/ GetCreate(t) \/ GetCreateFails(t) \/ GetThrow(t)
            \/ GetReturn(t) \/ RelCall(t) \/ RelAcquire(t) \/ RelPush(t) \/ RelReturn(t)
    BY <1>2, NextCases
  <2> USE DEF TypeOK, Labels, Goto, TestAndSet, Clear, NoConn, NeverNullInUse, Owning
  \* The thread inside the lock is the only one at a place of Critical.
  <2>2. pc[t] \in Critical => \A u \in Threads : pc[u] \in Critical => u = t
    BY DEF LockMutualExclusion, Holders
  <2>3. CASE GetCall(t) \/ GetAcquire(t) \/ GetSize(t) \/ GetCreateFails(t) \/ GetThrow(t)
                \/ GetReturn(t) \/ RelCall(t) \/ RelAcquire(t) \/ RelReturn(t)
    BY <2>3 DEF GetCall, GetAcquire, GetSize, GetCreateFails, GetThrow, GetReturn,
                RelCall, RelAcquire, RelReturn
  <2>4. CASE GetFront(t)
    <3>1. /\ conns_ # <<>> /\ Head(conns_) = conns_[1] /\ 1 \in 1..Len(conns_)
          /\ Len(conns_') = Len(conns_) /\ conns_'[1] = NoConn
          /\ \A i \in 1..Len(conns_) : i # 1 => conns_'[i] = conns_[i]
      BY <2>4 DEF GetFront
    <3>2. \A i \in 1..Len(conns_) : conns_[i] # NoConn
      BY <2>2, <2>4 DEF GetFront, Critical
    <3>3. QED
      BY <2>2, <2>4, <3>1, <3>2 DEF GetFront, Critical
  <2>5. CASE GetPop(t)
    <3>1. /\ conns_ # <<>> /\ Len(conns_') = Len(conns_) - 1
          /\ \A i \in 1..Len(conns_') : conns_'[i] = conns_[i + 1]
      BY <2>5, HeadTailProperties DEF GetPop
    <3>2. \A i \in 1..Len(conns_') : conns_'[i] # NoConn
      BY <3>1
    <3>3. QED
      BY <2>2, <2>5, <3>2 DEF GetPop, Critical
  <2>6. CASE GetCreate(t)
    BY <2>2, <2>6 DEF GetCreate, Critical
  <2>7. CASE RelPush(t)
    <3>1. /\ Len(conns_') = Len(conns_) + 1 /\ conns_'[Len(conns_) + 1] = conn[t]
          /\ \A i \in 1..Len(conns_) : conns_'[i] = conns_[i]
      BY <2>7, AppendProperties DEF RelPush
    <3>2. conn[t] # NoConn /\ \A i \in 1..Len(conns_) : conns_[i] # NoConn
      BY <2>2, <2>7 DEF RelPush, Critical
    <3>3. QED
      BY <2>2, <2>7, <3>1, <3>2 DEF RelPush, Critical
  <2>8. QED
    BY <2>1, <2>3, <2>4, <2>5, <2>6, <2>7
<1>3. QED
  BY <1>1, <1>2

(* Ownership: each action moves one connection, from the deque to a pointer *)
(* or back, or makes a new one.                                             *)
LEMMA OwnerStep == Inv /\ [Next]_vars => OneOwnerPerConnection'
<1> SUFFICES ASSUME Inv, [Next]_vars PROVE OneOwnerPerConnection'
  OBVIOUS
<1> USE DEF Inv
<1>1. CASE UNCHANGED vars
  BY <1>1 DEF vars, OneOwnerPerConnection, OneThreadEach, OneSlotEach, NotLentAndIdle, NoneLost, Idle
<1>2. CASE Next
  <2>1. PICK t \in Threads :
            \/ GetCall(t) \/ GetAcquire(t) \/ GetSize(t) \/ GetFront(t)
            \/ GetPop(t) \/ GetCreate(t) \/ GetCreateFails(t) \/ GetThrow(t)
            \/ GetReturn(t) \/ RelCall(t) \/ RelAcquire(t) \/ RelPush(t) \/ RelReturn(t)
    BY <1>2, NextCases
  <2> USE DEF TypeOK, Goto, TestAndSet, Clear, NoConn
  <2>2. pc[t] \in Critical => \A u \in Threads : pc[u] \in Critical => u = t
    BY DEF LockMutualExclusion, Holders
  <2>3. CASE GetCall(t) \/ GetAcquire(t) \/ GetSize(t) \/ GetCreateFails(t) \/ GetThrow(t)
                \/ GetReturn(t) \/ RelCall(t) \/ RelAcquire(t) \/ RelReturn(t)
    <3>1. UNCHANGED <<conns_, conn, used_conns_>>
      BY <2>3 DEF GetCall, GetAcquire, GetSize, GetCreateFails, GetThrow, GetReturn,
                  RelCall, RelAcquire, RelReturn
    <3>2. Idle' = Idle
      BY <3>1 DEF Idle
    <3>3. QED
      BY <3>1, <3>2 DEF OneOwnerPerConnection, OneThreadEach, OneSlotEach, NotLentAndIdle, NoneLost
  <2>4. CASE GetFront(t)
    <3>1. /\ conns_ # <<>> /\ Head(conns_) = conns_[1] /\ 1 \in 1..Len(conns_)
          /\ Len(conns_') = Len(conns_) /\ conns_'[1] = NoConn
          /\ \A i \in 1..Len(conns_) : i # 1 => conns_'[i] = conns_[i]
      BY <2>4 DEF GetFront, NeverNullInUse
    <3>2. 1 \in Idle /\ Idle' = Idle \ {1} /\ conn[t] = NoConn
      BY <2>2, <2>4, <3>1 DEF GetFront, NeverNullInUse, Critical, Owning, Idle
    <3>3. conn' = [conn EXCEPT ![t] = conns_[1]] /\ used_conns_' = used_conns_
      BY <2>4, <3>1 DEF GetFront
    <3>4. \A i \in Idle' : conns_'[i] = conns_[i]
      BY <3>1, <3>2 DEF Idle
    <3>5. OneThreadEach'
      BY <3>2, <3>3, <3>4 DEF OneOwnerPerConnection, OneThreadEach, OneSlotEach, NotLentAndIdle, NoneLost
    <3>6. OneSlotEach'
      BY <3>2, <3>3, <3>4 DEF OneOwnerPerConnection, OneThreadEach, OneSlotEach, NotLentAndIdle, NoneLost
    <3>7. NotLentAndIdle'
      BY <3>2, <3>3, <3>4 DEF OneOwnerPerConnection, OneThreadEach, OneSlotEach, NotLentAndIdle, NoneLost
    <3>8. NoneLost'
      <4> SUFFICES ASSUME NEW c \in 1..used_conns_
                     PROVE  (\E u \in Threads : conn'[u] = c) \/ \E i \in Idle' : conns_'[i] = c
        BY <3>3 DEF NoneLost
      <4>2. CASE \E u \in Threads : conn[u] = c
        BY <3>2, <3>3, <4>2
      <4>3. CASE \E i \in Idle : conns_[i] = c
        BY <3>2, <3>3, <3>4, <4>3
      <4>4. QED
        BY <4>2, <4>3 DEF OneOwnerPerConnection, NoneLost
    <3>9. QED
      BY <3>5, <3>6, <3>7, <3>8 DEF OneOwnerPerConnection
  <2>5. CASE GetPop(t)
    <3>1. /\ conns_ # <<>> /\ Len(conns_') = Len(conns_) - 1
          /\ \A i \in 1..Len(conns_') : conns_'[i] = conns_[i + 1]
      BY <2>5, HeadTailProperties DEF GetPop, NeverNullInUse
    <3>2. /\ \A i \in Idle' : i + 1 \in Idle /\ conns_'[i] = conns_[i + 1]
          /\ \A j \in Idle : j - 1 \in Idle' /\ conns_[j] = conns_'[j - 1]
      BY <2>5, <3>1 DEF GetPop, NeverNullInUse, Idle
    <3>3. UNCHANGED <<conn, used_conns_>>
      BY <2>5 DEF GetPop
    <3>4. Idle' \subseteq Int
      BY DEF Idle
    <3>5. OneThreadEach'
      BY <3>2, <3>3, <3>4 DEF OneOwnerPerConnection, OneThreadEach, OneSlotEach, NotLentAndIdle, NoneLost
    <3>6. OneSlotEach'
      BY <3>2, <3>3, <3>4 DEF OneOwnerPerConnection, OneThreadEach, OneSlotEach, NotLentAndIdle, NoneLost
    <3>7. NotLentAndIdle'
      BY <3>2, <3>3, <3>4 DEF OneOwnerPerConnection, OneThreadEach, OneSlotEach, NotLentAndIdle, NoneLost
    <3>8. NoneLost'
      <4> SUFFICES ASSUME NEW c \in 1..used_conns_
                     PROVE  (\E u \in Threads : conn[u] = c) \/ \E i \in Idle' : conns_'[i] = c
        BY <3>3 DEF NoneLost
      <4>2. CASE \E i \in Idle : conns_[i] = c
        BY <3>2, <4>2
      <4>3. QED
        BY <4>2 DEF OneOwnerPerConnection, NoneLost
    <3>9. QED
      BY <3>5, <3>6, <3>7, <3>8 DEF OneOwnerPerConnection
  <2>6. CASE GetCreate(t)
    <3>1. conns_ = <<>> /\ conns_' = conns_ /\ Idle = {} /\ Idle' = {} /\ conn[t] = NoConn
      BY <2>6 DEF GetCreate, NeverNullInUse, Idle, Owning
    <3>2. conn' = [conn EXCEPT ![t] = used_conns_ + 1] /\ used_conns_' = used_conns_ + 1
      BY <2>6 DEF GetCreate
    <3>3. \A c \in 1..used_conns_' : c = used_conns_ + 1 \/ c \in 1..used_conns_
      BY <3>2
    <3>4. OneThreadEach'
      BY <3>1, <3>2, <3>3 DEF OneOwnerPerConnection, OneThreadEach, OneSlotEach, NotLentAndIdle, NoneLost
    <3>5. OneSlotEach'
      BY <3>1, <3>2, <3>3 DEF OneOwnerPerConnection, OneThreadEach, OneSlotEach, NotLentAndIdle, NoneLost
    <3>6. NotLentAndIdle'
      BY <3>1 DEF NotLentAndIdle
    <3>7. NoneLost'
      BY <3>1, <3>2, <3>3 DEF OneOwnerPerConnection, OneThreadEach, OneSlotEach, NotLentAndIdle, NoneLost
    <3>8. QED
      BY <3>4, <3>5, <3>6, <3>7 DEF OneOwnerPerConnection
  <2>7. CASE RelPush(t)
    <3>1. /\ Len(conns_') = Len(conns_) + 1 /\ conns_'[Len(conns_) + 1] = conn[t]
          /\ \A i \in 1..Len(conns_) : conns_'[i] = conns_[i]
      BY <2>7, AppendProperties DEF RelPush
    <3>2. /\ conn[t] # NoConn /\ conn' = [conn EXCEPT ![t] = NoConn]
          /\ used_conns_' = used_conns_
      BY <2>7 DEF RelPush, NeverNullInUse, Owning
    <3>3. /\ Idle' = Idle \cup {Len(conns_) + 1} /\ Len(conns_) + 1 \notin Idle
          /\ \A i \in Idle : conns_'[i] = conns_[i]
      BY <3>1, <3>2 DEF Idle
    <3>4. OneThreadEach'
      BY <3>1, <3>2, <3>3 DEF OneOwnerPerConnection, OneThreadEach, OneSlotEach, NotLentAndIdle, NoneLost
    <3>5. OneSlotEach'
      BY <3>1, <3>2, <3>3 DEF OneOwnerPerConnection, OneThreadEach, OneSlotEach, NotLentAndIdle, NoneLost
    <3>6. NotLentAndIdle'
      <4>1. \A u \in Threads : conn'[u] # conn[t]
        BY <3>2 DEF OneOwnerPerConnection, OneThreadEach
      <4>2. \A u \in Threads, i \in Idle : conn'[u] # conns_[i]
        BY <3>2 DEF OneOwnerPerConnection, NotLentAndIdle, Idle
      <4>3. \A i \in Idle' : conns_'[i] = conn[t] \/ (i \in Idle /\ conns_'[i] = conns_[i])
        BY <3>1, <3>3
      <4>4. QED
        BY <4>1, <4>2, <4>3 DEF NotLentAndIdle
    <3>7. NoneLost'
      BY <3>1, <3>2, <3>3 DEF OneOwnerPerConnection, OneThreadEach, OneSlotEach, NotLentAndIdle, NoneLost
    <3>8. QED
      BY <3>4, <3>5, <3>6, <3>7 DEF OneOwnerPerConnection
  <2>8. QED
    BY <2>1, <2>3, <2>4, <2>5, <2>6, <2>7
<1>3. QED
  BY <1>1, <1>2

(* Every step keeps the inductive invariant: its four parts together.       *)
LEMMA InvStep == Inv /\ [Next]_vars => Inv'
BY TypeStep, LockStep, NullStep, OwnerStep DEF Inv

(* Inv holds in every state of every execution of get() and release().      *)
THEOREM Invariance == Spec => []Inv
<1>1. Init => Inv
  BY InitInv
<1>2. Inv /\ [Next]_vars => Inv'
  BY InvStep
<1>3. QED
  BY <1>1, <1>2, PTL DEF Spec

(* The counters and pointers keep their types, for any finite Threads.      *)
THEOREM TypeCorrect == Spec => []TypeOK
BY Invariance, PTL DEF Inv

(* The spin lock of get() and release() gives mutual exclusion, and is set  *)
(* exactly while some thread is inside (conn_pool.h:30-61).                 *)
THEOREM LockCorrect == Spec => []LockMutualExclusion
BY Invariance, PTL DEF Inv

(* No thread ever works with, or gives back, the null pointer the move at   *)
(* conn_pool.h:33 leaves behind.                                            *)
THEOREM NullCorrect == Spec => []NeverNullInUse
BY Invariance, PTL DEF Inv

(* Every connection ever opened has exactly one owner, a thread or a slot   *)
(* of the deque.                                                            *)
THEOREM OwnershipCorrect == Spec => []OneOwnerPerConnection
BY Invariance, PTL DEF Inv

-----------------------------------------------------------------------------
(* A thread that finds the deque empty has none of the connections itself   *)
(* and loses none to the deque: all of them are with the other threads.     *)
LEMMA AllInUseAtCreate ==
  ASSUME Inv, NEW t \in Threads, GetCreate(t)
  PROVE  \A c \in 1..used_conns_ : \E u \in Threads \ {t} : conn[u] = c
<1>1. Idle = {} /\ conn[t] = 0
  BY DEF Inv, NeverNullInUse, GetCreate, Goto, Idle, Owning, NoConn
<1>2. QED
  BY <1>1 DEF Inv, OneOwnerPerConnection, NoneLost

(* No step makes a connection too many: one is made only when all the       *)
(* others are lent, each to a thread of its own other than the caller.      *)
LEMMA BoundStep ==
  Inv /\ ConnectionsBoundedByThreads /\ [Next]_vars => ConnectionsBoundedByThreads'
<1> SUFFICES ASSUME Inv, ConnectionsBoundedByThreads, [Next]_vars
             PROVE  ConnectionsBoundedByThreads'
  OBVIOUS
<1>1. CASE used_conns_' = used_conns_
  BY <1>1 DEF ConnectionsBoundedByThreads
<1>2. ASSUME NEW t \in Threads, GetCreate(t)
      PROVE  ConnectionsBoundedByThreads'
  <2> DEFINE others == {u \in Threads \ {t} : conn[u] # 0}
             held   == [u \in others |-> conn[u]]
  <2>1. used_conns_ \in Nat /\ conn \in [Threads -> 0..used_conns_]
    BY DEF Inv, TypeOK
  <2>2. held \in Surjection(others, 1..used_conns_)
    <3>1. held \in [others -> 1..used_conns_]
      BY <2>1
    <3>2. \A c \in 1..used_conns_ : \E u \in others : held[u] = c
      BY <1>2, <2>1, AllInUseAtCreate
    <3>3. QED
      BY <3>1, <3>2 DEF Surjection
  <2>3. /\ IsFiniteSet(Threads \ {t})
        /\ Cardinality(Threads \ {t}) = Cardinality(Threads) - 1
    BY ThreadsAssumption, FS_RemoveElement
  <2>4. IsFiniteSet(others) /\ Cardinality(others) <= Cardinality(Threads \ {t})
    BY <2>3, FS_Subset
  <2>5. Cardinality(1..used_conns_) <= Cardinality(others)
    BY <2>2, <2>4, FS_Surjection
  <2>6. Cardinality(1..used_conns_) = used_conns_
    BY <2>1, FS_Interval
  <2>7. used_conns_' = used_conns_ + 1
    BY <1>2 DEF GetCreate
  <2>8. Cardinality(Threads) \in Nat /\ Cardinality(others) \in Nat
    BY <2>4, ThreadsAssumption, FS_CardinalityType
  <2>9. QED
    BY <2>1, <2>3, <2>4, <2>5, <2>6, <2>7, <2>8 DEF ConnectionsBoundedByThreads
<1>3. QED
  <2>1. used_conns_' = used_conns_ \/ \E t \in Threads : GetCreate(t)
    BY NextCases DEF vars, GetCall, GetAcquire, GetSize, GetFront, GetPop, GetCreateFails,
                     GetThrow, GetReturn, RelCall, RelAcquire, RelPush, RelReturn,
                     TestAndSet, Clear
  <2>2. QED
    BY <1>1, <1>2, <2>1

(* "based on the finite thread usage" (conn_pool.h:13): however calls       *)
(* interleave, the pool never opens more connections than it has threads.   *)
THEOREM ConnectionsBounded == Spec => []ConnectionsBoundedByThreads
<1>1. Init => Inv /\ ConnectionsBoundedByThreads
  BY InitInv
<1>2. Inv /\ ConnectionsBoundedByThreads /\ [Next]_vars
         => Inv' /\ ConnectionsBoundedByThreads'
  BY InvStep, BoundStep
<1>3. QED
  BY <1>1, <1>2, PTL DEF Spec

-----------------------------------------------------------------------------
(* The pool implements PoolService.  A connection changes hands at the move *)
(* out of the front, at the creation and at the append; every other step    *)
(* leaves the abstract state alone.                                         *)

(* A new pool is a new service with nothing idle and nothing lent.          *)
LEMMA ServiceInitStep == Init => Service!ServiceInit
BY DEF Init, Service!ServiceInit, IdleConns, Idle, NoConn

LEMMA ServiceStep ==
  Inv /\ ConnectionsBoundedByThreads' /\ [Next]_vars
     => [Service!ServiceNext]_(Service!service)
<1> SUFFICES ASSUME Inv, ConnectionsBoundedByThreads', [Next]_vars
             PROVE  [Service!ServiceNext]_(Service!service)
  OBVIOUS
<1> USE DEF NoConn
<1>1. CASE UNCHANGED <<conns_, conn, used_conns_>>
  BY <1>1 DEF Service!service, IdleConns, Idle
<1>2. ASSUME NEW t \in Threads, GetFront(t)
      PROVE  Service!Take(t)
  <2>1. /\ conns_ # <<>> /\ Head(conns_) = conns_[1] /\ 1 \in 1..Len(conns_)
        /\ Len(conns_') = Len(conns_) /\ conns_'[1] = 0
        /\ \A i \in 1..Len(conns_) : i # 1 => conns_'[i] = conns_[i]
    BY <1>2 DEF GetFront, Inv, TypeOK, NeverNullInUse, Goto
  <2>2. conn[t] = 0 /\ 1 \in Idle
    <3>1. pc[t] = "get_front"
      BY <1>2 DEF GetFront, Goto
    <3>2. \A u \in Threads : pc[u] # "get_pop"
      BY <3>1 DEF Inv, LockMutualExclusion, Holders, Critical
    <3>3. QED
      BY <2>1, <3>1, <3>2 DEF Inv, NeverNullInUse, Owning, Idle
  <2>3. Idle' = Idle \ {1} /\ \A i \in Idle' : conns_'[i] = conns_[i]
    BY <2>1 DEF Idle
  <2>4. \A i \in Idle : i # 1 => conns_[i] # conns_[1]
    BY <2>2 DEF Inv, OneOwnerPerConnection, OneSlotEach
  <2>5. IdleConns' = IdleConns \ {conns_[1]} /\ conns_[1] \in IdleConns
    BY <2>2, <2>3, <2>4 DEF IdleConns
  <2>6. conn' = [conn EXCEPT ![t] = conns_[1]] /\ used_conns_' = used_conns_
    BY <1>2, <2>1 DEF GetFront
  <2>7. QED
    BY <2>2, <2>5, <2>6 DEF Service!Take
<1>3. ASSUME NEW t \in Threads, GetPop(t)
      PROVE  UNCHANGED Service!service
  <2>1. /\ conns_ # <<>> /\ conns_[1] = 0 /\ Len(conns_') = Len(conns_) - 1
        /\ \A i \in 1..Len(conns_') : conns_'[i] = conns_[i + 1]
    BY <1>3, HeadTailProperties DEF GetPop, Inv, TypeOK, NeverNullInUse, Goto
  <2>2. Len(conns_) \in Nat
    BY LenProperties DEF Inv, TypeOK
  <2>3. /\ \A i \in Idle' : i + 1 \in Idle /\ conns_'[i] = conns_[i + 1]
        /\ \A j \in Idle : j - 1 \in Idle' /\ conns_[j] = conns_'[j - 1]
    BY <2>1, <2>2 DEF Idle
  <2>4. IdleConns' = IdleConns
    BY <2>3 DEF IdleConns
  <2>5. QED
    BY <1>3, <2>4 DEF GetPop, Service!service
<1>4. ASSUME NEW t \in Threads, GetCreate(t)
      PROVE  Service!Open(t)
  <2>1. Idle = {} /\ Idle' = {} /\ conn[t] = 0
    BY <1>4 DEF GetCreate, Goto, Inv, NeverNullInUse, Owning, Idle
  <2>2. used_conns_ \in Nat /\ used_conns_' = used_conns_ + 1 /\ Cardinality(Threads) \in Nat
    BY <1>4, ThreadsAssumption, FS_CardinalityType DEF GetCreate, Inv, TypeOK
  <2>3. used_conns_ < Cardinality(Threads)
    BY <2>2 DEF ConnectionsBoundedByThreads
  <2>4. QED
    BY <1>4, <2>1, <2>2, <2>3 DEF GetCreate, Service!Open, IdleConns
<1>5. ASSUME NEW t \in Threads, RelPush(t)
      PROVE  Service!GiveBack(t)
  <2>1. /\ Len(conns_') = Len(conns_) + 1 /\ conns_'[Len(conns_) + 1] = conn[t]
        /\ \A i \in 1..Len(conns_) : conns_'[i] = conns_[i]
    BY <1>5, AppendProperties DEF RelPush, Inv, TypeOK
  <2>2. /\ conn[t] # 0 /\ conn' = [conn EXCEPT ![t] = 0]
        /\ used_conns_' = used_conns_
    BY <1>5 DEF RelPush, Inv, NeverNullInUse, Owning, Goto
  <2>3. Len(conns_) \in Nat
    BY LenProperties DEF Inv, TypeOK
  <2>4. Idle' = Idle \cup {Len(conns_) + 1} /\ \A i \in Idle : conns_'[i] = conns_[i]
    BY <2>1, <2>2, <2>3 DEF Idle
  <2>5. IdleConns' = IdleConns \cup {conn[t]}
    BY <2>1, <2>4 DEF IdleConns
  <2>6. QED
    BY <2>2, <2>5 DEF Service!GiveBack
<1>6. QED
  <2>1. \/ UNCHANGED <<conns_, conn, used_conns_>>
        \/ \E t \in Threads : GetFront(t) \/ GetPop(t) \/ GetCreate(t) \/ RelPush(t)
    BY NextCases DEF vars, GetCall, GetAcquire, GetSize, GetCreateFails,
                     GetThrow, GetReturn, RelCall, RelAcquire, RelReturn, TestAndSet, Clear
  <2>2. QED
    BY <1>1, <1>2, <1>3, <1>4, <1>5, <2>1 DEF Service!ServiceNext

(* ConnectionPool, with its lock, its deque and the null pointer it leaves  *)
(* in it, implements the atomic pool of PoolService.                        *)
THEOREM Implementation == Spec => ImplementsService
<1>1. Init => Service!ServiceInit
  BY ServiceInitStep
<1>2. Inv /\ ConnectionsBoundedByThreads' /\ [Next]_vars
         => [Service!ServiceNext]_(Service!service)
  BY ServiceStep
<1>3. Spec => []Inv /\ []ConnectionsBoundedByThreads
  BY Invariance, ConnectionsBounded, PTL
<1>4. QED
  BY <1>1, <1>2, <1>3, PTL DEF Spec, ImplementsService, Service!ServiceSpec

(* A connection is opened only while every other one is held by another     *)
(* thread (conn_pool.h:32-37).                                              *)
THEOREM OpensOnlyWhenNeeded == Spec => OpensOnlyWhenAllInUse
<1> DEFINE A == used_conns_' > used_conns_ =>
                  \A c \in 1..used_conns_ : \E t \in Threads : conn[t] = c /\ conn'[t] = c
<1>1. Inv /\ [Next]_vars => [A]_vars
  <2> SUFFICES ASSUME Inv, Next PROVE A
    OBVIOUS
  <2>1. used_conns_ \in Nat /\ conn \in [Threads -> 0..used_conns_]
    BY DEF Inv, TypeOK
  <2>2. CASE used_conns_' = used_conns_
    BY <2>1, <2>2
  <2>3. ASSUME NEW t \in Threads, GetCreate(t)
        PROVE  A
    <3>1. \A u \in Threads \ {t} : conn'[u] = conn[u]
      BY <2>1, <2>3 DEF GetCreate
    <3>2. QED
      BY <2>3, <3>1, AllInUseAtCreate
  <2>4. used_conns_' = used_conns_ \/ \E t \in Threads : GetCreate(t)
    BY NextCases DEF GetCall, GetAcquire, GetSize, GetFront, GetPop, GetCreateFails,
                     GetThrow, GetReturn, RelCall, RelAcquire, RelPush, RelReturn,
                     TestAndSet, Clear
  <2>5. QED
    BY <2>2, <2>3, <2>4
<1>2. QED
  BY <1>1, Invariance, PTL DEF Spec, OpensOnlyWhenAllInUse
=============================================================================

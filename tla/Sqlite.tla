------------------------------- MODULE Sqlite -------------------------------
(***************************************************************************)
(* Sqlite of src/src/sqlite/sqlite.h: the clients' calls, the queue of its *)
(* EventOps, the thread that handles the events (sqlite_event.h) and the   *)
(* tasks of union, join and copy, their promises, and the destructor.      *)
(*                                                                         *)
(* The pool of connections is the service that ConnPool implements, the    *)
(* queue and its thread are the service that ThreadPool implements; a      *)
(* statement is executed or fails, as StmtCache shows in detail.           *)
(***************************************************************************)
EXTENDS Integers, Sequences, FiniteSets

CONSTANTS
    Clients,
    Kinds,          \* the kinds of the calls they make
    Statements,     \* objects of one write, tables of one create
    MaxCalls        \* bound on the calls of one client

ASSUME StatementsAssumption == Statements \in Nat \ {0}
\* A read, a union or a join into one value, or into a list.
ASSUME KindsAssumption == Kinds \subseteq {"create", "write", "update", "del", "copy", "count", "read", "read_list",
                                           "union", "union_list", "join", "join_list"}

VARIABLES
    calls,          \* the kinds of each client's calls
    answer,         \* what their futures hold: "none", "value", "exception"
    queue,          \* those in the queues of the EventOps, <<client, number>>
    wpc,            \* where each worker is in handle()
    cur,            \* the call it handles
    part,           \* how many of its statements are over
    idle, lent, opened,     \* the pool of connections
    life,           \* "open", "closing" (the pool is gone) or "gone"
    done            \* history: the statements executed, in order

poolVars == <<idle, lent, opened>>
clientVars == <<calls, queue>>
workerVars == <<wpc, cur, part>>
vars == <<clientVars, answer, workerVars, poolVars, life, done>>

\* Mutant: operators_ has two consumers.
Workers_Two == 1..2

\* EventOps("sqlite3", 1)
Workers == 1..1

Pool == INSTANCE PoolService WITH Threads <- Workers, MaxOpened <- Cardinality(Workers)

Events == INSTANCE TaskService WITH Producers <- Clients, waiting <- queue, hand <- cur,
                                    given <- [c \in Clients |-> Len(calls[c])]

\* The statements of a call.
Parts == [kind \in Kinds |-> IF kind \in {"create", "write"} THEN Statements ELSE 1]

\* A step of theirs that fails is not seen: update, copy, and what is read into
\* one value, also by a union or a join.
Unchecked == {"update", "copy", "count", "read", "union", "join"}

Init == /\ calls = [c \in Clients |-> <<>>]
        /\ answer = [c \in Clients |-> <<>>]
        /\ wpc = [w \in Workers |-> "idle"]
        /\ Events!TasksInit
        /\ part = [w \in Workers |-> 0]
        /\ Pool!ServiceInit
        /\ life = "open"
        /\ done = <<>>

-----------------------------------------------------------------------------
(* create_event and commit: they prepare the event, insert it and return   *)
(* its future.                                                             *)

Called(c, kind, at) == /\ life = "open"
                       /\ Len(calls[c]) < MaxCalls
                       /\ calls' = [calls EXCEPT ![c] = Append(@, kind)]
                       /\ answer' = [answer EXCEPT ![c] = Append(@, at)]
                       /\ UNCHANGED <<wpc, part, poolVars, life, done>>

Inserted(c, kind) == Called(c, kind, "none") /\ \E w \in Workers : Events!Accept(c, w)

\* The event cannot be prepared: the future holds the exception.
PrepareThrows(c, kind) == Called(c, kind, "exception") /\ Events!Refuse(c)

\* The queue refuses the event, which nobody looks at: the future is returned.
InsertRefused(c, kind) == /\ \E w \in Workers, d \in Clients : queue[w][d] # <<>>
                          /\ Called(c, kind, "none")
                          /\ Events!Refuse(c)

-----------------------------------------------------------------------------
(* handle() *)

At(w, from, to) == wpc[w] = from /\ wpc' = [wpc EXCEPT ![w] = to]

KindOf(w) == calls[cur[w][1]][cur[w][2]]

TakeEvent(w) == /\ At(w, "idle", "get")
                /\ UNCHANGED <<calls, answer, part, poolVars, life, done>>
                /\ \E c \in Clients : Events!Start(w, c)

GetConn(w) == /\ At(w, "get", "run")
              /\ Pool!Take(w) \/ Pool!Open(w)
              /\ UNCHANGED <<clientVars, answer, cur, part, life, done>>

\* The database cannot be opened.
GetConnThrows(w) == /\ At(w, "get", "except")
                    /\ idle = {}
                    /\ UNCHANGED <<clientVars, answer, cur, part, poolVars, life, done>>

\* Mutant: the loop runs once too often.
Statement_OneMore(w) ==
    /\ At(w, "run", IF part[w] = Parts[KindOf(w)] THEN "release" ELSE "run")
    /\ part' = [part EXCEPT ![w] = @ + 1]
    /\ done' = Append(done, <<cur[w][1], cur[w][2], part[w] + 1>>)
    /\ UNCHANGED <<clientVars, answer, cur, poolVars, life>>

Statement(w) ==
    /\ At(w, "run", IF part[w] + 1 = Parts[KindOf(w)] THEN "release" ELSE "run")
    /\ part' = [part EXCEPT ![w] = @ + 1]
    /\ done' = Append(done, <<cur[w][1], cur[w][2], part[w] + 1>>)
    /\ UNCHANGED <<clientVars, answer, cur, poolVars, life>>

\* It cannot be prepared or bound, or its step fails and is checked.
StatementThrows(w) == /\ At(w, "run", "catch")
                      /\ UNCHANGED <<clientVars, answer, cur, part, poolVars, life, done>>

\* Mutant: what sqlite3_exec returned to write() is not looked at.
StepFails_Write(w) == /\ At(w, "run", "release")
                      /\ KindOf(w) \in Unchecked \cup {"create", "write"}
                      /\ UNCHANGED <<clientVars, answer, cur, part, poolVars, life, done>>

\* Its step fails, the database is busy for example, and is not checked.
StepFails(w) == /\ At(w, "run", "release")
                /\ KindOf(w) \in Unchecked
                /\ UNCHANGED <<clientVars, answer, cur, part, poolVars, life, done>>

\* The promise gets this, and the event is gone.
Resolve(w, at) ==
    /\ answer' = [answer EXCEPT ![cur[w][1]][cur[w][2]] = at]
    /\ part' = [part EXCEPT ![w] = 0]
    /\ UNCHANGED <<calls, life, done>>
    /\ Events!Finish(w)

\* Mutant: the value is set before the connection is released.
Release_Late(w) ==
    LET at == answer[cur[w][1]][cur[w][2]] IN
    \/ /\ At(w, "release", "release")
       /\ at = "none"
       /\ answer' = [answer EXCEPT ![cur[w][1]][cur[w][2]] = "value"]
       /\ UNCHANGED <<clientVars, cur, part, poolVars, life, done>>
    \/ /\ At(w, "release", "idle")
       /\ at # "none"
       /\ Pool!GiveBack(w)
       /\ part' = [part EXCEPT ![w] = 0]
       /\ UNCHANGED <<calls, answer, life, done>>
       /\ Events!Finish(w)

Release(w) == /\ At(w, "release", "set")
              /\ Pool!GiveBack(w)
              /\ UNCHANGED <<clientVars, answer, cur, part, life, done>>

SetValue(w) == At(w, "set", "idle") /\ Resolve(w, "value") /\ UNCHANGED poolVars

\* Mutant: the handler does not release the connection.
Catch_KeepsConn(w) == /\ At(w, "catch", "except")
                      /\ UNCHANGED <<clientVars, answer, cur, part, poolVars, life, done>>

Catch(w) == /\ At(w, "catch", "except")
            /\ Pool!GiveBack(w)
            /\ UNCHANGED <<clientVars, answer, cur, part, life, done>>

\* Mutant: the exception is swallowed.
SetException_Swallowed(w) == At(w, "except", "idle") /\ Resolve(w, "none") /\ UNCHANGED poolVars

SetException(w) == At(w, "except", "idle") /\ Resolve(w, "exception") /\ UNCHANGED poolVars

-----------------------------------------------------------------------------
(* ~Sqlite(): conn_pool_ goes first, then operators_, whose destructor     *)
(* stops the thread.  The owner has waited for all futures, as it must.    *)

AllAnswered == \A c \in Clients : \A n \in 1..Len(calls[c]) : answer[c][n] # "none"

FreePool == /\ life = "open"
            /\ AllAnswered
            /\ life' = "closing"
            /\ UNCHANGED <<clientVars, answer, workerVars, poolVars, done>>

StopOperators == /\ life = "closing"
                 /\ \A w \in Workers, c \in Clients : queue[w][c] = <<>>
                 /\ \A w \in Workers : wpc[w] = "idle"
                 /\ life' = "gone"
                 /\ UNCHANGED <<clientVars, answer, workerVars, poolVars, done>>

-----------------------------------------------------------------------------

Call(c, kind) == Inserted(c, kind) \/ PrepareThrows(c, kind) \/ InsertRefused(c, kind)

Handle(w) == \/ TakeEvent(w) \/ GetConn(w) \/ GetConnThrows(w)
             \/ Statement(w) \/ StatementThrows(w) \/ StepFails(w)
             \/ Release(w) \/ SetValue(w) \/ Catch(w) \/ SetException(w)

Next == \/ \E c \in Clients, kind \in Kinds : Call(c, kind)
        \/ \E w \in Workers : Handle(w)
        \/ FreePool
        \/ StopOperators

Spec == Init /\ [][Next]_vars

\* The thread runs, and a destructor that was entered.
FairSpec == Spec /\ (\A w \in Workers : WF_vars(Handle(w))) /\ WF_vars(StopOperators)

-----------------------------------------------------------------------------
(* Properties *)

Answers == {"none", "value", "exception"}

CallTypes == /\ calls \in [Clients -> Seq(Kinds)]
             /\ answer \in [Clients -> Seq(Answers)]
             /\ \A c \in Clients : Len(answer[c]) = Len(calls[c])
QueueTypes == /\ queue \in [Workers -> [Clients -> Seq(Clients \X Nat)]]
              /\ cur \in [Workers -> (Clients \X Nat) \cup {Events!NoTask}]
WorkerTypes == /\ wpc \in [Workers -> {"idle", "get", "run", "release", "set", "catch", "except"}]
               /\ part \in [Workers -> Nat]
               /\ \A w \in Workers : wpc[w] # "idle" => part[w] <= Parts[KindOf(w)]
PoolTypes == idle \subseteq Nat \ {0} /\ lent \in [Workers -> Nat] /\ opened \in Nat

TypeOK == /\ CallTypes /\ QueueTypes /\ WorkerTypes /\ PoolTypes
          /\ life \in {"open", "closing", "gone"}
          /\ done \in Seq(Clients \X Nat \X Nat)

(* Every way out of handle() gives the connection back before the client is *)
(* answered, so that one connection serves the thread for ever              *)
(* (sqlite_event.h:58-66, 101-109, 146-154, 185-193).                       *)
ConnectionsReturned ==
    /\ \A w \in Workers : lent[w] # 0 <=> wpc[w] \in {"run", "release", "catch"}
    /\ opened <= Cardinality(Workers)

(* An owner that destroys the object once all its futures are ready is      *)
(* safe: no event is still between get() and release() of the pool that is  *)
(* destroyed before the thread is joined (sqlite.h:121-122).                *)
PoolOutlivesUse == life # "open" => \A w \in Workers : wpc[w] = "idle"

(* Whoever waits for a call that was put into the queue does not wait for   *)
(* ever: it is handled, and every way out of handle() resolves the promise. *)
InsertedIsAnswered ==
    \A c \in Clients, n \in 1..MaxCalls :
        (\E w \in Workers : \E i \in 1..Len(queue[w][c]) : queue[w][c][i] = <<c, n>>)
           ~> (n <= Len(answer[c]) /\ answer[c][n] # "none")

ActiveCalls == {cur[w] : w \in {v \in Workers : wpc[v] # "idle"}}

Storage == INSTANCE StorageService WITH
    waiting <- [c \in Clients |-> [i \in 1..Len(queue[1][c]) |-> queue[1][c][i][2]]],
    active <- ActiveCalls

(* The queue, the thread and the pool implement the storage its clients     *)
(* see: one call at a time, each client's in its order, one answer each,    *)
(* and a value only for what was executed.                                  *)
ImplementsStorage == Storage!StorageSpec

=============================================================================

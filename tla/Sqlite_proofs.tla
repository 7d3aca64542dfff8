---------------------------- MODULE Sqlite_proofs ----------------------------
(***************************************************************************)
(* Proofs about Sqlite: of its queue and thread they use only what follows *)
(* from TaskService, which ThreadPool implements.                          *)
(***************************************************************************)
EXTENDS Sqlite, FiniteSetTheorems, SequenceTheorems, TLAPS

\* Events, with the lemmas about it.
Queue == INSTANCE TaskService_proofs WITH Producers <- Clients, waiting <- queue, hand <- cur,
                                          given <- [c \in Clients |-> Len(calls[c])]

-----------------------------------------------------------------------------
(* The inductive invariant *)

\* A worker has a call exactly while it is in handle().
CurInv == \A w \in Workers : cur[w] # Queue!NoTask <=> wpc[w] # "idle"

\* What waits or is being handled has no answer yet; the owner waited for them all.
AnswerInv == /\ \A w \in Workers, task \in Queue!Tasks :
                   Queue!Waits(w, task) \/ cur[w] = task => answer[task[1]][task[2]] = "none"
             /\ life # "open" => AllAnswered

\* The i-th statement of a call was executed.
Executed(task, i) == \E k \in 1..Len(done) : done[k] = <<task[1], task[2], i>>

\* Of a call that is not made or waits no statement was executed, of one that is
\* handled those it is past.
DoneInv == /\ \A task \in Queue!Tasks, i \in Nat :
                 Executed(task, i) => /\ task[2] <= Len(calls[task[1]])
                                      /\ \A w \in Workers : ~Queue!Waits(w, task)
           /\ \A w \in Workers : wpc[w] # "idle" =>
                 \A i \in Nat : Executed(cur[w], i) <=> i \in 1..part[w]

\* Where in handle() how many of them are over
PartInv == \A w \in Workers :
               /\ wpc[w] \in {"idle", "get"} => part[w] = 0
               /\ wpc[w] = "run" => part[w] < Parts[KindOf(w)]
               /\ wpc[w] \in {"release", "set"} /\ KindOf(w) \notin Unchecked => part[w] = Parts[KindOf(w)]

Inv == /\ TypeOK /\ Queue!TasksInv /\ CurInv /\ ConnectionsReturned
       /\ AnswerInv /\ PartInv /\ DoneInv

LEMMA OneWorker == Workers = {1} /\ Cardinality(Workers) = 1
<1>1. Workers = {1}
  BY DEF Workers
<1>2. QED
  BY <1>1, FS_Singleton

LEMMA InitInv == Init => Inv
<1> SUFFICES ASSUME Init PROVE Inv
  OBVIOUS
<1> USE DEF Init
<1>1. [c \in Clients |-> Len(calls[c])] = [c \in Clients |-> 0]
  BY EmptySeq
<1>2. Queue!TasksInv
  <2>1. Queue!TasksInit
    BY <1>1 DEF Queue!TasksInit, Events!TasksInit, Queue!NoTask, Events!NoTask
  <2>2. QED
    BY <2>1, Queue!TasksInvInit
<1>3. queue = [w \in Workers |-> [c \in Clients |-> <<>>]] /\ cur = [w \in Workers |-> <<>>]
  BY DEF Events!TasksInit, Events!NoTask
<1>4. idle = {} /\ lent = [w \in Workers |-> 0] /\ opened = 0
  BY DEF Pool!ServiceInit
<1>5. TypeOK
  <2>1. CallTypes
    BY EmptySeq DEF CallTypes
  <2>2. QueueTypes
    BY <1>3, EmptySeq DEF QueueTypes, Events!NoTask
  <2>3. WorkerTypes /\ PoolTypes
    BY <1>4 DEF WorkerTypes, PoolTypes
  <2>4. done \in Seq(Clients \X Nat \X Nat)
    BY EmptySeq
  <2>5. QED
    BY <2>1, <2>2, <2>3, <2>4 DEF TypeOK
<1>6. CurInv
  BY <1>3 DEF CurInv, Queue!NoTask
<1>7. ConnectionsReturned
  BY <1>4, OneWorker DEF ConnectionsReturned
<1>8. AnswerInv
  BY <1>3, Queue!TaskIsSome DEF AnswerInv, Queue!Waits, Queue!Tasks, Queue!NoTask
<1>9. PartInv
  BY DEF PartInv
<1>10. DoneInv
  BY DEF DoneInv, Executed
<1>11. QED
  BY <1>2, <1>5, <1>6, <1>7, <1>8, <1>9, <1>10 DEF Inv

-----------------------------------------------------------------------------
(* What the parts of a step do *)

LEMMA NextCases ==
  ASSUME Next
  PROVE  \/ \E c \in Clients, kind \in Kinds : Inserted(c, kind) \/ PrepareThrows(c, kind) \/ InsertRefused(c, kind)
         \/ \E w \in Workers : \/ TakeEvent(w) \/ GetConn(w) \/ GetConnThrows(w)
                               \/ Statement(w) \/ StatementThrows(w) \/ StepFails(w)
                               \/ Release(w) \/ SetValue(w) \/ Catch(w) \/ SetException(w)
         \/ FreePool \/ StopOperators
BY DEF Next, Call, Handle

LEMMA PartsPositive == \A kind \in Kinds : Parts[kind] \in Nat \ {0}
BY StatementsAssumption DEF Parts

\* A worker in handle() has a call that was made.
LEMMA Busy ==
  ASSUME TypeOK, CurInv, Queue!TasksInv, NEW w \in Workers, wpc[w] # "idle"
  PROVE  /\ cur[w] \in Queue!Tasks /\ cur[w][1] \in Clients /\ cur[w][2] \in Nat
         /\ cur[w][2] \in 1..Len(calls[cur[w][1]])
         /\ KindOf(w) \in Kinds /\ Parts[KindOf(w)] \in Nat \ {0}
<1>1. cur[w] \in Queue!Tasks
  BY DEF CurInv, Queue!TasksInv, Queue!TaskTypes
<1>2. cur[w][1] \in Clients /\ cur[w][2] \in Nat
  BY <1>1 DEF Queue!Tasks
<1>3. cur[w][2] \in 1..Len(calls[cur[w][1]])
  BY <1>1, <1>2 DEF Queue!TasksInv, Queue!Once
<1>4. calls[cur[w][1]] \in Seq(Kinds)
  BY <1>2 DEF TypeOK, CallTypes
<1>5. KindOf(w) \in Kinds
  BY <1>3, <1>4, ElementOfSeq DEF KindOf
<1>6. QED
  BY <1>1, <1>2, <1>3, <1>5, PartsPositive

\* A call is added to those of its client, with an answer or without.
LEMMA CalledStep ==
  ASSUME TypeOK, NEW c \in Clients, NEW kind \in Kinds, NEW at \in Answers, Called(c, kind, at)
  PROVE  /\ life = "open" /\ CallTypes'
         /\ Len(calls[c]) \in Nat /\ Len(calls'[c]) = Len(calls[c]) + 1
         /\ \A n \in 1..Len(calls[c]) : calls'[c][n] = calls[c][n] /\ answer'[c][n] = answer[c][n]
         /\ answer'[c][Len(calls[c]) + 1] = at
         /\ \A d \in Clients \ {c} : calls'[d] = calls[d] /\ answer'[d] = answer[d]
         /\ UNCHANGED <<wpc, part, idle, lent, opened, life, done>>
<1> DEFINE s == calls[c]
           a == answer[c]
<1>1. /\ calls \in [Clients -> Seq(Kinds)] /\ s \in Seq(Kinds)
      /\ answer \in [Clients -> Seq(Answers)] /\ a \in Seq(Answers)
      /\ Len(a) = Len(s)
  BY DEF TypeOK, CallTypes
<1>2. calls' = [calls EXCEPT ![c] = Append(s, kind)] /\ answer' = [answer EXCEPT ![c] = Append(a, at)]
  BY DEF Called
<1> HIDE DEF s, a
<1>3. /\ Append(s, kind) \in Seq(Kinds)
      /\ Len(s) \in Nat /\ Len(Append(s, kind)) = Len(s) + 1
      /\ \A n \in 1..Len(s) : Append(s, kind)[n] = s[n]
  BY <1>1, AppendProperties, LenProperties
<1>4. /\ Append(a, at) \in Seq(Answers)
      /\ Len(Append(a, at)) = Len(a) + 1
      /\ Append(a, at)[Len(a) + 1] = at
      /\ \A n \in 1..Len(a) : Append(a, at)[n] = a[n]
  BY <1>1, AppendProperties, LenProperties
<1>5. /\ calls' \in [Clients -> Seq(Kinds)] /\ calls'[c] = Append(s, kind)
      /\ \A d \in Clients \ {c} : calls'[d] = calls[d]
  BY <1>1, <1>2, <1>3
<1>6. /\ answer' \in [Clients -> Seq(Answers)] /\ answer'[c] = Append(a, at)
      /\ \A d \in Clients \ {c} : answer'[d] = answer[d]
  BY <1>1, <1>2, <1>4
<1>7. CallTypes'
  <2>1. \A d \in Clients \ {c} : Len(answer[d]) = Len(calls[d])
    BY DEF TypeOK, CallTypes
  <2>2. Len(answer'[c]) = Len(calls'[c])
    BY <1>1, <1>3, <1>4, <1>5, <1>6
  <2>3. QED
    BY <1>5, <1>6, <2>1, <2>2 DEF CallTypes
<1>8. QED
  BY <1>1, <1>3, <1>4, <1>5, <1>6, <1>7 DEF Called, poolVars, s, a

\* What the three ways to make a call do to the queue.
LEMMA CallCases ==
  ASSUME NEW c \in Clients, NEW kind \in Kinds,
         Inserted(c, kind) \/ PrepareThrows(c, kind) \/ InsertRefused(c, kind)
  PROVE  \E at \in Answers :
            /\ Called(c, kind, at)
            /\ \/ at = "none" /\ \E w \in Workers : Queue!Accept(c, w)
               \/ Queue!Refuse(c)
BY DEF Inserted, PrepareThrows, InsertRefused, Answers,
       Events!Accept, Events!Refuse, Queue!Accept, Queue!Refuse

\* Inside handle() the worker keeps its call, and nobody is answered.
Inside(w) == \/ GetConn(w) \/ GetConnThrows(w) \/ Statement(w) \/ StatementThrows(w)
             \/ StepFails(w) \/ Release(w) \/ Catch(w)

LEMMA InsideStep ==
  ASSUME TypeOK, NEW w \in Workers, Inside(w)
  PROVE  /\ UNCHANGED <<calls, queue, answer, cur, life>>
         /\ wpc[w] # "idle" /\ wpc'[w] # "idle"
         /\ wpc' \in [Workers -> {"idle", "get", "run", "release", "set", "catch", "except"}]
         /\ \A v \in Workers \ {w} : wpc'[v] = wpc[v]
<1>1. UNCHANGED <<calls, queue, answer, cur, life>>
  BY DEF Inside, GetConn, GetConnThrows, Statement, StatementThrows, StepFails, Release, Catch,
         clientVars
<1>2. \E from, to \in {"get", "run", "release", "set", "catch", "except"} : At(w, from, to)
  BY DEF Inside, GetConn, GetConnThrows, Statement, StatementThrows, StepFails, Release, Catch
<1>3. QED
  BY <1>1, <1>2 DEF At, TypeOK, WorkerTypes

\* The thread takes an event, or resolves the promise of the one it has.
LEMMA TakeStep ==
  ASSUME TypeOK, NEW w \in Workers, TakeEvent(w)
  PROVE  /\ UNCHANGED <<calls, answer, part, idle, lent, opened, life, done>>
         /\ wpc[w] = "idle" /\ wpc' = [wpc EXCEPT ![w] = "get"] /\ wpc'[w] = "get"
         /\ \A v \in Workers \ {w} : wpc'[v] = wpc[v]
         /\ \E c \in Clients : Queue!Start(w, c)
BY DEF TakeEvent, At, poolVars, Events!Start, Queue!Start, Events!NoTask, Queue!NoTask, TypeOK, WorkerTypes

LEMMA ResolveStep ==
  ASSUME TypeOK, NEW w \in Workers, SetValue(w) \/ SetException(w)
  PROVE  \E at \in {"value", "exception"} :
            /\ answer' = [answer EXCEPT ![cur[w][1]][cur[w][2]] = at]
            /\ part' = [part EXCEPT ![w] = 0]
            /\ UNCHANGED <<calls, idle, lent, opened, life, done>>
            /\ wpc[w] = (IF at = "value" THEN "set" ELSE "except")
            /\ wpc' = [wpc EXCEPT ![w] = "idle"] /\ wpc'[w] = "idle"
            /\ \A v \in Workers \ {w} : wpc'[v] = wpc[v]
            /\ Queue!Finish(w)
BY DEF SetValue, SetException, Resolve, At, poolVars, Events!Finish, Queue!Finish, Events!NoTask, Queue!NoTask,
       TypeOK, WorkerTypes

LEMMA EndFrame == FreePool \/ StopOperators => UNCHANGED <<calls, queue, answer, wpc, cur, part, idle, lent, opened, done>>
BY DEF FreePool, StopOperators, clientVars, workerVars, poolVars

\* Every step is one of the queue's service, or leaves it alone.
LEMMA QueueStep == TypeOK /\ Queue!TasksInv /\ [Next]_vars => [Queue!TasksNext]_(Queue!tasks) /\ Queue!TasksInv'
<1> SUFFICES ASSUME TypeOK, Queue!TasksInv, [Next]_vars PROVE [Queue!TasksNext]_(Queue!tasks)
  BY Queue!TasksInvStep
<1>1. CASE UNCHANGED <<calls, queue, cur>>
  BY <1>1 DEF Queue!tasks
<1>2. ASSUME NEW c \in Clients, NEW kind \in Kinds,
             Inserted(c, kind) \/ PrepareThrows(c, kind) \/ InsertRefused(c, kind)
      PROVE  Queue!TasksNext
  BY <1>2, CallCases DEF Queue!TasksNext
<1>3. ASSUME NEW w \in Workers, TakeEvent(w) \/ SetValue(w) \/ SetException(w)
      PROVE  Queue!TasksNext
  BY <1>3, TakeStep, ResolveStep DEF Queue!TasksNext
<1>4. ASSUME NEW w \in Workers, Inside(w)
      PROVE  UNCHANGED <<calls, queue, cur>>
  BY <1>4, InsideStep
<1>5. CASE UNCHANGED vars
  BY <1>1, <1>5 DEF vars, clientVars, workerVars
<1>6. QED
  BY <1>1, <1>2, <1>3, <1>4, <1>5, EndFrame, NextCases DEF Inside

\* The event that is taken is the oldest of some client's, and waits no more.
LEMMA TakenStep ==
  ASSUME TypeOK, Queue!TasksInv, NEW w \in Workers, TakeEvent(w)
  PROVE  \E c \in Clients, task \in Queue!Tasks :
            /\ Queue!Start(w, c) /\ task = Head(queue[w][c])
            /\ task[1] = c /\ task[2] \in 1..Len(calls[c]) /\ calls[c][task[2]] \in Kinds
            /\ Queue!Waits(w, task)
            /\ cur'[w] = task /\ \A v \in Workers \ {w} : cur'[v] = cur[v]
            /\ \A v \in Workers, t \in Queue!Tasks : Queue!Waits(v, t)' => Queue!Waits(v, t) /\ t # task
<1>1. PICK c \in Clients : Queue!Start(w, c)
  BY TakeStep
<1>2. PICK task : task = Head(queue[w][c])
  OBVIOUS
<1>3. task \in Queue!Tasks /\ cur' = [cur EXCEPT ![w] = task] /\ task = queue[w][c][1] /\ Len(queue[w][c]) \in Nat \ {0}
  BY <1>1, <1>2, Queue!StartStep
<1>4. cur'[w] = task /\ \A v \in Workers \ {w} : cur'[v] = cur[v]
  BY <1>3 DEF TypeOK, QueueTypes
<1>5. /\ Queue!Waits(w, task)
      /\ \A v \in Workers, t \in Queue!Tasks : Queue!Waits(v, t)' => Queue!Waits(v, t) /\ t # task
  BY <1>1, <1>2, Queue!StartWaits
<1>6. task[1] = c /\ task[2] \in 1..Len(calls[c])
  BY <1>3 DEF Queue!TasksInv, Queue!InOrder
<1>7. calls[c][task[2]] \in Kinds
  <2>1. calls[c] \in Seq(Kinds)
    BY DEF TypeOK, CallTypes
  <2>2. QED
    BY <1>6, <2>1, ElementOfSeq
<1>8. QED
  BY <1>1, <1>2, <1>3, <1>4, <1>5, <1>6, <1>7

\* As long as a worker keeps its call, the kind of it is the same.
LEMMA KindStays ==
  ASSUME TypeOK, CurInv, Queue!TasksInv, [Next]_vars, NEW w \in Workers, wpc[w] # "idle", cur'[w] = cur[w]
  PROVE  KindOf(w)' = KindOf(w)
<1>1. cur[w][1] \in Clients /\ cur[w][2] \in 1..Len(calls[cur[w][1]])
  BY Busy
<1>2. CASE UNCHANGED calls
  BY <1>2 DEF KindOf
<1>3. ASSUME NEW c \in Clients, NEW kind \in Kinds, NEW at \in Answers, Called(c, kind, at)
      PROVE  KindOf(w)' = KindOf(w)
  <2>1. /\ \A n \in 1..Len(calls[c]) : calls'[c][n] = calls[c][n]
        /\ \A d \in Clients \ {c} : calls'[d] = calls[d]
    BY <1>3, CalledStep
  <2>2. QED
    BY <1>1, <2>1 DEF KindOf
<1>4. QED
  BY <1>2, <1>3, CallCases, NextCases, TakeStep, InsideStep, ResolveStep, EndFrame
     DEF Inside, vars, clientVars

-----------------------------------------------------------------------------
(* The steps keep the invariant *)

\* How many of its statements are over: each part of handle() is reached from
\* another, with as many or one more, and left for "idle" with none.
LEMMA PartStep ==
  TypeOK /\ CurInv /\ Queue!TasksInv /\ PartInv /\ [Next]_vars => WorkerTypes' /\ PartInv'
<1> SUFFICES ASSUME TypeOK, CurInv, Queue!TasksInv, PartInv, [Next]_vars
             PROVE  WorkerTypes' /\ PartInv'
  OBVIOUS
<1> DEFINE Past(w) == /\ wpc[w] # "idle" => part[w] <= Parts[KindOf(w)]
                      /\ wpc[w] \in {"idle", "get"} => part[w] = 0
                      /\ wpc[w] = "run" => part[w] < Parts[KindOf(w)]
                      /\ wpc[w] \in {"release", "set"} /\ KindOf(w) \notin Unchecked => part[w] = Parts[KindOf(w)]
           Pcs == {"idle", "get", "run", "release", "set", "catch", "except"}
<1>1. wpc \in [Workers -> Pcs] /\ part \in [Workers -> Nat] /\ \A w \in Workers : Past(w)
  BY DEF TypeOK, WorkerTypes, PartInv
<1>2. ASSUME wpc' \in [Workers -> Pcs], part' \in [Workers -> Nat], \A w \in Workers : Past(w)'
      PROVE  WorkerTypes' /\ PartInv'
  BY <1>2 DEF WorkerTypes, PartInv
<1>3. ASSUME UNCHANGED <<wpc, part, cur>>
      PROVE  WorkerTypes' /\ PartInv'
  <2>1. \A w \in Workers : Past(w)'
    BY <1>1, <1>3, KindStays
  <2>2. QED
    BY <1>1, <1>2, <1>3, <2>1
<1>4. ASSUME NEW w \in Workers, NEW pc \in Pcs, NEW n \in Nat,
             wpc' = [wpc EXCEPT ![w] = pc], part' = [part EXCEPT ![w] = n], Past(w)'
      PROVE  WorkerTypes' /\ PartInv'
  <2>1. wpc' \in [Workers -> Pcs] /\ part' \in [Workers -> Nat]
    BY <1>1, <1>4
  <2>2. \A v \in Workers : v = w
    BY OneWorker
  <2>3. QED
    BY <1>2, <1>4, <2>1, <2>2
<1>5. ASSUME NEW w \in Workers, TakeEvent(w)
      PROVE  WorkerTypes' /\ PartInv'
  <2>1. wpc[w] = "idle" /\ wpc' = [wpc EXCEPT ![w] = "get"] /\ UNCHANGED <<calls, part>>
    BY <1>5, TakeStep
  <2>2. part[w] = 0 /\ part' = [part EXCEPT ![w] = 0] /\ part'[w] = 0 /\ wpc'[w] = "get"
    BY <1>1, <2>1
  <2>3. PICK c \in Clients, task \in Queue!Tasks :
           task[1] = c /\ calls[c][task[2]] \in Kinds /\ cur'[w] = task
    BY <1>5, TakenStep
  <2>4. KindOf(w)' \in Kinds
    BY <2>1, <2>3 DEF KindOf
  <2>5. Parts[KindOf(w)'] \in Nat \ {0}
    BY <2>4, PartsPositive
  <2>6. Past(w)'
    BY <2>2, <2>5 DEF Parts
  <2>7. QED
    BY <1>4, <2>1, <2>2, <2>6
<1>6. ASSUME NEW w \in Workers, SetValue(w) \/ SetException(w)
      PROVE  WorkerTypes' /\ PartInv'
  <2>1. wpc' = [wpc EXCEPT ![w] = "idle"] /\ part' = [part EXCEPT ![w] = 0]
    BY <1>6, ResolveStep
  <2>2. Past(w)'
    BY <1>1, <2>1
  <2>3. QED
    BY <1>4, <2>1, <2>2
<1>7. ASSUME NEW w \in Workers, Inside(w)
      PROVE  WorkerTypes' /\ PartInv'
  <2> DEFINE n == part[w]
             m == Parts[KindOf(w)]
  <2>1. wpc[w] # "idle" /\ UNCHANGED <<calls, cur>>
    BY <1>7, InsideStep
  <2>2. n \in Nat /\ m \in Nat \ {0} /\ n <= m /\ KindOf(w)' = KindOf(w)
    BY <1>1, <2>1, Busy DEF KindOf
  <2>3. CASE Statement(w)
    <3>1. /\ wpc[w] = "run" /\ part' = [part EXCEPT ![w] = n + 1]
          /\ wpc' = [wpc EXCEPT ![w] = IF n + 1 = m THEN "release" ELSE "run"]
      BY <2>3 DEF Statement, At
    <3>2. n < m
      BY <1>1, <3>1
    <3>3. /\ part'[w] = n + 1 /\ n + 1 \in Nat /\ n + 1 <= m
          /\ wpc'[w] = (IF n + 1 = m THEN "release" ELSE "run")
      BY <1>1, <2>2, <3>1, <3>2
    <3> HIDE DEF n, m
    <3>4. Parts[KindOf(w)]' = m
      BY <2>2 DEF Parts, m
    <3>5. Past(w)'
      BY <2>2, <3>3, <3>4
    <3>6. QED
      BY <1>4, <3>1, <3>3, <3>5
  <2>4. CASE GetConn(w) \/ GetConnThrows(w) \/ StatementThrows(w) \/ StepFails(w) \/ Release(w) \/ Catch(w)
    <3>1. UNCHANGED part /\ part' = [part EXCEPT ![w] = n] /\ part'[w] = n
      BY <1>1, <2>4 DEF GetConn, GetConnThrows, StatementThrows, StepFails, Release, Catch
    <3>2. \/ wpc[w] = "get" /\ wpc' = [wpc EXCEPT ![w] = "run"]
          \/ wpc[w] = "get" /\ wpc' = [wpc EXCEPT ![w] = "except"]
          \/ wpc[w] = "run" /\ wpc' = [wpc EXCEPT ![w] = "catch"]
          \/ wpc[w] = "run" /\ KindOf(w) \in Unchecked /\ wpc' = [wpc EXCEPT ![w] = "release"]
          \/ wpc[w] = "release" /\ wpc' = [wpc EXCEPT ![w] = "set"]
          \/ wpc[w] = "catch" /\ wpc' = [wpc EXCEPT ![w] = "except"]
      BY <2>4 DEF GetConn, GetConnThrows, StatementThrows, StepFails, Release, Catch, At
    <3>3. PICK pc \in Pcs : wpc' = [wpc EXCEPT ![w] = pc] /\ wpc'[w] = pc
      BY <1>1, <3>2
    <3> HIDE DEF n, m
    <3>4. Parts[KindOf(w)]' = m
      BY <2>2 DEF Parts, m
    <3>5. Past(w)
      BY <1>1
    <3>6. Past(w)'
      BY <1>1, <2>2, <3>1, <3>2, <3>4, <3>5 DEF n, m
    <3>7. QED
      BY <1>4, <2>2, <3>1, <3>3, <3>6
  <2>5. QED
    BY <1>7, <2>3, <2>4 DEF Inside
<1>8. ASSUME NEW c \in Clients, NEW kind \in Kinds,
             Inserted(c, kind) \/ PrepareThrows(c, kind) \/ InsertRefused(c, kind)
      PROVE  UNCHANGED <<wpc, part, cur>>
  BY <1>8, CallCases, CalledStep DEF Queue!Accept, Queue!Refuse
<1>9. CASE UNCHANGED vars
  BY <1>3, <1>9 DEF vars, workerVars
<1>10. QED
  BY <1>3, <1>5, <1>6, <1>7, <1>8, <1>9, EndFrame, NextCases DEF Inside

LEMMA PoolStep ==
  TypeOK /\ ConnectionsReturned /\ [Next]_vars => PoolTypes' /\ ConnectionsReturned'
<1> SUFFICES ASSUME TypeOK, ConnectionsReturned, [Next]_vars PROVE PoolTypes' /\ ConnectionsReturned'
  OBVIOUS
<1> USE DEF PoolTypes, ConnectionsReturned
<1> DEFINE Lending == {"run", "release", "catch"}
<1>1. PoolTypes /\ wpc \in [Workers -> {"idle", "get", "run", "release", "set", "catch", "except"}]
  BY DEF TypeOK, WorkerTypes
<1>2. ASSUME UNCHANGED <<idle, lent, opened>>, \A w \in Workers : wpc[w] \in Lending <=> wpc'[w] \in Lending
      PROVE  PoolTypes' /\ ConnectionsReturned'
  BY <1>1, <1>2
<1>3. ASSUME NEW w \in Workers, GetConn(w)
      PROVE  PoolTypes' /\ ConnectionsReturned'
  <2>1. wpc'[w] = "run" /\ \A v \in Workers \ {w} : wpc'[v] = wpc[v]
    BY <1>1, <1>3 DEF GetConn, At
  <2>2. CASE Pool!Take(w)
    BY <1>1, <2>1, <2>2 DEF Pool!Take
  <2>3. CASE Pool!Open(w)
    <3>1. opened' = opened + 1 /\ opened < 1 /\ lent' = [lent EXCEPT ![w] = opened + 1] /\ UNCHANGED idle
      BY <2>3, OneWorker DEF Pool!Open
    <3>2. opened \in Nat /\ opened + 1 \in Nat \ {0} /\ opened + 1 <= 1
      BY <1>1, <3>1
    <3>3. QED
      BY <1>1, <2>1, <3>1, <3>2, OneWorker
  <2>4. QED
    BY <1>3, <2>2, <2>3 DEF GetConn
<1>4. ASSUME NEW w \in Workers, Release(w) \/ Catch(w)
      PROVE  PoolTypes' /\ ConnectionsReturned'
  <2>1. wpc'[w] \notin Lending /\ \A v \in Workers \ {w} : wpc'[v] = wpc[v]
    BY <1>1, <1>4 DEF Release, Catch, At
  <2>2. Pool!GiveBack(w)
    BY <1>4 DEF Release, Catch
  <2>3. /\ lent[w] \in Nat \ {0} /\ idle' = idle \cup {lent[w]} /\ UNCHANGED opened
        /\ lent' = [lent EXCEPT ![w] = 0]
    BY <1>1, <2>2 DEF Pool!GiveBack
  <2>4. lent'[w] = 0 /\ \A v \in Workers \ {w} : lent'[v] = lent[v]
    BY <1>1, <2>3
  <2>5. PoolTypes'
    BY <1>1, <2>3
  <2>6. ConnectionsReturned'
    BY <2>1, <2>3, <2>4
  <2>7. QED
    BY <2>5, <2>6
<1>5. ASSUME NEW w \in Workers, GetConnThrows(w) \/ Statement(w) \/ StatementThrows(w) \/ StepFails(w)
      PROVE  PoolTypes' /\ ConnectionsReturned'
  <2>1. UNCHANGED <<idle, lent, opened>>
    BY <1>5 DEF GetConnThrows, Statement, StatementThrows, StepFails, poolVars
  <2>2. /\ wpc[w] \in Lending <=> wpc'[w] \in Lending
        /\ \A v \in Workers \ {w} : wpc'[v] = wpc[v]
    BY <1>1, <1>5 DEF GetConnThrows, Statement, StatementThrows, StepFails, At
  <2>3. QED
    BY <1>2, <2>1, <2>2
<1>6. ASSUME NEW w \in Workers, TakeEvent(w) \/ SetValue(w) \/ SetException(w)
      PROVE  PoolTypes' /\ ConnectionsReturned'
  <2>1. /\ wpc[w] \notin Lending /\ wpc'[w] \notin Lending
        /\ \A v \in Workers \ {w} : wpc'[v] = wpc[v]
        /\ UNCHANGED <<idle, lent, opened>>
    BY <1>6, TakeStep, ResolveStep
  <2>2. QED
    BY <1>2, <2>1
<1>7. ASSUME NEW c \in Clients, NEW kind \in Kinds,
             Inserted(c, kind) \/ PrepareThrows(c, kind) \/ InsertRefused(c, kind)
      PROVE  PoolTypes' /\ ConnectionsReturned'
  BY <1>2, <1>7, CallCases, CalledStep
<1>8. CASE UNCHANGED vars
  BY <1>2, <1>8 DEF vars, workerVars, poolVars
<1>9. QED
  BY <1>2, <1>3, <1>4, <1>5, <1>6, <1>7, <1>8, EndFrame, NextCases

LEMMA TypeStep == TypeOK /\ CurInv /\ Queue!TasksInv /\ PartInv /\ ConnectionsReturned /\ [Next]_vars => TypeOK'
<1> SUFFICES ASSUME TypeOK, CurInv, Queue!TasksInv, PartInv, ConnectionsReturned, [Next]_vars PROVE TypeOK'
  OBVIOUS
<1>1. QueueTypes'
  BY QueueStep DEF Queue!TasksInv, Queue!TaskTypes, QueueTypes, Queue!Tasks, Queue!NoTask, Events!NoTask
<1>2. WorkerTypes' /\ PoolTypes'
  BY PartStep, PoolStep
<1>3. ASSUME UNCHANGED <<calls, answer, done>>, life' \in {"open", "closing", "gone"}
      PROVE  TypeOK'
  BY <1>1, <1>2, <1>3 DEF TypeOK, CallTypes
<1>4. life \in {"open", "closing", "gone"} /\ done \in Seq(Clients \X Nat \X Nat) /\ CallTypes
  BY DEF TypeOK
<1>5. ASSUME NEW c \in Clients, NEW kind \in Kinds,
             Inserted(c, kind) \/ PrepareThrows(c, kind) \/ InsertRefused(c, kind)
      PROVE  TypeOK'
  <2>1. CallTypes' /\ UNCHANGED <<life, done>>
    BY <1>5, CallCases, CalledStep
  <2>2. QED
    BY <1>1, <1>2, <1>4, <2>1 DEF TypeOK
<1>6. ASSUME NEW w \in Workers, Statement(w)
      PROVE  TypeOK'
  <2>1. UNCHANGED <<calls, answer, life>> /\ done' = Append(done, <<cur[w][1], cur[w][2], part[w] + 1>>)
    BY <1>6 DEF Statement, clientVars
  <2>2. cur[w][1] \in Clients /\ cur[w][2] \in Nat /\ part[w] + 1 \in Nat
    BY <1>6, Busy DEF Statement, At, TypeOK, WorkerTypes
  <2>3. done' \in Seq(Clients \X Nat \X Nat)
    BY <1>4, <2>1, <2>2, AppendProperties
  <2>4. QED
    BY <1>1, <1>2, <1>4, <2>1, <2>3 DEF TypeOK, CallTypes
<1>7. ASSUME NEW w \in Workers, GetConn(w) \/ GetConnThrows(w) \/ StatementThrows(w) \/ StepFails(w) \/ Release(w) \/ Catch(w)
      PROVE  UNCHANGED <<calls, answer, done, life>>
  BY <1>7 DEF GetConn, GetConnThrows, StatementThrows, StepFails, Release, Catch, clientVars
<1>8. ASSUME NEW w \in Workers, TakeEvent(w)
      PROVE  UNCHANGED <<calls, answer, done, life>>
  BY <1>8, TakeStep
<1>9. ASSUME NEW w \in Workers, SetValue(w) \/ SetException(w)
      PROVE  TypeOK'
  <2>1. PICK at \in {"value", "exception"} :
           answer' = [answer EXCEPT ![cur[w][1]][cur[w][2]] = at] /\ UNCHANGED <<calls, life, done>>
    BY <1>9, ResolveStep
  <2>2. PICK c, n : c = cur[w][1] /\ n = cur[w][2]
    OBVIOUS
  <2>3. c \in Clients /\ n \in 1..Len(calls[c])
    BY <1>9, <2>2, Busy DEF SetValue, SetException, At
  <2>4. answer[c] \in Seq(Answers) /\ at \in Answers /\ n \in 1..Len(answer[c]) /\ Len(answer[c]) = Len(calls[c])
    BY <1>4, <2>3 DEF CallTypes, Answers
  <2>5. /\ [answer[c] EXCEPT ![n] = at] \in Seq(Answers)
        /\ Len([answer[c] EXCEPT ![n] = at]) = Len(answer[c])
    BY <2>4, ExceptSeq
  <2>6. answer' = [answer EXCEPT ![c] = [answer[c] EXCEPT ![n] = at]]
    BY <1>4, <2>1, <2>2, <2>3 DEF CallTypes
  <2>7. CallTypes'
    <3>1. answer' \in [Clients -> Seq(Answers)]
      BY <1>4, <2>3, <2>5, <2>6 DEF CallTypes
    <3>2. \A d \in Clients : Len(answer'[d]) = Len(answer[d])
      BY <1>4, <2>3, <2>5, <2>6 DEF CallTypes
    <3>3. QED
      BY <1>4, <2>1, <3>1, <3>2 DEF CallTypes
  <2>8. QED
    BY <1>1, <1>2, <1>4, <2>1, <2>7 DEF TypeOK
<1>10. CASE FreePool \/ StopOperators
  BY <1>3, <1>10, EndFrame DEF FreePool, StopOperators
<1>11. CASE UNCHANGED vars
  BY <1>3, <1>4, <1>11 DEF vars, clientVars
<1>12. QED
  BY <1>3, <1>4, <1>5, <1>6, <1>7, <1>8, <1>9, <1>10, <1>11, NextCases

\* A worker has a call from TakeEvent to SetValue or SetException.
LEMMA CurStep == TypeOK /\ CurInv /\ Queue!TasksInv /\ [Next]_vars => CurInv'
<1> SUFFICES ASSUME TypeOK, CurInv, Queue!TasksInv, [Next]_vars PROVE CurInv'
  OBVIOUS
<1>1. ASSUME UNCHANGED <<cur, wpc>> PROVE CurInv'
  BY <1>1 DEF CurInv
<1>2. ASSUME NEW w \in Workers, TakeEvent(w)
      PROVE  CurInv'
  <2>1. cur'[w] # Queue!NoTask /\ wpc'[w] # "idle"
    BY <1>2, TakenStep, TakeStep, Queue!TaskIsSome
  <2>2. QED
    BY <2>1, OneWorker DEF CurInv
<1>3. ASSUME NEW w \in Workers, SetValue(w) \/ SetException(w)
      PROVE  CurInv'
  <2>1. wpc'[w] = "idle" /\ cur' = [cur EXCEPT ![w] = Queue!NoTask]
    BY <1>3, ResolveStep DEF Queue!Finish
  <2>2. cur'[w] = Queue!NoTask
    BY <2>1 DEF TypeOK, QueueTypes
  <2>3. QED
    BY <2>1, <2>2, OneWorker DEF CurInv
<1>4. ASSUME NEW w \in Workers, Inside(w)
      PROVE  CurInv'
  BY <1>4, InsideStep, OneWorker DEF CurInv
<1>5. ASSUME NEW c \in Clients, NEW kind \in Kinds,
             Inserted(c, kind) \/ PrepareThrows(c, kind) \/ InsertRefused(c, kind)
      PROVE  UNCHANGED <<cur, wpc>>
  BY <1>5, CallCases, CalledStep DEF Queue!Accept, Queue!Refuse
<1>6. CASE UNCHANGED vars
  BY <1>1, <1>6 DEF vars, workerVars
<1>7. QED
  BY <1>1, <1>2, <1>3, <1>4, <1>5, <1>6, EndFrame, NextCases DEF Inside

\* Who waits or is handled was not answered: an answer goes to the call that is
\* handled, which waits no more, and a new call is another.
LEMMA AnswerStep == TypeOK /\ CurInv /\ Queue!TasksInv /\ AnswerInv /\ [Next]_vars => AnswerInv'
<1> SUFFICES ASSUME TypeOK, CurInv, Queue!TasksInv, AnswerInv, [Next]_vars PROVE AnswerInv'
  OBVIOUS
<1> DEFINE Pending(w, task) == Queue!Waits(w, task) \/ cur[w] = task
           Open(task) == answer[task[1]][task[2]] = "none"
           OwnerWaited == life # "open" => AllAnswered
<1>1. (\A w \in Workers, task \in Queue!Tasks : Pending(w, task) => Open(task)) /\ OwnerWaited
  BY DEF AnswerInv
<1>2. ASSUME \A w \in Workers, task \in Queue!Tasks : Pending(w, task)' => Open(task)', OwnerWaited'
      PROVE  AnswerInv'
  BY <1>2 DEF AnswerInv
<1>3. \A w \in Workers, task \in Queue!Tasks :
         UNCHANGED <<calls, queue, cur>> => (Pending(w, task)' <=> Pending(w, task))
  BY DEF Queue!Waits
<1>4. \A w \in Workers, task \in Queue!Tasks :
         Pending(w, task) => task[1] \in Clients /\ task[2] \in 1..Len(calls[task[1]])
  BY Queue!WaitsIsGiven DEF Queue!TasksInv, Queue!Once, Queue!Tasks
<1>5. UNCHANGED <<calls, answer, life>> => OwnerWaited'
  BY <1>1 DEF AllAnswered
<1> HIDE DEF OwnerWaited, Pending
<1>6. ASSUME UNCHANGED <<calls, answer, queue, cur, life>>
      PROVE  AnswerInv'
  BY <1>1, <1>2, <1>3, <1>5, <1>6
<1>7. ASSUME NEW c \in Clients, NEW kind \in Kinds,
             Inserted(c, kind) \/ PrepareThrows(c, kind) \/ InsertRefused(c, kind)
      PROVE  AnswerInv'
  <2>1. PICK at \in Answers : /\ Called(c, kind, at)
                              /\ (at = "none" /\ \E w \in Workers : Queue!Accept(c, w)) \/ Queue!Refuse(c)
    BY <1>7, CallCases
  <2>2. PICK new, m : new = <<c, m + 1>> /\ m = Len(calls[c])
    OBVIOUS
  <2>3. /\ life' = "open" /\ m \in Nat
        /\ \A n \in 1..m : answer'[c][n] = answer[c][n]
        /\ answer'[c][m + 1] = at
        /\ \A d \in Clients \ {c} : answer'[d] = answer[d]
    BY <2>1, <2>2, CalledStep
  <2>4. \A w \in Workers, task \in Queue!Tasks :
           Pending(w, task)' => Pending(w, task) \/ (at = "none" /\ task = new)
    <3>1. CASE at = "none" /\ \E w \in Workers : Queue!Accept(c, w)
      <4>1. PICK w \in Workers : Queue!Accept(c, w)
        BY <3>1
      <4>2. \A v \in Workers, task \in Queue!Tasks :
               Queue!Waits(v, task)' <=> Queue!Waits(v, task) \/ (v = w /\ task = new)
        BY <2>2, <4>1, Queue!AcceptWaits
      <4>3. UNCHANGED cur
        BY <4>1 DEF Queue!Accept
      <4>4. QED
        BY <3>1, <4>2, <4>3 DEF Pending
    <3>2. CASE Queue!Refuse(c)
      BY <3>2 DEF Pending, Queue!Waits, Queue!Refuse
    <3>3. QED
      BY <2>1, <3>1, <3>2
  <2>5. ASSUME NEW w \in Workers, NEW task \in Queue!Tasks, Pending(w, task)' PROVE Open(task)'
    <3>1. CASE Pending(w, task)
      BY <1>1, <1>4, <2>2, <2>3, <3>1
    <3>2. CASE at = "none" /\ task = new
      BY <2>2, <2>3, <3>2
    <3>3. QED
      BY <2>4, <2>5, <3>1, <3>2
  <2>6. QED
    BY <1>2, <2>3, <2>5 DEF OwnerWaited
<1>8. ASSUME NEW w \in Workers, TakeEvent(w)
      PROVE  AnswerInv'
  <2>1. UNCHANGED <<calls, answer, life>>
    BY <1>8, TakeStep
  <2>2. PICK t \in Queue!Tasks :
            /\ Queue!Waits(w, t)
            /\ cur'[w] = t /\ \A v \in Workers \ {w} : cur'[v] = cur[v]
            /\ \A v \in Workers, task \in Queue!Tasks : Queue!Waits(v, task)' => Queue!Waits(v, task)
    BY <1>8, TakenStep
  <2>3. ASSUME NEW v \in Workers, NEW task \in Queue!Tasks, Pending(v, task)'
        PROVE  \E u \in Workers : Pending(u, task)
    BY <2>2, <2>3 DEF Pending
  <2>4. QED
    BY <1>1, <1>2, <1>5, <2>1, <2>3
<1>9. ASSUME NEW w \in Workers, SetValue(w) \/ SetException(w)
      PROVE  AnswerInv'
  <2>1. PICK at \in Answers :
            /\ answer' = [answer EXCEPT ![cur[w][1]][cur[w][2]] = at]
            /\ wpc[w] # "idle" /\ Queue!Finish(w) /\ UNCHANGED <<calls, life>>
    BY <1>9, ResolveStep DEF Answers
  <2>2. /\ cur[w] \in Queue!Tasks /\ cur[w][1] \in Clients
        /\ cur[w][2] \in 1..Len(calls[cur[w][1]])
    BY <2>1, Busy
  <2>3. Open(cur[w])
    BY <1>1, <2>2 DEF Pending
  <2>4. life = "open"
    BY <1>1, <2>2, <2>3 DEF OwnerWaited, AllAnswered
  <2>5. UNCHANGED queue /\ cur'[w] = Queue!NoTask /\ \A v \in Workers \ {w} : cur'[v] = cur[v]
    BY <2>1 DEF Queue!Finish, TypeOK, QueueTypes
  <2>6. ASSUME NEW v \in Workers, NEW task \in Queue!Tasks, Pending(v, task)' PROVE Open(task)'
    <3>1. Pending(v, task) /\ task # cur[w]
      <4>1. CASE Queue!Waits(v, task)'
        <5>1. Queue!Waits(v, task)
          BY <2>5, <4>1 DEF Queue!Waits
        <5>2. QED
          BY <5>1 DEF Pending, Queue!TasksInv, Queue!Once
      <4>2. CASE cur'[v] = task
        <5>1. v # w /\ cur[v] = task
          BY <2>5, <4>2, Queue!TaskIsSome
        <5>2. QED
          BY <5>1, OneWorker
      <4>3. QED
        BY <2>6, <4>1, <4>2 DEF Pending
    <3>2. Open(task) /\ task[1] \in Clients /\ task = <<task[1], task[2]>> /\ cur[w] = <<cur[w][1], cur[w][2]>>
      BY <1>1, <2>2, <3>1 DEF Queue!Tasks
    <3>3. task[1] # cur[w][1] \/ task[2] # cur[w][2]
      BY <3>1, <3>2
    <3>4. answer \in [Clients -> Seq(Answers)]
      BY DEF TypeOK, CallTypes
    <3>5. task[1] = cur[w][1] => answer'[task[1]][task[2]] = answer[task[1]][task[2]]
      BY <2>1, <2>2, <3>3, <3>4
    <3>6. task[1] # cur[w][1] => answer'[task[1]] = answer[task[1]]
      BY <2>1, <2>2, <3>2, <3>4
    <3>7. QED
      BY <3>2, <3>5, <3>6
  <2>7. QED
    BY <1>2, <2>1, <2>4, <2>6 DEF OwnerWaited
<1>10. ASSUME NEW w \in Workers, Inside(w)
       PROVE  AnswerInv'
  BY <1>6, <1>10, InsideStep
<1>11. CASE FreePool \/ StopOperators
  <2>1. UNCHANGED <<calls, queue, answer, cur>> /\ AllAnswered
    BY <1>1, <1>11, EndFrame DEF FreePool, StopOperators, OwnerWaited
  <2>2. OwnerWaited'
    BY <2>1 DEF OwnerWaited, AllAnswered
  <2>3. QED
    BY <1>1, <1>2, <1>3, <2>1, <2>2
<1>12. CASE UNCHANGED vars
  BY <1>6, <1>12 DEF vars, clientVars, workerVars
<1>13. QED
  BY <1>7, <1>8, <1>9, <1>10, <1>11, <1>12, NextCases DEF Inside

\* A statement that is executed is the next of the call that is handled.
LEMMA StatementStep ==
  ASSUME TypeOK, CurInv, Queue!TasksInv, NEW w \in Workers, Statement(w)
  PROVE  /\ part'[w] = part[w] + 1 /\ part[w] \in Nat
         /\ done' = Append(done, <<cur[w][1], cur[w][2], part[w] + 1>>)
         /\ \A task \in Queue!Tasks, i \in Nat :
               Executed(task, i)' <=> Executed(task, i) \/ (task = cur[w] /\ i = part[w] + 1)
<1>1. /\ part' = [part EXCEPT ![w] = part[w] + 1]
      /\ done' = Append(done, <<cur[w][1], cur[w][2], part[w] + 1>>)
      /\ wpc[w] # "idle" /\ part \in [Workers -> Nat]
      /\ done \in Seq(Clients \X Nat \X Nat)
  BY DEF Statement, At, TypeOK, WorkerTypes
<1>2. cur[w] \in Queue!Tasks
  BY <1>1, Busy
<1>3. PICK c \in Clients, n \in Nat : cur[w] = <<c, n>>
  BY <1>2 DEF Queue!Tasks
<1>4. PICK e : e = <<c, n, part[w] + 1>>
  OBVIOUS
<1>5. e \in Clients \X Nat \X Nat
  BY <1>1, <1>4
<1>6. /\ Len(done) \in Nat /\ Len(done') = Len(done) + 1 /\ done'[Len(done) + 1] = e
      /\ \A k \in 1..Len(done) : done'[k] = done[k]
  BY <1>1, <1>3, <1>4, <1>5, AppendProperties, LenProperties
<1>7. ASSUME NEW x PROVE (\E k \in 1..Len(done') : done'[k] = x) <=> (\E k \in 1..Len(done) : done[k] = x) \/ x = e
  <2>1. Len(done) + 1 \in 1..Len(done') /\ \A k \in 1..Len(done') : k \in 1..Len(done) \/ k = Len(done) + 1
    BY <1>6
  <2>2. \A k \in 1..Len(done) : k \in 1..Len(done')
    BY <1>6
  <2>3. QED
    BY <1>6, <2>1, <2>2
<1>8. ASSUME NEW task \in Queue!Tasks, NEW i \in Nat
      PROVE  Executed(task, i)' <=> Executed(task, i) \/ (task = cur[w] /\ i = part[w] + 1)
  <2>1. PICK d \in Clients, m \in Nat : task = <<d, m>>
    BY DEF Queue!Tasks
  <2>2. <<d, m, i>> = e <=> task = cur[w] /\ i = part[w] + 1
    BY <1>3, <1>4, <2>1
  <2>3. QED
    BY <1>7, <2>1, <2>2 DEF Executed
<1>9. QED
  BY <1>1, <1>8

\* The statements executed are those of the calls that are over, and of the one
\* that is handled those it is past.
LEMMA DoneStep ==
  TypeOK /\ CurInv /\ Queue!TasksInv /\ PartInv /\ DoneInv /\ [Next]_vars => DoneInv'
<1> SUFFICES ASSUME TypeOK, CurInv, Queue!TasksInv, PartInv, DoneInv, [Next]_vars PROVE DoneInv'
  OBVIOUS
<1> DEFINE Old(task) == task[2] <= Len(calls[task[1]]) /\ \A w \in Workers : ~Queue!Waits(w, task)
           Past(w) == wpc[w] # "idle" => \A i \in Nat : Executed(cur[w], i) <=> i \in 1..part[w]
<1>1. /\ \A task \in Queue!Tasks, i \in Nat : Executed(task, i) => Old(task)
      /\ \A w \in Workers : Past(w)
  BY DEF DoneInv
<1>2. ASSUME \A task \in Queue!Tasks, i \in Nat : Executed(task, i)' => Old(task)', \A w \in Workers : Past(w)'
      PROVE  DoneInv'
  BY <1>2 DEF DoneInv
<1>3. UNCHANGED done => \A task : \A i : Executed(task, i)' <=> Executed(task, i)
  BY DEF Executed
<1>4. UNCHANGED <<calls, queue>> => \A task : Old(task)' <=> Old(task)
  BY DEF Queue!Waits
<1>5. ASSUME UNCHANGED <<done, part, cur>>, NEW w \in Workers, wpc'[w] # "idle" => wpc[w] # "idle"
      PROVE  Past(w)'
  <2>1. \A i \in Nat : Executed(cur[w], i)' <=> Executed(cur[w], i)
    BY <1>5 DEF Executed
  <2>2. QED
    BY <1>1, <1>5, <2>1
<1>6. ASSUME UNCHANGED <<calls, queue, done, part, cur>>, \A w \in Workers : wpc'[w] # "idle" => wpc[w] # "idle"
      PROVE  DoneInv'
  BY <1>1, <1>2, <1>3, <1>4, <1>5, <1>6
<1>7. ASSUME NEW c \in Clients, NEW kind \in Kinds,
             Inserted(c, kind) \/ PrepareThrows(c, kind) \/ InsertRefused(c, kind)
      PROVE  DoneInv'
  <2>1. PICK at \in Answers : /\ Called(c, kind, at)
                              /\ (at = "none" /\ \E w \in Workers : Queue!Accept(c, w)) \/ Queue!Refuse(c)
    BY <1>7, CallCases
  <2>2. PICK new, m : new = <<c, m + 1>> /\ m = Len(calls[c])
    OBVIOUS
  <2>3. /\ UNCHANGED <<wpc, part, done>> /\ m \in Nat /\ Len(calls'[c]) = m + 1
        /\ \A d \in Clients \ {c} : calls'[d] = calls[d]
    BY <2>1, <2>2, CalledStep
  <2>4. UNCHANGED cur
    BY <2>1 DEF Queue!Accept, Queue!Refuse
  <2>5. \A w \in Workers, task \in Queue!Tasks : Queue!Waits(w, task)' => Queue!Waits(w, task) \/ task = new
    <3>1. CASE \E w \in Workers : Queue!Accept(c, w)
      BY <2>2, <3>1, Queue!AcceptWaits
    <3>2. CASE Queue!Refuse(c)
      BY <3>2 DEF Queue!Waits, Queue!Refuse
    <3>3. QED
      BY <2>1, <3>1, <3>2
  <2>6. ASSUME NEW task \in Queue!Tasks, NEW i \in Nat, Executed(task, i)' PROVE Old(task)'
    <3>1. Old(task)
      BY <1>1, <1>3, <2>3, <2>6
    <3>2. task # new
      BY <2>2, <2>3, <3>1
    <3>3. task[1] \in Clients /\ task[2] \in Nat
      BY DEF Queue!Tasks
    <3>4. task[2] <= Len(calls'[task[1]])
      <4>1. CASE task[1] = c
        BY <2>2, <2>3, <3>1, <3>3, <4>1
      <4>2. CASE task[1] # c
        BY <2>3, <3>1, <3>3, <4>2
      <4>3. QED
        BY <4>1, <4>2
    <3>5. QED
      BY <2>5, <3>1, <3>2, <3>4
  <2>7. QED
    BY <1>2, <1>5, <2>3, <2>4, <2>6
<1>8. ASSUME NEW w \in Workers, TakeEvent(w)
      PROVE  DoneInv'
  <2>1. wpc[w] = "idle" /\ UNCHANGED <<calls, part, done>>
    BY <1>8, TakeStep
  <2>2. PICK t \in Queue!Tasks :
            /\ Queue!Waits(w, t) /\ cur'[w] = t
            /\ \A v \in Workers, task \in Queue!Tasks : Queue!Waits(v, task)' => Queue!Waits(v, task)
    BY <1>8, TakenStep
  <2>3. \A task \in Queue!Tasks : Old(task) => Old(task)'
    BY <2>1, <2>2
  <2>4. part[w] = 0
    BY <2>1 DEF PartInv
  <2>5. \A i \in Nat : ~Executed(t, i)
    BY <1>1, <2>2
  <2>6. \A i \in Nat : ~Executed(t, i)'
    BY <2>1, <2>5 DEF Executed
  <2>7. Past(w)'
    BY <2>1, <2>2, <2>4, <2>6 DEF Executed
  <2>8. QED
    BY <1>1, <1>2, <1>3, <2>1, <2>3, <2>7, OneWorker
<1>9. ASSUME NEW w \in Workers, SetValue(w) \/ SetException(w)
      PROVE  DoneInv'
  <2>1. UNCHANGED <<calls, queue, done>> /\ wpc'[w] = "idle"
    BY <1>9, ResolveStep DEF Queue!Finish
  <2>2. QED
    BY <1>1, <1>2, <1>3, <1>4, <2>1, OneWorker
<1>10. ASSUME NEW w \in Workers, Statement(w)
       PROVE  DoneInv'
  <2>1. UNCHANGED <<calls, queue, cur>> /\ wpc[w] # "idle"
    BY <1>10, InsideStep DEF Inside
  <2>2. /\ part'[w] = part[w] + 1 /\ part[w] \in Nat
        /\ \A task \in Queue!Tasks, i \in Nat :
               Executed(task, i)' <=> Executed(task, i) \/ (task = cur[w] /\ i = part[w] + 1)
    BY <1>10, StatementStep
  <2>3. cur[w] \in Queue!Tasks /\ cur[w][2] <= Len(calls[cur[w][1]])
    BY <2>1, Busy
  <2>4. Old(cur[w])
    BY <2>3 DEF Queue!TasksInv, Queue!Once
  <2>5. \A task \in Queue!Tasks, i \in Nat : Executed(task, i)' => Old(task)'
    BY <1>1, <1>4, <2>1, <2>2, <2>4
  <2>6. \A i \in Nat : Executed(cur[w], i) <=> i \in 1..part[w]
    BY <1>1, <2>1
  <2>7. \A i \in Nat : i \in 1..part'[w] <=> i \in 1..part[w] \/ i = part[w] + 1
    BY <2>2
  <2>8. \A t : t = cur[w] => \A i \in Nat : Executed(t, i)' <=> i \in 1..part'[w]
    BY <2>2, <2>3, <2>6, <2>7
  <2>9. Past(w)'
    BY <2>1, <2>8 DEF Executed
  <2>10. QED
    BY <1>2, <2>5, <2>9, OneWorker
<1>11. ASSUME NEW w \in Workers, GetConn(w) \/ GetConnThrows(w) \/ StatementThrows(w) \/ StepFails(w) \/ Release(w) \/ Catch(w)
       PROVE  DoneInv'
  <2>1. UNCHANGED <<calls, queue, done, part, cur>>
    BY <1>11 DEF GetConn, GetConnThrows, StatementThrows, StepFails, Release, Catch, clientVars
  <2>2. wpc[w] # "idle" /\ \A v \in Workers \ {w} : wpc'[v] = wpc[v]
    BY <1>11, InsideStep DEF Inside
  <2>3. QED
    BY <1>6, <2>1, <2>2
<1>12. CASE FreePool \/ StopOperators
  BY <1>6, <1>12, EndFrame
<1>13. CASE UNCHANGED vars
  BY <1>6, <1>13 DEF vars, clientVars, workerVars
<1>14. QED
  BY <1>7, <1>8, <1>9, <1>10, <1>11, <1>12, <1>13, NextCases

LEMMA InvStep == Inv /\ [Next]_vars => Inv'
BY TypeStep, QueueStep, CurStep, PoolStep, AnswerStep, PartStep, DoneStep DEF Inv

LEMMA Invariance == Spec => []Inv
BY InitInv, InvStep, PTL DEF Spec

-----------------------------------------------------------------------------
(* The storage its clients see *)

\* The numbers of a client's calls that wait: what Storage is given for waiting.
Numbers == [c \in Clients |-> [i \in 1..Len(queue[1][c]) |-> queue[1][c][i][2]]]

LEMMA NumbersAre ==
  \A c \in Clients : Numbers[c] = Queue!Numbers(1, c) /\ (Numbers')[c] = Queue!Numbers(1, c)'
BY DEF Numbers, Queue!Numbers

\* A new event is behind those of its client; the one that is taken was their first.
LEMMA NumbersStep ==
  ASSUME Queue!TasksInv, NEW w \in Workers, NEW c \in Clients
  PROVE  /\ Queue!Accept(c, w) => Numbers' = [Numbers EXCEPT ![c] = Append(@, Len(calls[c]) + 1)]
         /\ Queue!Start(w, c) => /\ Numbers[c] # <<>>
                                 /\ Head(queue[w][c]) = <<c, Head(Numbers[c])>>
                                 /\ Numbers' = [Numbers EXCEPT ![c] = Tail(@)]
<1>1. w = 1 /\ 1 \in Workers
  BY OneWorker
<1>2. ASSUME NEW s, (Numbers')[c] = s, \A d \in Clients : d # c => (Numbers')[d] = Numbers[d]
      PROVE  Numbers' = [Numbers EXCEPT ![c] = s]
  BY <1>2 DEF Numbers
<1>3. ASSUME Queue!Accept(c, w)
      PROVE  Numbers' = [Numbers EXCEPT ![c] = Append(Numbers[c], Len(calls[c]) + 1)]
  <2>1. PICK n : n = Len(calls[c]) + 1
    OBVIOUS
  <2>2. /\ Queue!Numbers(1, c)' = Append(Queue!Numbers(1, c), n)
        /\ \A d \in Clients : d # c => Queue!Numbers(1, d)' = Queue!Numbers(1, d)
    BY <1>1, <1>3, <2>1, Queue!AcceptNumbers
  <2>3. /\ (Numbers')[c] = Append(Numbers[c], n)
        /\ \A d \in Clients : d # c => (Numbers')[d] = Numbers[d]
    BY <2>2, NumbersAre
  <2>4. QED
    BY <1>2, <2>1, <2>3
<1>4. ASSUME Queue!Start(w, c)
      PROVE  /\ Numbers[c] # <<>> /\ Head(queue[w][c]) = <<c, Head(Numbers[c])>>
             /\ Numbers' = [Numbers EXCEPT ![c] = Tail(Numbers[c])]
  <2>1. /\ Queue!Numbers(1, c) # <<>> /\ Head(queue[w][c]) = <<c, Head(Queue!Numbers(1, c))>>
        /\ Queue!Numbers(1, c)' = Tail(Queue!Numbers(1, c))
        /\ \A d \in Clients : d # c => Queue!Numbers(1, d)' = Queue!Numbers(1, d)
    BY <1>1, <1>4, Queue!StartNumbers
  <2>2. /\ Numbers[c] # <<>> /\ Head(queue[w][c]) = <<c, Head(Numbers[c])>>
        /\ (Numbers')[c] = Tail(Numbers[c])
        /\ \A d \in Clients : d # c => (Numbers')[d] = Numbers[d]
    BY <2>1, NumbersAre
  <2>3. QED
    BY <1>2, <2>2
<1>5. QED
  BY <1>3, <1>4 DEF Numbers

\* The call in execution is the one the thread has.
LEMMA ActiveIs ==
  ASSUME NEW w \in Workers
  PROVE  /\ ActiveCalls = IF wpc[w] = "idle" THEN {} ELSE {cur[w]}
         /\ ActiveCalls' = IF wpc'[w] = "idle" THEN {} ELSE {cur'[w]}
BY OneWorker DEF ActiveCalls

\* Of the call that is handled the statements executed are the first ones.
LEMMA DoneOfIs ==
  ASSUME TypeOK, CurInv, Queue!TasksInv, DoneInv, NEW w \in Workers, wpc[w] # "idle"
  PROVE  Storage!DoneOf(cur[w][1], cur[w][2]) = 1..part[w]
<1>1. /\ part[w] \in Nat /\ part[w] <= Parts[KindOf(w)] /\ Parts[KindOf(w)] \in Nat
      /\ \A i \in Nat : Executed(cur[w], i) <=> i \in 1..part[w]
  BY Busy DEF TypeOK, WorkerTypes, DoneInv
<1>2. Storage!DoneOf(cur[w][1], cur[w][2]) = {i \in 1..Parts[KindOf(w)] : Executed(cur[w], i)}
  BY DEF Storage!DoneOf, Executed, KindOf
<1>3. {i \in 1..Parts[KindOf(w)] : Executed(cur[w], i)} = 1..part[w]
  BY <1>1
<1>4. QED
  BY <1>2, <1>3

LEMMA InitStorage == Init => Storage!StorageInit
<1> SUFFICES ASSUME Init PROVE Storage!StorageInit
  OBVIOUS
<1>1. Numbers = [c \in Clients |-> <<>>]
  <2>1. queue[1] = [c \in Clients |-> <<>>]
    BY OneWorker DEF Init, Events!TasksInit
  <2>2. \A c \in Clients : Numbers[c] = [i \in 1..0 |-> queue[1][c][i][2]]
    BY <2>1, EmptySeq DEF Numbers
  <2>3. \A c \in Clients : Numbers[c] = <<>>
    BY <2>2
  <2>4. QED
    BY <2>3 DEF Numbers
<1>2. ActiveCalls = {}
  BY DEF Init, ActiveCalls
<1>3. QED
  BY <1>1, <1>2 DEF Init, Storage!StorageInit, Numbers

\* Every step is one of the storage's, or none that a client sees.
LEMMA StorageStep == Inv /\ [Next]_vars => [Storage!StorageNext]_(Storage!storage)
<1> SUFFICES ASSUME Inv, [Next]_vars PROVE [Storage!StorageNext]_(Storage!storage)
  OBVIOUS
<1>0. TypeOK /\ CurInv /\ Queue!TasksInv /\ AnswerInv /\ PartInv /\ DoneInv
  BY DEF Inv
<1>1. ASSUME UNCHANGED <<calls, answer, queue, done>>, UNCHANGED ActiveCalls
      PROVE  UNCHANGED Storage!storage
  BY <1>1 DEF Storage!storage
<1>2. ASSUME NEW c \in Clients, NEW kind \in Kinds,
             Inserted(c, kind) \/ PrepareThrows(c, kind) \/ InsertRefused(c, kind)
      PROVE  Storage!Accept(c, kind) \/ Storage!Refuse(c, kind) \/ Storage!Lose(c, kind)
  <2>1. PICK at \in Answers : Called(c, kind, at)
    BY <1>2, CallCases
  <2>2. UNCHANGED <<wpc, done>> /\ UNCHANGED cur
    BY <1>2, <2>1 DEF Called, Inserted, PrepareThrows, InsertRefused, Events!Accept, Events!Refuse
  <2>3. UNCHANGED ActiveCalls
    BY <2>2 DEF ActiveCalls
  <2>4. CASE Inserted(c, kind)
    <3>1. PICK w \in Workers : Queue!Accept(c, w)
      BY <2>4 DEF Inserted, Events!Accept, Queue!Accept
    <3>2. Numbers' = [Numbers EXCEPT ![c] = Append(@, Len(calls[c]) + 1)]
      BY <1>0, <3>1, NumbersStep
    <3>3. Storage!Accept(c, kind)
      BY <2>2, <2>3, <2>4, <3>2 DEF Inserted, Called, Storage!Accept, Storage!Called, Numbers
    <3>4. QED
      BY <3>3
  <2>5. CASE PrepareThrows(c, kind)
    BY <2>2, <2>3, <2>5 DEF PrepareThrows, Called, Events!Refuse, Storage!Refuse, Storage!Called
  <2>6. CASE InsertRefused(c, kind)
    BY <2>2, <2>3, <2>6 DEF InsertRefused, Called, Events!Refuse, Storage!Lose, Storage!Called
  <2>7. QED
    BY <1>2, <2>4, <2>5, <2>6
<1>3. ASSUME NEW w \in Workers, TakeEvent(w)
      PROVE  \E c \in Clients : Storage!Start(c)
  <2>1. /\ UNCHANGED <<calls, answer, done>> /\ wpc[w] = "idle" /\ wpc'[w] = "get"
    BY <1>0, <1>3, TakeStep
  <2>2. PICK c \in Clients : Queue!Start(w, c) /\ cur'[w] = Head(queue[w][c])
    BY <1>0, <1>3, TakenStep
  <2>3. /\ Numbers[c] # <<>> /\ Head(queue[w][c]) = <<c, Head(Numbers[c])>>
        /\ Numbers' = [Numbers EXCEPT ![c] = Tail(@)]
    BY <1>0, <2>2, NumbersStep
  <2>4. ActiveCalls = {} /\ ActiveCalls' = {<<c, Head(Numbers[c])>>}
    BY <2>1, <2>2, <2>3, ActiveIs
  <2>5. Storage!Start(c)
    BY <2>1, <2>3, <2>4 DEF Storage!Start, Numbers
  <2>6. QED
    BY <2>5
<1>4. ASSUME NEW w \in Workers, Statement(w)
      PROVE  \E call \in ActiveCalls : Storage!Execute(call[1], call[2])
  <2>1. UNCHANGED <<calls, queue, answer, cur>> /\ wpc[w] # "idle" /\ wpc'[w] # "idle"
    BY <1>0, <1>4, InsideStep DEF Inside
  <2>2. ActiveCalls = {cur[w]} /\ UNCHANGED ActiveCalls
    BY <2>1, ActiveIs
  <2>3. /\ part[w] \in Nat /\ part[w] + 1 \in 1..Parts[KindOf(w)]
    <3>1. part[w] < Parts[KindOf(w)]
      BY <1>0, <1>4 DEF Statement, At, PartInv
    <3>2. QED
      BY <1>0, <2>1, <3>1, Busy DEF TypeOK, WorkerTypes
  <2>4. Storage!DoneOf(cur[w][1], cur[w][2]) = 1..(part[w] + 1) - 1
    <3>1. (part[w] + 1) - 1 = part[w]
      BY <2>3
    <3>2. QED
      BY <1>0, <2>1, <3>1, DoneOfIs
  <2>5. done' = Append(done, <<cur[w][1], cur[w][2], part[w] + 1>>)
    BY <1>4 DEF Statement
  <2>6. <<cur[w][1], cur[w][2]>> = cur[w]
    BY <1>0, <2>1, Busy DEF Queue!Tasks
  <2>7. Storage!Execute(cur[w][1], cur[w][2])
    BY <2>1, <2>2, <2>3, <2>4, <2>5, <2>6 DEF Storage!Execute, KindOf
  <2>8. QED
    BY <2>2, <2>7
<1>5. ASSUME NEW w \in Workers, SetValue(w) \/ SetException(w)
      PROVE  \E call \in ActiveCalls : \E at \in {"value", "exception"} : Storage!Answer(call[1], call[2], at)
  <2>1. PICK at \in {"value", "exception"} :
            /\ answer' = [answer EXCEPT ![cur[w][1]][cur[w][2]] = at]
            /\ UNCHANGED <<calls, done>>
            /\ wpc[w] = (IF at = "value" THEN "set" ELSE "except") /\ wpc'[w] = "idle"
            /\ Queue!Finish(w)
    BY <1>0, <1>5, ResolveStep
  <2>2. wpc[w] # "idle" /\ UNCHANGED queue
    BY <2>1 DEF Queue!Finish
  <2>3. ActiveCalls = {cur[w]} /\ ActiveCalls' = {}
    BY <2>1, <2>2, ActiveIs
  <2>4. cur[w] \in Queue!Tasks /\ <<cur[w][1], cur[w][2]>> = cur[w]
    BY <1>0, <2>2, Busy DEF Queue!Tasks
  <2>5. answer[cur[w][1]][cur[w][2]] = "none"
    BY <1>0, <2>4 DEF AnswerInv
  <2>6. at = "value" /\ KindOf(w) \notin Unchecked => Storage!DoneOf(cur[w][1], cur[w][2]) = 1..Parts[KindOf(w)]
    <3>1. at = "value" /\ KindOf(w) \notin Unchecked => part[w] = Parts[KindOf(w)]
      BY <1>0, <2>1 DEF PartInv
    <3>2. QED
      BY <1>0, <2>2, <3>1, DoneOfIs
  <2>7. Storage!Answer(cur[w][1], cur[w][2], at)
    BY <2>1, <2>2, <2>3, <2>4, <2>5, <2>6 DEF Storage!Answer, KindOf
  <2>8. QED
    BY <2>3, <2>7
<1>6. ASSUME NEW w \in Workers,
             GetConn(w) \/ GetConnThrows(w) \/ StatementThrows(w) \/ StepFails(w) \/ Release(w) \/ Catch(w)
      PROVE  UNCHANGED Storage!storage
  <2>1. UNCHANGED <<calls, queue, answer, cur>> /\ wpc[w] # "idle" /\ wpc'[w] # "idle"
    BY <1>0, <1>6, InsideStep DEF Inside
  <2>2. UNCHANGED ActiveCalls
    BY <2>1, ActiveIs
  <2>3. UNCHANGED done
    BY <1>6 DEF GetConn, GetConnThrows, StatementThrows, StepFails, Release, Catch
  <2>4. QED
    BY <1>1, <2>1, <2>2, <2>3
<1>7. CASE FreePool \/ StopOperators \/ UNCHANGED vars
  <2>1. UNCHANGED <<calls, queue, answer, wpc, cur, done>>
    BY <1>7, EndFrame DEF vars, clientVars, workerVars
  <2>2. UNCHANGED ActiveCalls
    BY <2>1 DEF ActiveCalls
  <2>3. QED
    BY <1>1, <2>1, <2>2
<1>8. QED
  BY <1>2, <1>3, <1>4, <1>5, <1>6, <1>7, NextCases DEF Storage!StorageNext

-----------------------------------------------------------------------------
(* The properties *)

(* The calls, the queue, the thread and the pool keep their types, and no   *)
(* event executes more statements than it has, for all clients and kinds of *)
(* calls.                                                                   *)
THEOREM TypeCorrect == Spec => []TypeOK
BY Invariance, PTL DEF Inv

(* Whatever fails in handle(), its connection is back before the client is  *)
(* answered (sqlite_event.h:58-66), and one connection serves the thread.   *)
THEOREM ConnectionsCorrect == Spec => []ConnectionsReturned
BY Invariance, PTL DEF Inv

(* An owner that waited for its futures destroys a pool nobody uses: the    *)
(* call a worker handles has no answer (sqlite.h:121-122).                  *)
THEOREM PoolOutlivesCorrect == Spec => []PoolOutlivesUse
<1>1. Inv => PoolOutlivesUse
  <2> SUFFICES ASSUME Inv, life # "open", NEW w \in Workers, wpc[w] # "idle" PROVE FALSE
    BY DEF PoolOutlivesUse
  <2>1. /\ cur[w] \in Queue!Tasks /\ cur[w][1] \in Clients
        /\ cur[w][2] \in 1..Len(calls[cur[w][1]])
    BY Busy DEF Inv
  <2>2. answer[cur[w][1]][cur[w][2]] = "none"
    BY <2>1 DEF Inv, AnswerInv
  <2>3. QED
    BY <2>1, <2>2 DEF Inv, AnswerInv, AllAnswered
<1>2. QED
  BY <1>1, Invariance, PTL

(* The queue, the thread and the pool are the storage its clients see: one  *)
(* call at a time, those of one client in its order, one answer each, and a *)
(* value only for what was executed (sqlite_event.h:44-70, 93-109).         *)
THEOREM Implementation == Spec => ImplementsStorage
<1>1. Inv /\ [Next]_vars => [Storage!StorageNext]_(Storage!storage)
  BY StorageStep
<1>2. QED
  BY <1>1, InitStorage, Invariance, PTL DEF Spec, ImplementsStorage, Storage!StorageSpec

==============================================================================

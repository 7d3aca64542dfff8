---------------------------- MODULE MongoDB_proofs ----------------------------
(***************************************************************************)
(* Proofs about MongoDB: of its queue and thread they use only what        *)
(* follows from TaskService, which ThreadPool implements.                  *)
(***************************************************************************)
EXTENDS MongoDB, FiniteSetTheorems, SequenceTheorems, WellFoundedInduction, TLAPS

\* Events, with the lemmas about it.
Queue == INSTANCE TaskService_proofs WITH Producers <- Clients, waiting <- queue, hand <- cur,
                                          given <- [c \in Clients |-> Len(calls[c])]

-----------------------------------------------------------------------------
(* The inductive invariant *)

\* A worker has a call exactly while it is in handle().
CurInv == \A w \in Workers : cur[w] # Queue!NoTask <=> wpc[w] # "idle"

\* What waits or is being handled has no answer yet; the owner waited for them all.
AnswerInv == /\ \A w \in Workers, task \in Queue!Tasks :
                   Queue!Waits(w, task) \/ cur[w] = task => answer[task[1]][task[2]] = "none"
             /\ life # "open" => AllAnswered

\* The event was executed.
WasExecuted(task) == \E k \in 1..Len(done) : done[k] = <<task[1], task[2], 1>>

\* No event that is not made or waits was executed; the one that is handled was,
\* when its value is to be set.
DoneInv == /\ \A task \in Queue!Tasks :
                 WasExecuted(task) => /\ task[2] <= Len(calls[task[1]])
                                      /\ \A w \in Workers : ~Queue!Waits(w, task)
           /\ \A w \in Workers : wpc[w] # "idle" => (WasExecuted(cur[w]) <=> wpc[w] = "set")

Inv == TypeOK /\ Queue!TasksInv /\ CurInv /\ AnswerInv /\ DoneInv

LEMMA OneWorker == Workers = {1} /\ Cardinality(Workers) = 1
<1>1. Workers = {1}
  BY DEF Workers
<1>2. QED
  BY <1>1, FS_Singleton

LEMMA InitInv == Init => Inv
<1> SUFFICES ASSUME Init PROVE Inv
  OBVIOUS
<1> USE DEF Init
<1>1. [c \in Clients |-> Len(calls[c])] = [c \in Clients |-> 0]
  BY EmptySeq
<1>2. Queue!TasksInv
  <2>1. Queue!TasksInit
    BY <1>1 DEF Queue!TasksInit, Events!TasksInit, Queue!NoTask, Events!NoTask
  <2>2. QED
    BY <2>1, Queue!TasksInvInit
<1>3. queue = [w \in Workers |-> [c \in Clients |-> <<>>]] /\ cur = [w \in Workers |-> <<>>]
  BY DEF Events!TasksInit, Events!NoTask
<1>4. TypeOK
  <2>1. CallTypes
    BY EmptySeq DEF CallTypes
  <2>2. QueueTypes
    BY <1>3, EmptySeq DEF QueueTypes, Events!NoTask
  <2>3. WorkerTypes
    BY DEF WorkerTypes, Nothing
  <2>4. DataTypes
    BY EmptySeq DEF DataTypes
  <2>5. done \in Seq(Clients \X Nat \X Nat)
    BY EmptySeq
  <2>6. QED
    BY <2>1, <2>2, <2>3, <2>4, <2>5 DEF TypeOK
<1>5. CurInv
  BY <1>3 DEF CurInv, Queue!NoTask
<1>6. AnswerInv
  <2>1. \A w \in Workers, task \in Queue!Tasks : ~Queue!Waits(w, task) /\ cur[w] # task
    BY <1>3, Queue!TaskIsSome DEF Queue!Waits, Queue!Tasks, Queue!NoTask
  <2>2. AllAnswered
    BY DEF AllAnswered
  <2>3. QED
    BY <2>1, <2>2 DEF AnswerInv
<1>7. DoneInv
  BY DEF DoneInv, WasExecuted
<1>8. QED
  BY <1>2, <1>4, <1>5, <1>6, <1>7 DEF Inv

-----------------------------------------------------------------------------
(* What the parts of a step do *)

\* A call is made in one of three ways, with an event that was prepared.
Made(c, event) == \/ event \in AllEvents /\ (Inserted(c, event) \/ InsertRefused(c, event))
                  \/ \E op \in CondOps : event = CondEvent(op, <<>>) /\ PrepareThrows(c, op)

LEMMA NextCases ==
  ASSUME Next
  PROVE  \/ InitMongo
         \/ \E c \in Clients, event \in Prepared : Made(c, event)
         \/ \E w \in Workers : \/ TakeEvent(w)
                               \/ InsertMany(w) \/ Find(w) \/ DeleteMany(w)
                               \/ InsertThrows(w) \/ FindThrows(w) \/ DeleteThrows(w)
                               \/ SetValue(w) \/ SetException(w)
         \/ FreeContext \/ StopOperators
<1>1. ASSUME NEW c \in Clients, Call(c)
      PROVE  \E event \in Prepared : Made(c, event)
  <2>1. CASE \E event \in AllEvents : Inserted(c, event) \/ InsertRefused(c, event)
    BY <2>1 DEF Made, Prepared
  <2>2. CASE \E op \in CondOps : PrepareThrows(c, op)
    BY <2>2 DEF Made, Prepared
  <2>3. QED
    BY <1>1, <2>1, <2>2 DEF Call
<1>2. QED
  BY <1>1 DEF Next, Handle

\* A worker in handle() has a call that was made.
LEMMA Busy ==
  ASSUME TypeOK, CurInv, Queue!TasksInv, NEW w \in Workers, wpc[w] # "idle"
  PROVE  /\ cur[w] \in Queue!Tasks /\ cur[w][1] \in Clients /\ cur[w][2] \in Nat
         /\ cur[w][2] \in 1..Len(calls[cur[w][1]])
         /\ Event(w) \in Prepared
<1>1. cur[w] \in Queue!Tasks
  BY DEF CurInv, Queue!TasksInv, Queue!TaskTypes
<1>2. cur[w][1] \in Clients /\ cur[w][2] \in Nat
  BY <1>1 DEF Queue!Tasks
<1>3. cur[w][2] \in 1..Len(calls[cur[w][1]])
  BY <1>1, <1>2 DEF Queue!TasksInv, Queue!Once
<1>4. calls[cur[w][1]] \in Seq(Prepared)
  BY <1>2 DEF TypeOK, CallTypes
<1>5. Event(w) \in Prepared
  BY <1>3, <1>4, ElementOfSeq DEF Event
<1>6. QED
  BY <1>1, <1>2, <1>3, <1>5

\* A call is added to those of its client, with an answer or without.
LEMMA CalledStep ==
  ASSUME TypeOK, NEW c \in Clients, NEW event \in Prepared, NEW at \in Answers, Called(c, event, at)
  PROVE  /\ life = "open" /\ CallTypes'
         /\ calls[c] \in Seq(Prepared) /\ calls' = [calls EXCEPT ![c] = Append(@, event)]
         /\ Len(calls[c]) \in Nat /\ Len(calls'[c]) = Len(calls[c]) + 1
         /\ \A n \in 1..Len(calls[c]) : calls'[c][n] = calls[c][n] /\ answer'[c][n] = answer[c][n]
         /\ calls'[c][Len(calls[c]) + 1] = event /\ answer'[c][Len(calls[c]) + 1] = at
         /\ \A d \in Clients \ {c} : calls'[d] = calls[d] /\ answer'[d] = answer[d]
         /\ UNCHANGED <<wpc, ret, life, coll, done, want>>
<1> DEFINE s == calls[c]
           a == answer[c]
<1>1. /\ calls \in [Clients -> Seq(Prepared)] /\ s \in Seq(Prepared)
      /\ answer \in [Clients -> Seq(Answers)] /\ a \in Seq(Answers)
      /\ Len(a) = Len(s)
  BY DEF TypeOK, CallTypes
<1>2. calls' = [calls EXCEPT ![c] = Append(s, event)] /\ answer' = [answer EXCEPT ![c] = Append(a, at)]
  BY DEF Called
<1> HIDE DEF s, a
<1>3. /\ Append(s, event) \in Seq(Prepared)
      /\ Len(s) \in Nat /\ Len(Append(s, event)) = Len(s) + 1
      /\ Append(s, event)[Len(s) + 1] = event
      /\ \A n \in 1..Len(s) : Append(s, event)[n] = s[n]
  BY <1>1, AppendProperties, LenProperties
<1>4. /\ Append(a, at) \in Seq(Answers)
      /\ Len(Append(a, at)) = Len(a) + 1
      /\ Append(a, at)[Len(a) + 1] = at
      /\ \A n \in 1..Len(a) : Append(a, at)[n] = a[n]
  BY <1>1, AppendProperties, LenProperties
<1>5. /\ calls' \in [Clients -> Seq(Prepared)] /\ calls'[c] = Append(s, event)
      /\ \A d \in Clients \ {c} : calls'[d] = calls[d]
  BY <1>1, <1>2, <1>3
<1>6. /\ answer' \in [Clients -> Seq(Answers)] /\ answer'[c] = Append(a, at)
      /\ \A d \in Clients \ {c} : answer'[d] = answer[d]
  BY <1>1, <1>2, <1>4
<1>7. CallTypes'
  <2>1. \A d \in Clients \ {c} : Len(answer[d]) = Len(calls[d])
    BY DEF TypeOK, CallTypes
  <2>2. Len(answer'[c]) = Len(calls'[c])
    BY <1>1, <1>3, <1>4, <1>5, <1>6
  <2>3. QED
    BY <1>5, <1>6, <2>1, <2>2 DEF CallTypes
<1>8. QED
  BY <1>1, <1>2, <1>3, <1>4, <1>5, <1>6, <1>7 DEF Called, dataVars, s, a

\* What the three ways to make a call do to the queue.
LEMMA CallCases ==
  ASSUME NEW c \in Clients, NEW event, Made(c, event)
  PROVE  \E at \in Answers :
            /\ Called(c, event, at)
            /\ \/ at = "none" /\ \E w \in Workers : Queue!Accept(c, w)
               \/ Queue!Refuse(c)
BY DEF Made, Inserted, PrepareThrows, InsertRefused, Answers,
       Events!Accept, Events!Refuse, Queue!Accept, Queue!Refuse

\* The context executes the event or throws: the worker keeps its call, and nobody
\* is answered.
Inside(w) == \/ InsertMany(w) \/ Find(w) \/ DeleteMany(w)
             \/ InsertThrows(w) \/ FindThrows(w) \/ DeleteThrows(w)

Done(w) == InsertMany(w) \/ Find(w) \/ DeleteMany(w)

LEMMA InsideStep ==
  ASSUME TypeOK, NEW w \in Workers, Inside(w)
  PROVE  /\ UNCHANGED <<calls, queue, answer, cur, life>>
         /\ wpc[w] = "run" /\ wpc' \in [Workers -> {"idle", "run", "set", "except"}]
         /\ \A v \in Workers \ {w} : wpc'[v] = wpc[v]
         /\ \/ Done(w) /\ wpc'[w] = "set" /\ done' = Append(done, <<cur[w][1], cur[w][2], 1>>)
            \/ wpc'[w] = "except" /\ UNCHANGED <<done, ret>>
<1>1. CASE Done(w)
  <2>1. PICK value : Executed(w, value)
    BY <1>1 DEF Done, InsertMany, Find, DeleteMany
  <2>2. QED
    BY <1>1, <2>1 DEF Executed, Move, clientVars, TypeOK, WorkerTypes
<1>2. CASE Throws(w)
  BY <1>2 DEF Throws, Move, clientVars, TypeOK, WorkerTypes
<1>3. QED
  BY <1>1, <1>2 DEF Inside, Done, InsertThrows, FindThrows, DeleteThrows

\* The thread takes an event, or resolves the promise of the one it has.
LEMMA TakeStep ==
  ASSUME TypeOK, NEW w \in Workers, TakeEvent(w)
  PROVE  /\ UNCHANGED <<calls, answer, ret, life, coll, done, want>>
         /\ wpc[w] = "idle" /\ wpc' = [wpc EXCEPT ![w] = "run"] /\ wpc'[w] = "run"
         /\ \A v \in Workers \ {w} : wpc'[v] = wpc[v]
         /\ \E c \in Clients : Queue!Start(w, c)
BY DEF TakeEvent, Move, dataVars, Events!Start, Queue!Start, Events!NoTask, Queue!NoTask, TypeOK, WorkerTypes

LEMMA ResolveStep ==
  ASSUME TypeOK, NEW w \in Workers, SetValue(w) \/ SetException(w)
  PROVE  \E at \in {"value", "exception"} :
            /\ answer' = [answer EXCEPT ![cur[w][1]][cur[w][2]] = at]
            /\ ret' = [ret EXCEPT ![w] = Nothing]
            /\ UNCHANGED <<calls, life, coll, done, want>>
            /\ wpc[w] = (IF at = "value" THEN "set" ELSE "except")
            /\ wpc' = [wpc EXCEPT ![w] = "idle"] /\ wpc'[w] = "idle"
            /\ \A v \in Workers \ {w} : wpc'[v] = wpc[v]
            /\ Queue!Finish(w)
BY DEF SetValue, SetException, Resolve, Move, dataVars, Events!Finish, Queue!Finish, Events!NoTask, Queue!NoTask,
       TypeOK, WorkerTypes

LEMMA OwnerFrame ==
  InitMongo \/ FreeContext \/ StopOperators => UNCHANGED <<calls, queue, answer, wpc, cur, ret, coll, done, want>>
BY DEF InitMongo, FreeContext, StopOperators, clientVars, dataVars

\* Every step is one of the queue's service, or leaves it alone.
LEMMA QueueStep == TypeOK /\ Queue!TasksInv /\ [Next]_vars => [Queue!TasksNext]_(Queue!tasks) /\ Queue!TasksInv'
<1> SUFFICES ASSUME TypeOK, Queue!TasksInv, [Next]_vars PROVE [Queue!TasksNext]_(Queue!tasks)
  BY Queue!TasksInvStep
<1>1. CASE UNCHANGED <<calls, queue, cur>>
  BY <1>1 DEF Queue!tasks
<1>2. ASSUME NEW c \in Clients, NEW event, Made(c, event)
      PROVE  Queue!TasksNext
  BY <1>2, CallCases DEF Queue!TasksNext
<1>3. ASSUME NEW w \in Workers, TakeEvent(w) \/ SetValue(w) \/ SetException(w)
      PROVE  Queue!TasksNext
  BY <1>3, TakeStep, ResolveStep DEF Queue!TasksNext
<1>4. ASSUME NEW w \in Workers, Inside(w)
      PROVE  UNCHANGED <<calls, queue, cur>>
  BY <1>4, InsideStep
<1>5. CASE UNCHANGED vars
  BY <1>1, <1>5 DEF vars, clientVars
<1>6. QED
  BY <1>1, <1>2, <1>3, <1>4, <1>5, OwnerFrame, NextCases DEF Inside

\* The event that is taken is the oldest of some client's, and waits no more.
LEMMA TakenStep ==
  ASSUME TypeOK, Queue!TasksInv, NEW w \in Workers, TakeEvent(w)
  PROVE  \E c \in Clients, task \in Queue!Tasks :
            /\ Queue!Start(w, c) /\ task = Head(queue[w][c])
            /\ task[1] = c /\ task[2] \in 1..Len(calls[c])
            /\ Queue!Waits(w, task)
            /\ cur'[w] = task /\ \A v \in Workers \ {w} : cur'[v] = cur[v]
            /\ \A v \in Workers, t \in Queue!Tasks : Queue!Waits(v, t)' => Queue!Waits(v, t) /\ t # task
<1>1. PICK c \in Clients : Queue!Start(w, c)
  BY TakeStep
<1>2. PICK task : task = Head(queue[w][c])
  OBVIOUS
<1>3. task \in Queue!Tasks /\ cur' = [cur EXCEPT ![w] = task] /\ task = queue[w][c][1] /\ Len(queue[w][c]) \in Nat \ {0}
  BY <1>1, <1>2, Queue!StartStep
<1>4. cur'[w] = task /\ \A v \in Workers \ {w} : cur'[v] = cur[v]
  BY <1>3 DEF TypeOK, QueueTypes
<1>5. /\ Queue!Waits(w, task)
      /\ \A v \in Workers, t \in Queue!Tasks : Queue!Waits(v, t)' => Queue!Waits(v, t) /\ t # task
  BY <1>1, <1>2, Queue!StartWaits
<1>6. task[1] = c /\ task[2] \in 1..Len(calls[c])
  BY <1>3 DEF Queue!TasksInv, Queue!InOrder
<1>7. QED
  BY <1>1, <1>2, <1>3, <1>4, <1>5, <1>6

\* As long as a worker keeps its call, the event is the same.
LEMMA EventStays ==
  ASSUME TypeOK, CurInv, Queue!TasksInv, [Next]_vars, NEW w \in Workers, wpc[w] # "idle", cur'[w] = cur[w]
  PROVE  Event(w)' = Event(w)
<1>1. cur[w][1] \in Clients /\ cur[w][2] \in 1..Len(calls[cur[w][1]])
  BY Busy
<1>2. CASE UNCHANGED calls
  BY <1>2 DEF Event
<1>3. ASSUME NEW c \in Clients, NEW event \in Prepared, Made(c, event)
      PROVE  Event(w)' = Event(w)
  <2>1. /\ \A n \in 1..Len(calls[c]) : calls'[c][n] = calls[c][n]
        /\ \A d \in Clients \ {c} : calls'[d] = calls[d]
    BY <1>3, CallCases, CalledStep
  <2>2. QED
    BY <1>1, <2>1 DEF Event
<1>4. QED
  BY <1>2, <1>3, NextCases, TakeStep, InsideStep, ResolveStep, OwnerFrame DEF Inside, vars, clientVars

-----------------------------------------------------------------------------
(* The numbers of the documents.  NatMin stands for induction: the least   *)
(* number a claim is wrong of is not 0, and its predecessor shows that it  *)
(* is right of it.                                                         *)

LEMMA NatMin ==
  ASSUME NEW T, T \subseteq Nat, T # {}
  PROVE  \E x \in T : \A y \in T : x <= y
<1>1. PICK R : R = OpToRel(<, Nat)
  OBVIOUS
<1>2. IsWellFoundedOn(R, Nat)
  BY <1>1, NatLessThanWellFounded
<1>3. \A x, y \in Nat : <<x, y>> \in R <=> x < y
  BY <1>1 DEF OpToRel
<1>4. PICK x \in T : \A y \in T : ~ (<<y, x>> \in R)
  BY <1>2, WFMin
<1>5. \A y \in T : x \in Nat /\ y \in Nat /\ ~ (y < x)
  BY <1>3, <1>4
<1>6. \A y \in T : x <= y
  BY <1>5
<1>7. QED
  BY <1>6

\* The function of which Ascending is the last value
IsUpTo(f, n, S) == f = [k \in 0..n |-> IF k = 0 THEN <<>>
                                       ELSE IF k \in S THEN Append(f[k - 1], k) ELSE f[k - 1]]

LEMMA UpToExists ==
  ASSUME NEW n \in Nat, NEW S
  PROVE  \E f : IsUpTo(f, n, S)
<1> DEFINE Bad == {m \in Nat : ~ \E f : IsUpTo(f, m, S)}
<1> SUFFICES ASSUME Bad # {} PROVE FALSE
  OBVIOUS
<1>1. PICK m \in Bad : \A k \in Bad : m <= k
  BY NatMin
<1>2. CASE m = 0
  <2>1. IsUpTo([k \in 0..0 |-> <<>>], 0, S)
    BY DEF IsUpTo
  <2>2. QED
    BY <1>1, <1>2, <2>1
<1>3. CASE m # 0
  <2>1. m \in Nat /\ m - 1 \in Nat /\ ~ (m <= m - 1)
    BY <1>1, <1>3
  <2>2. PICK f : IsUpTo(f, m - 1, S)
    <3>1. m - 1 \notin Bad
      BY <1>1, <2>1
    <3>2. QED
      BY <2>1, <3>1, Zenon
  <2>3. /\ DOMAIN f = 0..m - 1 /\ f[0] = <<>>
        /\ \A k \in 1..m - 1 : f[k] = IF k \in S THEN Append(f[k - 1], k) ELSE f[k - 1]
    <3>1. \A k \in 0..m - 1 : f[k] = IF k = 0 THEN <<>> ELSE IF k \in S THEN Append(f[k - 1], k) ELSE f[k - 1]
      BY <2>2 DEF IsUpTo
    <3>2. 0 \in 0..m - 1 /\ \A k \in 1..m - 1 : k \in 0..m - 1 /\ k # 0
      BY <2>1
    <3>3. DOMAIN f = 0..m - 1
      BY <2>2 DEF IsUpTo
    <3>4. QED
      BY <3>1, <3>2, <3>3
  <2>4. PICK g : g = [k \in 0..m |-> IF k = m THEN IF m \in S THEN Append(f[m - 1], m) ELSE f[m - 1] ELSE f[k]]
    OBVIOUS
  <2>5. /\ DOMAIN g = 0..m /\ \A k \in 0..m - 1 : g[k] = f[k]
        /\ g[m] = IF m \in S THEN Append(f[m - 1], m) ELSE f[m - 1]
    BY <2>1, <2>4
  <2>6. \A k \in 0..m : k = 0 \/ k = m \/ k \in 1..m - 1
    BY <2>1
  <2>7. \A k \in 0..m : g[k] = IF k = 0 THEN <<>> ELSE IF k \in S THEN Append(g[k - 1], k) ELSE g[k - 1]
    <3> SUFFICES ASSUME NEW k \in 0..m
                 PROVE  g[k] = IF k = 0 THEN <<>> ELSE IF k \in S THEN Append(g[k - 1], k) ELSE g[k - 1]
      OBVIOUS
    <3>1. CASE k = 0
      BY <2>1, <2>3, <2>5, <3>1
    <3>2. CASE k = m
      <4>1. m - 1 \in 0..m - 1
        BY <2>1
      <4>2. g[m - 1] = f[m - 1]
        BY <2>5, <4>1
      <4>3. QED
        BY <1>3, <2>5, <3>2, <4>2
    <3>3. CASE k \in 1..m - 1
      <4>1. k \in 0..m - 1 /\ k - 1 \in 0..m - 1 /\ k # 0
        BY <2>1, <3>3
      <4>2. g[k] = f[k] /\ g[k - 1] = f[k - 1]
        BY <2>5, <4>1
      <4>3. QED
        BY <2>3, <3>3, <4>1, <4>2
    <3>4. QED
      BY <2>6, <3>1, <3>2, <3>3
  <2>8. IsUpTo(g, m, S)
    BY <2>4, <2>7 DEF IsUpTo
  <2>9. QED
    BY <1>1, <2>8
<1>4. QED
  BY <1>2, <1>3

\* The numbers of S, in their order, and each once.
LEMMA AscendingIs ==
  ASSUME NEW n \in Nat, NEW S, S \subseteq 1..n
  PROVE  /\ Ascending(n, S) \in Seq(S)
         /\ \A i, j \in 1..Len(Ascending(n, S)) : i < j => Ascending(n, S)[i] < Ascending(n, S)[j]
         /\ \A x \in S : \E i \in 1..Len(Ascending(n, S)) : Ascending(n, S)[i] = x
<1>0. \A x \in S : x \in Nat
  OBVIOUS
<1>1. PICK f : IsUpTo(f, n, S) /\ Ascending(n, S) = f[n]
  <2>1. Ascending(n, S) = (CHOOSE f : IsUpTo(f, n, S))[n]
    BY DEF Ascending, IsUpTo
  <2>2. IsUpTo((CHOOSE f : IsUpTo(f, n, S)), n, S)
    BY UpToExists, Zenon
  <2>3. QED
    BY <2>1, <2>2
<1> DEFINE Good(k) == /\ f[k] \in Seq(S)
                      /\ \A i, j \in 1..Len(f[k]) : i < j => f[k][i] < f[k][j]
                      /\ \A i \in 1..Len(f[k]) : f[k][i] <= k
                      /\ \A x \in S : x <= k => \E i \in 1..Len(f[k]) : f[k][i] = x
           Bad == {k \in 0..n : ~Good(k)}
<1>2. /\ f[0] = <<>>
      /\ \A k \in 1..n : f[k] = IF k \in S THEN Append(f[k - 1], k) ELSE f[k - 1]
  <2>1. \A k \in 0..n : f[k] = IF k = 0 THEN <<>> ELSE IF k \in S THEN Append(f[k - 1], k) ELSE f[k - 1]
    BY <1>1 DEF IsUpTo
  <2>2. 0 \in 0..n /\ \A k \in 1..n : k \in 0..n /\ k # 0
    OBVIOUS
  <2>3. QED
    BY <2>1, <2>2
<1>3. SUFFICES ASSUME Bad # {} PROVE FALSE
  <2>1. \A x \in S : x <= n
    OBVIOUS
  <2>2. n \in 0..n
    OBVIOUS
  <2>3. Bad = {} => Good(n)
    BY <2>2, Zenon
  <2>4. QED
    BY <1>1, <2>1, <2>3
<1>4. PICK k \in Bad : \A m \in Bad : k <= m
  <2>1. Bad \subseteq Nat
    OBVIOUS
  <2>2. QED
    BY <1>3, <2>1, NatMin
<1>5. k \in 0..n /\ ~Good(k)
  BY <1>4
<1>6. CASE k = 0
  <2>1. Good(0)
    BY <1>2, EmptySeq
  <2>2. QED
    BY <1>5, <1>6, <2>1
<1>7. CASE k # 0
  <2>1. k \in 1..n /\ k - 1 \in 0..n /\ ~ (k <= k - 1)
    BY <1>5, <1>7
  <2>2. Good(k - 1)
    BY <1>4, <2>1
  <2>3. PICK s, t : s = f[k - 1] /\ t = f[k]
    OBVIOUS
  <2>4. /\ s \in Seq(S) /\ Len(s) \in Nat
        /\ \A i, j \in 1..Len(s) : i < j => s[i] < s[j]
        /\ \A i \in 1..Len(s) : s[i] <= k - 1 /\ s[i] \in Nat
        /\ \A x \in S : x <= k - 1 => \E i \in 1..Len(s) : s[i] = x
    <3>1. s \in Seq(S) /\ Len(s) \in Nat
      BY <2>2, <2>3, LenProperties
    <3>2. \A i \in 1..Len(s) : s[i] \in S
      BY <3>1, ElementOfSeq
    <3>3. \A i \in 1..Len(s) : s[i] \in Nat
      BY <1>0, <3>2
    <3>4. QED
      BY <2>2, <2>3, <3>1, <3>3
  <2>5. CASE k \notin S
    <3>1. \A x \in S : x <= k => x <= k - 1
      BY <2>1, <2>5
    <3>2. \A i \in 1..Len(s) : s[i] <= k
      BY <2>1, <2>4
    <3>3. t = s
      BY <1>2, <2>1, <2>3, <2>5
    <3>4. QED
      BY <1>5, <2>3, <2>4, <3>1, <3>2, <3>3
  <2>6. CASE k \in S
    <3>1. t = Append(s, k)
      BY <1>2, <2>1, <2>3, <2>6
    <3>2. /\ t \in Seq(S) /\ Len(t) = Len(s) + 1 /\ t[Len(s) + 1] = k
          /\ \A i \in 1..Len(s) : t[i] = s[i]
      BY <2>4, <2>6, <3>1, AppendProperties
    <3>3. \A i \in 1..Len(t) : i \in 1..Len(s) \/ i = Len(s) + 1
      BY <2>4, <3>2
    <3>4. \A i, j \in 1..Len(t) : i < j => t[i] < t[j]
      <4> SUFFICES ASSUME NEW i \in 1..Len(t), NEW j \in 1..Len(t), i < j PROVE t[i] < t[j]
        OBVIOUS
      <4>1. i \in 1..Len(s)
        BY <2>4, <3>2, <3>3
      <4>2. t[i] = s[i] /\ s[i] \in Nat /\ s[i] < k
        BY <2>1, <2>4, <3>2, <4>1
      <4>3. QED
        BY <2>4, <3>2, <3>3, <4>1, <4>2
    <3>5. \A i \in 1..Len(t) : t[i] <= k
      BY <2>1, <2>4, <3>2, <3>3
    <3>6. \A x \in S : x <= k => \E i \in 1..Len(t) : t[i] = x
      <4> SUFFICES ASSUME NEW x \in S, x <= k PROVE \E i \in 1..Len(t) : t[i] = x
        OBVIOUS
      <4>1. CASE x = k
        BY <2>4, <3>2, <4>1
      <4>2. CASE x # k
        <5>1. x <= k - 1
          BY <2>1, <4>2
        <5>2. PICK i \in 1..Len(s) : s[i] = x
          BY <2>4, <5>1
        <5>3. i \in 1..Len(t)
          BY <2>4, <3>2
        <5>4. QED
          BY <3>2, <5>2, <5>3
      <4>3. QED
        BY <4>1, <4>2
    <3>7. QED
      BY <1>5, <2>3, <3>2, <3>4, <3>5, <3>6
  <2>7. QED
    BY <2>5, <2>6
<1>8. QED
  BY <1>6, <1>7

\* So there are as many of them as S has.
LEMMA AscendingCounts ==
  ASSUME NEW n \in Nat, NEW S, S \subseteq 1..n
  PROVE  /\ Len(Ascending(n, S)) = Cardinality(S) /\ Cardinality(S) \in Nat
         /\ \A k \in 1..Cardinality(S) : Ascending(n, S)[k] \in S
<1>1. PICK s : s = Ascending(n, S)
  OBVIOUS
<1>2. s \in Seq(S)
  BY <1>1, AscendingIs
<1>3. \A i, j \in 1..Len(s) : i < j => s[i] < s[j]
  BY <1>1, AscendingIs
<1>4. \A x \in S : \E i \in 1..Len(s) : s[i] = x
  <2>1. \A x \in S : \E i \in 1..Len(Ascending(n, S)) : Ascending(n, S)[i] = x
    BY AscendingIs
  <2>2. QED
    BY <1>1, <2>1, Zenon
<1>5. s \in [1..Len(s) -> S] /\ Len(s) \in Nat
  BY <1>2, LenProperties
<1>6. \A i \in 1..Len(s) : s[i] \in S /\ s[i] \in Nat
  <2>1. \A x \in S : x \in Nat
    OBVIOUS
  <2>2. QED
    BY <1>5, <2>1
<1>7. \A i, j \in 1..Len(s) : s[i] = s[j] => i = j
  <2> SUFFICES ASSUME NEW i \in 1..Len(s), NEW j \in 1..Len(s), s[i] = s[j], i # j PROVE FALSE
    OBVIOUS
  <2>1. i < j \/ j < i
    BY <1>5
  <2>2. s[i] < s[j] \/ s[j] < s[i]
    BY <1>3, <2>1
  <2>3. QED
    BY <1>6, <2>2
<1>8. s \in Bijection(1..Len(s), S)
  BY <1>4, <1>5, <1>7 DEF Bijection, Injection, Surjection, IsInjective
<1>9. Cardinality(S) = Len(s)
  BY <1>5, <1>8, FS_CountingElements DEF ExistsBijection
<1>10. QED
  BY <1>1, <1>5, <1>6, <1>9

-----------------------------------------------------------------------------
(* What happens to the documents *)

Bsons == {MakeWriteBson(obj) : obj \in Objects}
Contents == {Entity(obj) : obj \in Objects}

Matched(d, e) == \E obj \in Objects : d = MakeWriteBson(obj) /\ e = Entity(obj)

LEMMA DataTypesIs ==
  DataTypes <=> /\ coll \in Seq(Bsons) /\ want \in Seq(Contents) /\ Len(want) = Len(coll)
                /\ \A i \in 1..Len(coll) : Matched(coll[i], want[i])
BY DEF DataTypes, Bsons, Contents, Matched

\* What is left when some are gone: all others, and each is what it was.
LEMMA LeftIs ==
  ASSUME NEW n \in Nat, NEW gone, gone \subseteq 1..n
  PROVE  /\ Len(Ascending(n, 1..n \ gone)) = n - Cardinality(gone) /\ n - Cardinality(gone) \in Nat
         /\ \A k \in 1..n - Cardinality(gone) : Ascending(n, 1..n \ gone)[k] \in 1..n
<1>1. IsFiniteSet(1..n) /\ Cardinality(1..n) = n
  <2>1. IsFiniteSet(1..n) /\ Cardinality(1..n) = IF 1 > n THEN 0 ELSE n - 1 + 1
    BY FS_Interval
  <2>2. QED
    BY <2>1
<1>2. Cardinality(1..n \ gone) = n - Cardinality(gone)
  <2>1. 1..n \cap gone = gone
    OBVIOUS
  <2>2. Cardinality(1..n \ gone) = Cardinality(1..n) - Cardinality(1..n \cap gone)
    BY <1>1, FS_Difference
  <2>3. QED
    BY <1>1, <2>1, <2>2
<1>3. PICK left : left = 1..n \ gone
  OBVIOUS
<1>4. left \subseteq 1..n
  BY <1>3
<1>5. /\ Len(Ascending(n, left)) = Cardinality(left) /\ Cardinality(left) \in Nat
      /\ \A k \in 1..Cardinality(left) : Ascending(n, left)[k] \in left
  BY <1>4, AscendingCounts
<1>6. QED
  BY <1>2, <1>3, <1>4, <1>5

LEMMA WithoutIs ==
  ASSUME NEW D, NEW s \in Seq(D), NEW gone, gone \subseteq 1..Len(s)
  PROVE  Without(s, gone) \in Seq(D) /\ Len(Without(s, gone)) = Len(s) - Cardinality(gone)
<1>1. PICK n, m, asc : n = Len(s) /\ m = n - Cardinality(gone) /\ asc = Ascending(n, 1..n \ gone)
  OBVIOUS
<1>2. n \in Nat
  BY <1>1, LenProperties
<1>3. Len(asc) = m /\ m \in Nat /\ \A k \in 1..m : asc[k] \in 1..n
  BY <1>1, <1>2, LeftIs
<1>4. Without(s, gone) = [k \in 1..m |-> s[asc[k]]]
  BY <1>1, <1>3 DEF Without
<1>5. \A i \in 1..n : s[i] \in D
  BY <1>1, ElementOfSeq
<1>6. Without(s, gone) \in [1..m -> D]
  BY <1>3, <1>4, <1>5
<1>7. Without(s, gone) \in Seq(D)
  BY <1>3, <1>6, SeqDef
<1>8. Len(Without(s, gone)) = m
  BY <1>3, <1>6, <1>7, LenProperties
<1>9. QED
  BY <1>1, <1>7, <1>8

LEMMA Appended ==
  ASSUME DataTypes, NEW docs \in Seq(Bsons), NEW ents \in Seq(Contents), Len(ents) = Len(docs),
         \A i \in 1..Len(docs) : Matched(docs[i], ents[i]),
         coll' = coll \o docs, want' = want \o ents
  PROVE  DataTypes' /\ Len(coll') - Len(coll) = Len(docs)
<1>1. /\ coll \in Seq(Bsons) /\ want \in Seq(Contents) /\ Len(want) = Len(coll)
      /\ \A i \in 1..Len(coll) : Matched(coll[i], want[i])
  BY DataTypesIs
<1>2. PICK m, n : m = Len(coll) /\ n = Len(docs)
  OBVIOUS
<1>3. m \in Nat /\ n \in Nat
  BY <1>1, <1>2, LenProperties
<1>4. /\ coll' \in Seq(Bsons) /\ Len(coll') = m + n
      /\ \A i \in 1..m + n : coll'[i] = IF i <= m THEN coll[i] ELSE docs[i - m]
  BY <1>1, <1>2, ConcatProperties
<1>5. /\ want' \in Seq(Contents) /\ Len(want') = m + n
      /\ \A i \in 1..m + n : want'[i] = IF i <= m THEN want[i] ELSE ents[i - m]
  <2>1. Len(want) = m /\ Len(ents) = n
    BY <1>1, <1>2
  <2>2. /\ want \o ents \in Seq(Contents) /\ Len(want \o ents) = Len(want) + Len(ents)
        /\ \A i \in 1..Len(want) + Len(ents) :
               (want \o ents)[i] = IF i <= Len(want) THEN want[i] ELSE ents[i - Len(want)]
    BY <1>1, ConcatProperties
  <2>3. QED
    BY <2>1, <2>2
<1>6. ASSUME NEW i \in 1..m + n PROVE Matched(coll'[i], want'[i])
  <2>1. CASE i <= m
    <3>1. i \in 1..m
      BY <1>3, <2>1
    <3>2. QED
      BY <1>1, <1>2, <1>4, <1>5, <2>1, <3>1
  <2>2. CASE ~(i <= m)
    <3>1. i - m \in 1..n
      BY <1>3, <2>2
    <3>2. QED
      BY <1>2, <1>4, <1>5, <2>2, <3>1
  <2>3. QED
    BY <2>1, <2>2
<1>7. \A i \in 1..Len(coll') : Matched(coll'[i], want'[i])
  BY <1>4, <1>6
<1>8. DataTypes'
  BY <1>4, <1>5, <1>7 DEF DataTypes, Bsons, Contents, Matched
<1>9. QED
  BY <1>2, <1>3, <1>4, <1>8

LEMMA Removed ==
  ASSUME DataTypes, NEW gone, gone \subseteq 1..Len(coll),
         coll' = Without(coll, gone), want' = Without(want, gone)
  PROVE  DataTypes' /\ Len(coll') = Len(coll) - Cardinality(gone)
<1>1. /\ coll \in Seq(Bsons) /\ want \in Seq(Contents) /\ Len(want) = Len(coll)
      /\ \A i \in 1..Len(coll) : Matched(coll[i], want[i])
  BY DataTypesIs
<1>2. PICK n, m, asc : n = Len(coll) /\ m = n - Cardinality(gone) /\ asc = Ascending(n, 1..n \ gone)
  OBVIOUS
<1>3. Len(asc) = m /\ m \in Nat /\ \A k \in 1..m : asc[k] \in 1..n
  <2>1. n \in Nat /\ gone \subseteq 1..n
    BY <1>1, <1>2, LenProperties
  <2>2. QED
    BY <1>2, <2>1, LeftIs
<1>4. coll' \in Seq(Bsons) /\ Len(coll') = m /\ coll' = [k \in 1..m |-> coll[asc[k]]]
  <2>1. coll' = [k \in 1..m |-> coll[asc[k]]]
    BY <1>2, <1>3 DEF Without
  <2>2. coll' \in Seq(Bsons) /\ Len(coll') = m
    BY <1>1, <1>2, WithoutIs
  <2>3. QED
    BY <2>1, <2>2
<1>5. want' \in Seq(Contents) /\ Len(want') = m /\ want' = [k \in 1..m |-> want[asc[k]]]
  <2>1. gone \subseteq 1..Len(want) /\ Len(want) = n
    BY <1>1, <1>2
  <2>2. want' = [k \in 1..m |-> want[asc[k]]]
    BY <1>2, <1>3, <2>1 DEF Without
  <2>3. want' \in Seq(Contents) /\ Len(want') = Len(want) - Cardinality(gone)
    BY <1>1, <2>1, WithoutIs
  <2>4. QED
    BY <1>2, <2>1, <2>2, <2>3
<1>6. \A k \in 1..m : Matched(coll'[k], want'[k])
  BY <1>1, <1>2, <1>3, <1>4, <1>5
<1>7. DataTypes'
  BY <1>4, <1>5, <1>6 DEF DataTypes, Bsons, Contents, Matched
<1>8. QED
  BY <1>2, <1>4, <1>7

\* A write event has the documents of its objects, one each.
LEMMA WriteEventIs ==
  ASSUME NEW event \in Prepared, event.op = "write"
  PROVE  /\ event.docs \in Seq(Bsons) /\ event.entities \in Seq(Contents)
         /\ Len(event.entities) = Len(event.docs)
         /\ \A i \in 1..Len(event.docs) : Matched(event.docs[i], event.entities[i])
<1>1. PICK objs \in Writes : event = WriteEvent(objs)
  BY CallsAssumption DEF Prepared, AllEvents, CondEvent, CondOps
<1>2. PICK n : n = Len(objs)
  OBVIOUS
<1>3. objs \in Seq(Objects)
  BY CallsAssumption
<1>4. n \in Nat /\ \A i \in 1..n : objs[i] \in Objects
  BY <1>2, <1>3, LenProperties, ElementOfSeq
<1>5. /\ event.docs = [i \in 1..n |-> MakeWriteBson(objs[i])]
      /\ event.entities = [i \in 1..n |-> Entity(objs[i])]
  BY <1>1, <1>2 DEF WriteEvent
<1>6. event.docs \in [1..n -> Bsons] /\ event.entities \in [1..n -> Contents]
  BY <1>4, <1>5 DEF Bsons, Contents
<1>7. event.docs \in Seq(Bsons) /\ event.entities \in Seq(Contents)
  BY <1>4, <1>6, SeqDef
<1>8. Len(event.docs) = n /\ Len(event.entities) = n
  BY <1>4, <1>6, <1>7, LenProperties
<1>9. \A i \in 1..n : Matched(event.docs[i], event.entities[i])
  BY <1>4, <1>5 DEF Matched
<1>10. QED
  BY <1>7, <1>8, <1>9

LEMMA PreparedOp == \A event \in Prepared : event.op \in CondOps \cup {"write"}
BY CallsAssumption DEF Prepared, AllEvents, CondEvent, WriteEvent

\* The context keeps the documents those of objects, and counts those that came
\* or went.
LEMMA DataStep ==
  ASSUME TypeOK, CurInv, Queue!TasksInv, NEW w \in Workers, Inside(w)
  PROVE  /\ DataTypes'
         /\ Done(w) => /\ ret'[w].count \in Nat /\ DOMAIN ret' = Workers
                       /\ Event(w).op = "write" => ret'[w].count = Len(coll') - Len(coll)
                       /\ Event(w).op = "del" => ret'[w].count = Len(coll) - Len(coll')
<1>1. DataTypes /\ DOMAIN ret = Workers /\ wpc[w] = "run" /\ Event(w) \in Prepared
  BY InsideStep, Busy DEF TypeOK, WorkerTypes
<1>2. coll \in Seq(Bsons) /\ Len(coll) \in Nat
  BY <1>1, DataTypesIs, LenProperties
<1>3. ASSUME NEW n \in Nat, Executed(w, [Nothing EXCEPT !.count = n])
      PROVE  DOMAIN ret' = Workers /\ ret'[w].count = n
  BY <1>1, <1>3 DEF Executed, Nothing
<1>4. CASE InsertMany(w)
  <2>1. PICK event : event = Event(w) /\ event.op = "write"
    BY <1>4 DEF InsertMany, Runs
  <2>2. /\ event.docs \in Seq(Bsons) /\ event.entities \in Seq(Contents)
        /\ Len(event.entities) = Len(event.docs)
        /\ \A i \in 1..Len(event.docs) : Matched(event.docs[i], event.entities[i])
    BY <1>1, <2>1, WriteEventIs
  <2>3. /\ coll' = coll \o event.docs /\ want' = want \o event.entities
        /\ Executed(w, [Nothing EXCEPT !.count = Len(event.docs)])
    BY <1>4, <2>1 DEF InsertMany, Entities
  <2>4. DataTypes' /\ Len(coll') - Len(coll) = Len(event.docs)
    BY <1>1, <2>2, <2>3, Appended
  <2>5. Len(event.docs) \in Nat
    BY <2>2, LenProperties
  <2>6. QED
    BY <1>3, <2>1, <2>3, <2>4, <2>5
<1>5. CASE Find(w)
  <2>1. UNCHANGED <<coll, want>> /\ Event(w).op \in {"read", "read_list"}
    BY <1>5 DEF Find, Runs
  <2>2. \E entities : Executed(w, [Nothing EXCEPT !.entities = entities])
    BY <1>5 DEF Find
  <2>3. ret'[w].count = 0 /\ DOMAIN ret' = Workers
    BY <1>1, <2>2 DEF Executed, Nothing
  <2>4. DataTypes'
    BY <1>1, <2>1 DEF DataTypes
  <2>5. QED
    BY <2>1, <2>3, <2>4
<1>6. CASE DeleteMany(w)
  <2>1. PICK gone : gone = Indices(Event(w).filter)
    OBVIOUS
  <2>2. /\ coll' = Without(coll, gone) /\ want' = Without(want, gone) /\ Event(w).op = "del"
        /\ Executed(w, [Nothing EXCEPT !.count = Cardinality(gone)])
    BY <1>6, <2>1 DEF DeleteMany, Runs
  <2>3. gone \subseteq 1..Len(coll)
    BY <2>1 DEF Indices
  <2>4. DataTypes' /\ Len(coll') = Len(coll) - Cardinality(gone)
    BY <1>1, <2>2, <2>3, Removed
  <2>5. Cardinality(gone) \in Nat
    BY <1>2, <2>3, AscendingCounts
  <2>6. Cardinality(gone) = Len(coll) - Len(coll')
    BY <1>2, <2>4, <2>5
  <2>7. QED
    BY <1>3, <2>2, <2>4, <2>5, <2>6
<1>7. CASE InsertThrows(w)
  <2>1. PICK event : event = Event(w) /\ event.op = "write"
    BY <1>7 DEF InsertThrows, Runs
  <2>2. PICK n \in 0..Len(event.docs) : /\ coll' = coll \o SubSeq(event.docs, 1, n)
                                        /\ want' = want \o SubSeq(event.entities, 1, n)
    BY <1>7, <2>1 DEF InsertThrows
  <2>3. /\ event.docs \in Seq(Bsons) /\ event.entities \in Seq(Contents)
        /\ Len(event.entities) = Len(event.docs) /\ Len(event.docs) \in Nat
        /\ \A i \in 1..Len(event.docs) : Matched(event.docs[i], event.entities[i])
    BY <1>1, <2>1, WriteEventIs, LenProperties
  <2>4. n \in Nat /\ \A i \in 1..n : i \in 1..Len(event.docs)
    BY <2>3
  <2>5. \A i \in 1..n : event.docs[i] \in Bsons /\ event.entities[i] \in Contents
    BY <2>3, <2>4, ElementOfSeq
  <2>6. PICK docs, ents : docs = SubSeq(event.docs, 1, n) /\ ents = SubSeq(event.entities, 1, n)
    OBVIOUS
  <2>7. docs \in Seq(Bsons) /\ Len(docs) = n /\ \A i \in 1..n : docs[i] = event.docs[i]
    BY <2>4, <2>5, <2>6, SubSeqProperties
  <2>8. ents \in Seq(Contents) /\ Len(ents) = n /\ \A i \in 1..n : ents[i] = event.entities[i]
    BY <2>4, <2>5, <2>6, SubSeqProperties
  <2>9. \A i \in 1..n : Matched(docs[i], ents[i])
    BY <2>3, <2>4, <2>7, <2>8
  <2>10. DataTypes'
    BY <1>1, <2>2, <2>6, <2>7, <2>8, <2>9, Appended
  <2>11. ~Done(w)
    BY <1>1, <1>7 DEF InsertThrows, Throws, Done, InsertMany, Find, DeleteMany, Executed, Move, TypeOK, WorkerTypes
  <2>12. QED
    BY <2>10, <2>11
<1>8. CASE FindThrows(w)
  <2>1. DataTypes'
    BY <1>1, <1>8 DEF FindThrows, DataTypes
  <2>2. ~Done(w)
    BY <1>1, <1>8 DEF FindThrows, Throws, Done, InsertMany, Find, DeleteMany, Executed, Move, TypeOK, WorkerTypes
  <2>3. QED
    BY <2>1, <2>2
<1>9. CASE DeleteThrows(w)
  <2>1. PICK gone \in SUBSET Indices(Event(w).filter) : coll' = Without(coll, gone) /\ want' = Without(want, gone)
    BY <1>9 DEF DeleteThrows
  <2>2. gone \subseteq 1..Len(coll)
    BY <2>1 DEF Indices
  <2>3. DataTypes'
    BY <1>1, <2>1, <2>2, Removed
  <2>4. ~Done(w)
    BY <1>1, <1>9 DEF DeleteThrows, Throws, Done, InsertMany, Find, DeleteMany, Executed, Move, TypeOK, WorkerTypes
  <2>5. QED
    BY <2>3, <2>4
<1>10. QED
  BY <1>4, <1>5, <1>6, <1>7, <1>8, <1>9 DEF Inside

-----------------------------------------------------------------------------
(* The steps keep the invariant *)

LEMMA TypeStep == TypeOK /\ CurInv /\ Queue!TasksInv /\ [Next]_vars => TypeOK'
<1> SUFFICES ASSUME TypeOK, CurInv, Queue!TasksInv, [Next]_vars PROVE TypeOK'
  OBVIOUS
<1>1. QueueTypes'
  BY QueueStep DEF Queue!TasksInv, Queue!TaskTypes, QueueTypes, Queue!Tasks, Queue!NoTask, Events!NoTask
<1>2. /\ CallTypes /\ WorkerTypes /\ DataTypes /\ done \in Seq(Clients \X Nat \X Nat)
      /\ life \in {"new", "open", "closing", "gone"}
  BY DEF TypeOK
<1>3. ASSUME UNCHANGED <<calls, answer, wpc, ret, coll, done, want>>, life' \in {"new", "open", "closing", "gone"}
      PROVE  TypeOK'
  BY <1>1, <1>2, <1>3 DEF TypeOK, CallTypes, WorkerTypes, DataTypes
<1>4. ASSUME NEW c \in Clients, NEW event \in Prepared, Made(c, event)
      PROVE  TypeOK'
  <2>1. CallTypes' /\ UNCHANGED <<wpc, ret, life, coll, done, want>>
    BY <1>4, CallCases, CalledStep
  <2>2. QED
    BY <1>1, <1>2, <2>1 DEF TypeOK, WorkerTypes, DataTypes
<1>5. ASSUME NEW w \in Workers, Inside(w)
      PROVE  TypeOK'
  <2>1. /\ UNCHANGED <<calls, answer, cur, life>> /\ wpc[w] # "idle"
        /\ wpc' \in [Workers -> {"idle", "run", "set", "except"}]
        /\ \/ Done(w) /\ done' = Append(done, <<cur[w][1], cur[w][2], 1>>)
           \/ UNCHANGED <<done, ret>>
    BY <1>5, InsideStep
  <2>2. DataTypes' /\ (Done(w) => ret'[w].count \in Nat /\ DOMAIN ret' = Workers)
    BY <1>5, DataStep
  <2>3. done' \in Seq(Clients \X Nat \X Nat)
    <3>1. <<cur[w][1], cur[w][2], 1>> \in Clients \X Nat \X Nat
      BY <2>1, Busy
    <3>2. PICK s, e : s = done /\ e = <<cur[w][1], cur[w][2], 1>>
      OBVIOUS
    <3>3. Append(s, e) \in Seq(Clients \X Nat \X Nat)
      BY <1>2, <3>1, <3>2, AppendProperties
    <3>4. done' = Append(s, e) \/ done' = s
      BY <2>1, <3>2
    <3>5. QED
      BY <1>2, <3>2, <3>3, <3>4
  <2>4. WorkerTypes'
    BY <1>2, <2>1, <2>2, OneWorker DEF WorkerTypes
  <2>5. QED
    BY <1>1, <1>2, <2>1, <2>2, <2>3, <2>4 DEF TypeOK, CallTypes
<1>6. ASSUME NEW w \in Workers, TakeEvent(w)
      PROVE  TypeOK'
  <2>1. UNCHANGED <<calls, answer, ret, life, coll, done, want>> /\ wpc' = [wpc EXCEPT ![w] = "run"]
    BY <1>6, TakeStep
  <2>2. QED
    BY <1>1, <1>2, <2>1 DEF TypeOK, CallTypes, WorkerTypes, DataTypes
<1>7. ASSUME NEW w \in Workers, SetValue(w) \/ SetException(w)
      PROVE  TypeOK'
  <2>1. PICK at \in {"value", "exception"} :
           /\ answer' = [answer EXCEPT ![cur[w][1]][cur[w][2]] = at] /\ ret' = [ret EXCEPT ![w] = Nothing]
           /\ UNCHANGED <<calls, life, coll, done, want>> /\ wpc[w] # "idle"
           /\ wpc' = [wpc EXCEPT ![w] = "idle"]
    BY <1>7, ResolveStep
  <2>2. PICK c, n : c = cur[w][1] /\ n = cur[w][2]
    OBVIOUS
  <2>3. c \in Clients /\ n \in 1..Len(calls[c])
    BY <2>1, <2>2, Busy
  <2>4. answer[c] \in Seq(Answers) /\ at \in Answers /\ n \in 1..Len(answer[c]) /\ Len(answer[c]) = Len(calls[c])
    BY <1>2, <2>3 DEF CallTypes, Answers
  <2>5. /\ [answer[c] EXCEPT ![n] = at] \in Seq(Answers)
        /\ Len([answer[c] EXCEPT ![n] = at]) = Len(answer[c])
    BY <2>4, ExceptSeq
  <2>6. answer' = [answer EXCEPT ![c] = [answer[c] EXCEPT ![n] = at]]
    BY <1>2, <2>1, <2>2, <2>3 DEF CallTypes
  <2>7. CallTypes'
    <3>1. answer' \in [Clients -> Seq(Answers)]
      BY <1>2, <2>3, <2>5, <2>6 DEF CallTypes
    <3>2. \A d \in Clients : Len(answer'[d]) = Len(answer[d])
      BY <1>2, <2>3, <2>5, <2>6 DEF CallTypes
    <3>3. QED
      BY <1>2, <2>1, <3>1, <3>2 DEF CallTypes
  <2>8. WorkerTypes'
    BY <1>2, <2>1 DEF WorkerTypes, Nothing
  <2>9. QED
    BY <1>1, <1>2, <2>1, <2>7, <2>8 DEF TypeOK, DataTypes
<1>8. CASE InitMongo \/ FreeContext \/ StopOperators
  BY <1>3, <1>8, OwnerFrame DEF InitMongo, FreeContext, StopOperators
<1>9. CASE UNCHANGED vars
  BY <1>2, <1>3, <1>9 DEF vars, clientVars, dataVars
<1>10. QED
  BY <1>4, <1>5, <1>6, <1>7, <1>8, <1>9, NextCases DEF Inside

\* A worker has a call from TakeEvent to SetValue or SetException.
LEMMA CurStep == TypeOK /\ CurInv /\ Queue!TasksInv /\ [Next]_vars => CurInv'
<1> SUFFICES ASSUME TypeOK, CurInv, Queue!TasksInv, [Next]_vars PROVE CurInv'
  OBVIOUS
<1>1. ASSUME UNCHANGED <<cur, wpc>> PROVE CurInv'
  BY <1>1 DEF CurInv
<1>2. ASSUME NEW w \in Workers, TakeEvent(w)
      PROVE  CurInv'
  <2>1. cur'[w] # Queue!NoTask /\ wpc'[w] # "idle"
    BY <1>2, TakenStep, TakeStep, Queue!TaskIsSome
  <2>2. QED
    BY <2>1, OneWorker DEF CurInv
<1>3. ASSUME NEW w \in Workers, SetValue(w) \/ SetException(w)
      PROVE  CurInv'
  <2>1. wpc'[w] = "idle" /\ cur' = [cur EXCEPT ![w] = Queue!NoTask]
    BY <1>3, ResolveStep DEF Queue!Finish
  <2>2. cur'[w] = Queue!NoTask
    BY <2>1 DEF TypeOK, QueueTypes
  <2>3. QED
    BY <2>1, <2>2, OneWorker DEF CurInv
<1>4. ASSUME NEW w \in Workers, Inside(w)
      PROVE  CurInv'
  <2>1. UNCHANGED cur /\ wpc[w] # "idle" /\ wpc'[w] # "idle"
    BY <1>4, InsideStep
  <2>2. QED
    BY <2>1, OneWorker DEF CurInv
<1>5. ASSUME NEW c \in Clients, NEW event \in Prepared, Made(c, event)
      PROVE  UNCHANGED <<cur, wpc>>
  BY <1>5, CallCases, CalledStep DEF Queue!Accept, Queue!Refuse
<1>6. CASE UNCHANGED vars
  BY <1>1, <1>6 DEF vars
<1>7. QED
  BY <1>1, <1>2, <1>3, <1>4, <1>5, <1>6, OwnerFrame, NextCases DEF Inside

\* Who waits or is handled was not answered: an answer goes to the call that is
\* handled, which waits no more, and a new call is another.
LEMMA AnswerStep == TypeOK /\ CurInv /\ Queue!TasksInv /\ AnswerInv /\ [Next]_vars => AnswerInv'
<1> SUFFICES ASSUME TypeOK, CurInv, Queue!TasksInv, AnswerInv, [Next]_vars PROVE AnswerInv'
  OBVIOUS
<1> DEFINE Pending(w, task) == Queue!Waits(w, task) \/ cur[w] = task
           Open(task) == answer[task[1]][task[2]] = "none"
           OwnerWaited == life # "open" => AllAnswered
<1>1. (\A w \in Workers, task \in Queue!Tasks : Pending(w, task) => Open(task)) /\ OwnerWaited
  BY DEF AnswerInv
<1>2. ASSUME \A w \in Workers, task \in Queue!Tasks : Pending(w, task)' => Open(task)', OwnerWaited'
      PROVE  AnswerInv'
  BY <1>2 DEF AnswerInv
<1>3. \A w \in Workers, task \in Queue!Tasks :
         UNCHANGED <<calls, queue, cur>> => (Pending(w, task)' <=> Pending(w, task))
  BY DEF Queue!Waits
<1>4. \A w \in Workers, task \in Queue!Tasks :
         Pending(w, task) => task[1] \in Clients /\ task[2] \in 1..Len(calls[task[1]])
  BY Queue!WaitsIsGiven DEF Queue!TasksInv, Queue!Once, Queue!Tasks
<1>5. UNCHANGED <<calls, answer, life>> => OwnerWaited'
  BY <1>1 DEF AllAnswered
<1> HIDE DEF OwnerWaited, Pending
<1>6. ASSUME UNCHANGED <<calls, answer, queue, cur, life>>
      PROVE  AnswerInv'
  BY <1>1, <1>2, <1>3, <1>5, <1>6
<1>7. ASSUME NEW c \in Clients, NEW event \in Prepared, Made(c, event)
      PROVE  AnswerInv'
  <2>1. PICK at \in Answers : /\ Called(c, event, at)
                              /\ (at = "none" /\ \E w \in Workers : Queue!Accept(c, w)) \/ Queue!Refuse(c)
    BY <1>7, CallCases
  <2>2. PICK new, m : new = <<c, m + 1>> /\ m = Len(calls[c])
    OBVIOUS
  <2>3. /\ life = "open" /\ life' = life /\ m \in Nat
        /\ \A n \in 1..m : answer'[c][n] = answer[c][n]
        /\ answer'[c][m + 1] = at
        /\ \A d \in Clients \ {c} : answer'[d] = answer[d]
    BY <2>1, <2>2, CalledStep
  <2>4. \A w \in Workers, task \in Queue!Tasks :
           Pending(w, task)' => Pending(w, task) \/ (at = "none" /\ task = new)
    <3>1. CASE at = "none" /\ \E w \in Workers : Queue!Accept(c, w)
      <4>1. PICK w \in Workers : Queue!Accept(c, w)
        BY <3>1
      <4>2. \A v \in Workers, task \in Queue!Tasks :
               Queue!Waits(v, task)' <=> Queue!Waits(v, task) \/ (v = w /\ task = new)
        BY <2>2, <4>1, Queue!AcceptWaits
      <4>3. UNCHANGED cur
        BY <4>1 DEF Queue!Accept
      <4>4. QED
        BY <3>1, <4>2, <4>3 DEF Pending
    <3>2. CASE Queue!Refuse(c)
      BY <3>2 DEF Pending, Queue!Waits, Queue!Refuse
    <3>3. QED
      BY <2>1, <3>1, <3>2
  <2>5. ASSUME NEW w \in Workers, NEW task \in Queue!Tasks, Pending(w, task)' PROVE Open(task)'
    <3>1. CASE Pending(w, task)
      BY <1>1, <1>4, <2>2, <2>3, <3>1
    <3>2. CASE at = "none" /\ task = new
      BY <2>2, <2>3, <3>2
    <3>3. QED
      BY <2>4, <2>5, <3>1, <3>2
  <2>6. QED
    BY <1>2, <2>3, <2>5 DEF OwnerWaited
<1>8. ASSUME NEW w \in Workers, TakeEvent(w)
      PROVE  AnswerInv'
  <2>1. UNCHANGED <<calls, answer, life>>
    BY <1>8, TakeStep
  <2>2. PICK t \in Queue!Tasks :
            /\ Queue!Waits(w, t)
            /\ cur'[w] = t /\ \A v \in Workers \ {w} : cur'[v] = cur[v]
            /\ \A v \in Workers, task \in Queue!Tasks : Queue!Waits(v, task)' => Queue!Waits(v, task)
    BY <1>8, TakenStep
  <2>3. ASSUME NEW v \in Workers, NEW task \in Queue!Tasks, Pending(v, task)'
        PROVE  \E u \in Workers : Pending(u, task)
    BY <2>2, <2>3 DEF Pending
  <2>4. QED
    BY <1>1, <1>2, <1>5, <2>1, <2>3
<1>9. ASSUME NEW w \in Workers, SetValue(w) \/ SetException(w)
      PROVE  AnswerInv'
  <2>1. PICK at \in Answers :
            /\ answer' = [answer EXCEPT ![cur[w][1]][cur[w][2]] = at]
            /\ wpc[w] # "idle" /\ Queue!Finish(w) /\ UNCHANGED <<calls, life>>
    BY <1>9, ResolveStep DEF Answers
  <2>2. /\ cur[w] \in Queue!Tasks /\ cur[w][1] \in Clients
        /\ cur[w][2] \in 1..Len(calls[cur[w][1]])
    BY <2>1, Busy
  <2>3. Open(cur[w])
    BY <1>1, <2>2 DEF Pending
  <2>4. life = "open"
    BY <1>1, <2>2, <2>3 DEF OwnerWaited, AllAnswered
  <2>5. UNCHANGED queue /\ cur'[w] = Queue!NoTask /\ \A v \in Workers \ {w} : cur'[v] = cur[v]
    BY <2>1 DEF Queue!Finish, TypeOK, QueueTypes
  <2>6. ASSUME NEW v \in Workers, NEW task \in Queue!Tasks, Pending(v, task)' PROVE Open(task)'
    <3>1. Pending(v, task) /\ task # cur[w]
      <4>1. CASE Queue!Waits(v, task)'
        <5>1. Queue!Waits(v, task)
          BY <2>5, <4>1 DEF Queue!Waits
        <5>2. QED
          BY <5>1 DEF Pending, Queue!TasksInv, Queue!Once
      <4>2. CASE cur'[v] = task
        <5>1. v # w /\ cur[v] = task
          BY <2>5, <4>2, Queue!TaskIsSome
        <5>2. QED
          BY <5>1, OneWorker
      <4>3. QED
        BY <2>6, <4>1, <4>2 DEF Pending
    <3>2. Open(task) /\ task[1] \in Clients /\ task = <<task[1], task[2]>> /\ cur[w] = <<cur[w][1], cur[w][2]>>
      BY <1>1, <2>2, <3>1 DEF Queue!Tasks
    <3>3. task[1] # cur[w][1] \/ task[2] # cur[w][2]
      BY <3>1, <3>2
    <3>4. answer \in [Clients -> Seq(Answers)]
      BY DEF TypeOK, CallTypes
    <3>5. task[1] = cur[w][1] => answer'[task[1]][task[2]] = answer[task[1]][task[2]]
      BY <2>1, <2>2, <3>3, <3>4
    <3>6. task[1] # cur[w][1] => answer'[task[1]] = answer[task[1]]
      BY <2>1, <2>2, <3>2, <3>4
    <3>7. QED
      BY <3>2, <3>5, <3>6
  <2>7. QED
    BY <1>2, <2>1, <2>4, <2>6 DEF OwnerWaited
<1>10. ASSUME NEW w \in Workers, Inside(w)
       PROVE  AnswerInv'
  BY <1>6, <1>10, InsideStep
<1>11. CASE InitMongo \/ FreeContext \/ StopOperators
  <2>1. UNCHANGED <<calls, queue, answer, cur>> /\ (life' # "open" => AllAnswered)
    BY <1>1, <1>11, OwnerFrame DEF InitMongo, FreeContext, StopOperators, OwnerWaited
  <2>2. OwnerWaited'
    BY <2>1 DEF OwnerWaited, AllAnswered
  <2>3. QED
    BY <1>1, <1>2, <1>3, <2>1, <2>2
<1>12. CASE UNCHANGED vars
  BY <1>6, <1>12 DEF vars, clientVars
<1>13. QED
  BY <1>7, <1>8, <1>9, <1>10, <1>11, <1>12, NextCases DEF Inside

\* What was executed with the value that is kept: the event of the worker.
LEMMA ExecutedStep ==
  ASSUME TypeOK, CurInv, Queue!TasksInv, NEW w \in Workers, wpc[w] # "idle",
         done' = Append(done, <<cur[w][1], cur[w][2], 1>>)
  PROVE  \A task \in Queue!Tasks : WasExecuted(task)' <=> WasExecuted(task) \/ task = cur[w]
<1>1. cur[w] \in Queue!Tasks /\ done \in Seq(Clients \X Nat \X Nat)
  BY Busy DEF TypeOK
<1>2. PICK c \in Clients, n \in Nat : cur[w] = <<c, n>>
  BY <1>1 DEF Queue!Tasks
<1>3. PICK e : e = <<c, n, 1>>
  OBVIOUS
<1>4. e \in Clients \X Nat \X Nat
  BY <1>3
<1>5. /\ Len(done) \in Nat /\ Len(done') = Len(done) + 1 /\ done'[Len(done) + 1] = e
      /\ \A k \in 1..Len(done) : done'[k] = done[k]
  BY <1>1, <1>2, <1>3, <1>4, AppendProperties, LenProperties
<1>6. ASSUME NEW x PROVE (\E k \in 1..Len(done') : done'[k] = x) <=> (\E k \in 1..Len(done) : done[k] = x) \/ x = e
  <2>1. Len(done) + 1 \in 1..Len(done') /\ \A k \in 1..Len(done') : k \in 1..Len(done) \/ k = Len(done) + 1
    BY <1>5
  <2>2. \A k \in 1..Len(done) : k \in 1..Len(done')
    BY <1>5
  <2>3. QED
    BY <1>5, <2>1, <2>2
<1>7. ASSUME NEW task \in Queue!Tasks
      PROVE  WasExecuted(task)' <=> WasExecuted(task) \/ task = cur[w]
  <2>1. PICK d \in Clients, m \in Nat : task = <<d, m>>
    BY DEF Queue!Tasks
  <2>2. <<d, m, 1>> = e <=> task = cur[w]
    BY <1>2, <1>3, <2>1
  <2>3. QED
    BY <1>6, <2>1, <2>2 DEF WasExecuted
<1>8. QED
  BY <1>7

\* What was executed is what is over, and the event that is handled once its value
\* is known.
LEMMA DoneStep == TypeOK /\ CurInv /\ Queue!TasksInv /\ DoneInv /\ [Next]_vars => DoneInv'
<1> SUFFICES ASSUME TypeOK, CurInv, Queue!TasksInv, DoneInv, [Next]_vars PROVE DoneInv'
  OBVIOUS
<1> DEFINE Old(task) == task[2] <= Len(calls[task[1]]) /\ \A w \in Workers : ~Queue!Waits(w, task)
           Kept(w) == wpc[w] # "idle" => (WasExecuted(cur[w]) <=> wpc[w] = "set")
<1>1. /\ \A task \in Queue!Tasks : WasExecuted(task) => Old(task)
      /\ \A w \in Workers : Kept(w)
  BY DEF DoneInv
<1>2. ASSUME \A task \in Queue!Tasks : WasExecuted(task)' => Old(task)', \A w \in Workers : Kept(w)'
      PROVE  DoneInv'
  BY <1>2 DEF DoneInv
<1>3. UNCHANGED done => \A task : WasExecuted(task)' <=> WasExecuted(task)
  BY DEF WasExecuted
<1>4. UNCHANGED <<calls, queue>> => \A task : Old(task)' <=> Old(task)
  BY DEF Queue!Waits
<1>5. UNCHANGED <<done, cur, wpc>> => \A w \in Workers : Kept(w)'
  BY <1>1 DEF WasExecuted
<1>6. UNCHANGED <<calls, queue, done, wpc, cur>> => DoneInv'
  BY <1>1, <1>2, <1>3, <1>4, <1>5
<1>7. ASSUME NEW c \in Clients, NEW event \in Prepared, Made(c, event)
      PROVE  DoneInv'
  <2>1. PICK at \in Answers : /\ Called(c, event, at)
                              /\ (at = "none" /\ \E w \in Workers : Queue!Accept(c, w)) \/ Queue!Refuse(c)
    BY <1>7, CallCases
  <2>2. PICK new, m : new = <<c, m + 1>> /\ m = Len(calls[c])
    OBVIOUS
  <2>3. /\ UNCHANGED <<wpc, done>> /\ m \in Nat /\ Len(calls'[c]) = m + 1
        /\ \A d \in Clients \ {c} : calls'[d] = calls[d]
    BY <2>1, <2>2, CalledStep
  <2>4. UNCHANGED cur
    BY <2>1 DEF Queue!Accept, Queue!Refuse
  <2>5. \A w \in Workers, task \in Queue!Tasks : Queue!Waits(w, task)' => Queue!Waits(w, task) \/ task = new
    <3>1. CASE \E w \in Workers : Queue!Accept(c, w)
      BY <2>2, <3>1, Queue!AcceptWaits
    <3>2. CASE Queue!Refuse(c)
      BY <3>2 DEF Queue!Waits, Queue!Refuse
    <3>3. QED
      BY <2>1, <3>1, <3>2
  <2>6. ASSUME NEW task \in Queue!Tasks, WasExecuted(task)' PROVE Old(task)'
    <3>1. Old(task)
      BY <1>1, <1>3, <2>3, <2>6
    <3>2. task # new
      BY <2>2, <2>3, <3>1
    <3>3. task[1] \in Clients /\ task[2] \in Nat
      BY DEF Queue!Tasks
    <3>4. task[2] <= Len(calls'[task[1]])
      <4>1. CASE task[1] = c
        BY <2>2, <2>3, <3>1, <3>3, <4>1
      <4>2. CASE task[1] # c
        BY <2>3, <3>1, <3>3, <4>2
      <4>3. QED
        BY <4>1, <4>2
    <3>5. QED
      BY <2>5, <3>1, <3>2, <3>4
  <2>7. QED
    BY <1>2, <1>5, <2>3, <2>4, <2>6
<1>8. ASSUME NEW w \in Workers, TakeEvent(w)
      PROVE  DoneInv'
  <2>1. wpc'[w] = "run" /\ UNCHANGED <<calls, done>>
    BY <1>8, TakeStep
  <2>2. PICK t \in Queue!Tasks :
            /\ Queue!Waits(w, t) /\ cur'[w] = t
            /\ \A v \in Workers, task \in Queue!Tasks : Queue!Waits(v, task)' => Queue!Waits(v, task)
    BY <1>8, TakenStep
  <2>3. \A task \in Queue!Tasks : Old(task) => Old(task)'
    BY <2>1, <2>2
  <2>4. ~WasExecuted(t)
    BY <1>1, <2>2
  <2>5. Kept(w)'
    BY <2>1, <2>2, <2>4 DEF WasExecuted
  <2>6. QED
    BY <1>1, <1>2, <1>3, <2>1, <2>3, <2>5, OneWorker
<1>9. ASSUME NEW w \in Workers, SetValue(w) \/ SetException(w)
      PROVE  DoneInv'
  <2>1. UNCHANGED <<calls, queue, done>> /\ wpc'[w] = "idle"
    BY <1>9, ResolveStep DEF Queue!Finish
  <2>2. QED
    BY <1>1, <1>2, <1>3, <1>4, <2>1, OneWorker
<1>10. ASSUME NEW w \in Workers, Inside(w)
       PROVE  DoneInv'
  <2>1. /\ UNCHANGED <<calls, queue, cur>> /\ wpc[w] = "run"
        /\ \/ wpc'[w] = "set" /\ done' = Append(done, <<cur[w][1], cur[w][2], 1>>)
           \/ wpc'[w] = "except" /\ UNCHANGED done
    BY <1>10, InsideStep
  <2>2. cur[w] \in Queue!Tasks /\ cur[w][2] <= Len(calls[cur[w][1]])
    BY <2>1, Busy
  <2>3. Old(cur[w]) /\ ~WasExecuted(cur[w])
    BY <1>1, <2>1, <2>2 DEF Queue!TasksInv, Queue!Once
  <2>4. CASE UNCHANGED done /\ wpc'[w] = "except"
    <3>1. Kept(w)'
      BY <2>1, <2>3, <2>4 DEF WasExecuted
    <3>2. QED
      BY <1>1, <1>2, <1>3, <1>4, <2>1, <2>4, <3>1, OneWorker
  <2>5. CASE wpc'[w] = "set" /\ done' = Append(done, <<cur[w][1], cur[w][2], 1>>)
    <3>1. \A task \in Queue!Tasks : WasExecuted(task)' <=> WasExecuted(task) \/ task = cur[w]
      BY <2>1, <2>5, ExecutedStep
    <3>2. \A task \in Queue!Tasks : WasExecuted(task)' => Old(task)'
      BY <1>1, <1>4, <2>1, <2>3, <3>1
    <3>3. \A t : t = cur[w] => WasExecuted(t)'
      BY <2>2, <3>1
    <3>4. Kept(w)'
      BY <2>1, <2>5, <3>3 DEF WasExecuted
    <3>5. QED
      BY <1>2, <3>2, <3>4, OneWorker
  <2>6. QED
    BY <2>1, <2>4, <2>5
<1>11. CASE InitMongo \/ FreeContext \/ StopOperators
  BY <1>6, <1>11, OwnerFrame
<1>12. CASE UNCHANGED vars
  BY <1>6, <1>12 DEF vars, clientVars, dataVars
<1>13. QED
  BY <1>7, <1>8, <1>9, <1>10, <1>11, <1>12, NextCases DEF Inside

LEMMA InvStep == Inv /\ [Next]_vars => Inv'
BY TypeStep, QueueStep, CurStep, AnswerStep, DoneStep DEF Inv

LEMMA Invariance == Spec => []Inv
BY InitInv, InvStep, PTL DEF Spec

-----------------------------------------------------------------------------
(* The storage its clients see *)

\* The numbers of a client's calls that wait: what Storage is given for waiting.
Numbers == [c \in Clients |-> [i \in 1..Len(queue[1][c]) |-> queue[1][c][i][2]]]

LEMMA NumbersAre ==
  \A c \in Clients : Numbers[c] = Queue!Numbers(1, c) /\ (Numbers')[c] = Queue!Numbers(1, c)'
BY DEF Numbers, Queue!Numbers

\* A new event is behind those of its client; the one that is taken was their first.
LEMMA NumbersStep ==
  ASSUME Queue!TasksInv, NEW w \in Workers, NEW c \in Clients
  PROVE  /\ Queue!Accept(c, w) => Numbers' = [Numbers EXCEPT ![c] = Append(@, Len(calls[c]) + 1)]
         /\ Queue!Start(w, c) => /\ Numbers[c] # <<>>
                                 /\ Head(queue[w][c]) = <<c, Head(Numbers[c])>>
                                 /\ Numbers' = [Numbers EXCEPT ![c] = Tail(@)]
<1>1. w = 1 /\ 1 \in Workers
  BY OneWorker
<1>2. ASSUME NEW s, (Numbers')[c] = s, \A d \in Clients : d # c => (Numbers')[d] = Numbers[d]
      PROVE  Numbers' = [Numbers EXCEPT ![c] = s]
  BY <1>2 DEF Numbers
<1>3. ASSUME Queue!Accept(c, w)
      PROVE  Numbers' = [Numbers EXCEPT ![c] = Append(Numbers[c], Len(calls[c]) + 1)]
  <2>1. PICK n : n = Len(calls[c]) + 1
    OBVIOUS
  <2>2. /\ Queue!Numbers(1, c)' = Append(Queue!Numbers(1, c), n)
        /\ \A d \in Clients : d # c => Queue!Numbers(1, d)' = Queue!Numbers(1, d)
    BY <1>1, <1>3, <2>1, Queue!AcceptNumbers
  <2>3. /\ (Numbers')[c] = Append(Numbers[c], n)
        /\ \A d \in Clients : d # c => (Numbers')[d] = Numbers[d]
    BY <2>2, NumbersAre
  <2>4. QED
    BY <1>2, <2>1, <2>3
<1>4. ASSUME Queue!Start(w, c)
      PROVE  /\ Numbers[c] # <<>> /\ Head(queue[w][c]) = <<c, Head(Numbers[c])>>
             /\ Numbers' = [Numbers EXCEPT ![c] = Tail(Numbers[c])]
  <2>1. /\ Queue!Numbers(1, c) # <<>> /\ Head(queue[w][c]) = <<c, Head(Queue!Numbers(1, c))>>
        /\ Queue!Numbers(1, c)' = Tail(Queue!Numbers(1, c))
        /\ \A d \in Clients : d # c => Queue!Numbers(1, d)' = Queue!Numbers(1, d)
    BY <1>1, <1>4, Queue!StartNumbers
  <2>2. /\ Numbers[c] # <<>> /\ Head(queue[w][c]) = <<c, Head(Numbers[c])>>
        /\ (Numbers')[c] = Tail(Numbers[c])
        /\ \A d \in Clients : d # c => (Numbers')[d] = Numbers[d]
    BY <2>1, NumbersAre
  <2>3. QED
    BY <1>2, <2>2
<1>5. QED
  BY <1>3, <1>4 DEF Numbers

\* The operations of a client's calls: what Storage is given for them.
OpsOf == [c \in Clients |-> [n \in 1..Len(calls[c]) |-> calls[c][n].op]]

\* The call in execution is the one the thread has.
ActiveCalls == {cur[w] : w \in {v \in Workers : wpc[v] # "idle"}}

LEMMA ActiveIs ==
  ASSUME NEW w \in Workers
  PROVE  /\ ActiveCalls = IF wpc[w] = "idle" THEN {} ELSE {cur[w]}
         /\ ActiveCalls' = IF wpc'[w] = "idle" THEN {} ELSE {cur'[w]}
BY OneWorker DEF ActiveCalls

\* A call that is made adds its operation to those of its client.
LEMMA OpsOfStep ==
  ASSUME TypeOK, NEW c \in Clients, NEW event \in Prepared, NEW at \in Answers, Called(c, event, at)
  PROVE  OpsOf' = [OpsOf EXCEPT ![c] = Append(@, event.op)]
<1>1. PICK m : m = Len(calls[c])
  OBVIOUS
<1>2. /\ m \in Nat /\ Len(calls'[c]) = m + 1 /\ calls'[c][m + 1] = event
      /\ \A n \in 1..m : calls'[c][n] = calls[c][n]
      /\ \A d \in Clients \ {c} : calls'[d] = calls[d]
  BY <1>1, CalledStep
<1>3. PICK s, t : s = OpsOf[c] /\ t = (OpsOf')[c]
  OBVIOUS
<1>4. /\ s = [n \in 1..m |-> calls[c][n].op]
      /\ t = [n \in 1..m + 1 |-> calls'[c][n].op]
  BY <1>1, <1>2, <1>3 DEF OpsOf
<1>5. \A n \in 1..m : calls[c][n].op \in Ops
  <2>1. calls[c] \in Seq(Prepared)
    BY DEF TypeOK, CallTypes
  <2>2. \A n \in 1..m : calls[c][n] \in Prepared
    BY <1>1, <2>1, ElementOfSeq
  <2>3. QED
    BY <2>2, PreparedOp DEF Ops
<1>6. event.op \in Ops
  BY PreparedOp DEF Ops
<1>7. s \in Seq(Ops) /\ Len(s) = m
  <2>1. s \in [1..m -> Ops]
    BY <1>4, <1>5
  <2>2. s \in Seq(Ops)
    BY <1>2, <2>1, SeqDef
  <2>3. QED
    BY <1>2, <1>4, <2>2, LenProperties
<1>8. PICK op : op = event.op
  OBVIOUS
<1>9. Append(s, op) = t
  <2>1. /\ Append(s, op) \in Seq(Ops) /\ Len(Append(s, op)) = m + 1
        /\ Append(s, op)[m + 1] = op
        /\ \A n \in 1..m : Append(s, op)[n] = s[n]
    BY <1>6, <1>7, <1>8, AppendProperties
  <2>2. \A n \in 1..m : n \in 1..m + 1 /\ t[n] = s[n]
    <3>1. \A n \in 1..m : n \in 1..m + 1
      BY <1>2
    <3>2. \A n \in 1..m : s[n] = calls[c][n].op /\ calls'[c][n] = calls[c][n]
      BY <1>2, <1>4
    <3>3. \A n \in 1..m + 1 : t[n] = calls'[c][n].op
      BY <1>4
    <3>4. QED
      BY <3>1, <3>2, <3>3
  <2>3. t[m + 1] = op
    BY <1>2, <1>4, <1>8
  <2>4. t \in [1..m + 1 -> Ops]
    <3>1. \A n \in 1..m + 1 : n \in 1..m \/ n = m + 1
      BY <1>2
    <3>2. \A n \in 1..m : s[n] \in Ops
      BY <1>4, <1>5
    <3>3. \A n \in 1..m + 1 : t[n] \in Ops
      BY <1>6, <1>8, <2>2, <2>3, <3>1, <3>2
    <3>4. QED
      BY <1>4, <3>3
  <2>5. t \in Seq(Ops) /\ Len(t) = m + 1
    <3>1. t \in Seq(Ops)
      BY <1>2, <2>4, SeqDef
    <3>2. DOMAIN t = 1..m + 1
      BY <1>4
    <3>3. QED
      BY <1>2, <3>1, <3>2, LenProperties
  <2>6. \A n \in 1..m + 1 : Append(s, op)[n] = t[n]
    <3>1. \A n \in 1..m + 1 : n \in 1..m \/ n = m + 1
      BY <1>2
    <3>2. QED
      BY <2>1, <2>2, <2>3, <3>1
  <2>7. QED
    BY <2>1, <2>5, <2>6, SeqEqual
<1>10. (OpsOf')[c] = Append(OpsOf[c], event.op) /\ \A d \in Clients : d # c => (OpsOf')[d] = OpsOf[d]
  <2>1. \A d \in Clients : d # c => (OpsOf')[d] = OpsOf[d]
    BY <1>2 DEF OpsOf
  <2>2. QED
    BY <1>3, <1>8, <1>9, <2>1
<1>11. QED
  BY <1>10 DEF OpsOf

\* The event that is handled was executed, once, or not.
LEMMA DoneOfIs ==
  ASSUME TypeOK, CurInv, Queue!TasksInv, DoneInv, NEW w \in Workers, wpc[w] # "idle"
  PROVE  /\ OpsOf[cur[w][1]][cur[w][2]] \in Ops
         /\ Storage!DoneOf(cur[w][1], cur[w][2]) = IF wpc[w] = "set" THEN 1..1 ELSE 1..0
<1>1. /\ cur[w][1] \in Clients /\ cur[w][2] \in 1..Len(calls[cur[w][1]]) /\ Event(w).op \in Ops
      /\ WasExecuted(cur[w]) <=> wpc[w] = "set"
  BY Busy, PreparedOp DEF DoneInv, Ops
<1>2. OpsOf[cur[w][1]][cur[w][2]] = Event(w).op
  BY <1>1 DEF OpsOf, Event
<1>3. Storage!DoneOf(cur[w][1], cur[w][2]) =
         {i \in 1..[op \in Ops |-> 1][OpsOf[cur[w][1]][cur[w][2]]] :
             \E k \in 1..Len(done) : done[k] = <<cur[w][1], cur[w][2], i>>}
  BY DEF Storage!DoneOf, OpsOf
<1>4. [op \in Ops |-> 1][OpsOf[cur[w][1]][cur[w][2]]] = 1
  BY <1>1, <1>2
<1>5. 1..1 = {1} /\ 1..0 = {}
  OBVIOUS
<1>6. Storage!DoneOf(cur[w][1], cur[w][2]) = {i \in {1} : WasExecuted(cur[w])}
  BY <1>3, <1>4, <1>5 DEF WasExecuted
<1>7. QED
  BY <1>1, <1>2, <1>5, <1>6

LEMMA InitStorage == Init => Storage!StorageInit
<1> SUFFICES ASSUME Init PROVE Storage!StorageInit
  OBVIOUS
<1>1. Numbers = [c \in Clients |-> <<>>]
  <2>1. queue[1] = [c \in Clients |-> <<>>]
    BY OneWorker DEF Init, Events!TasksInit
  <2>2. \A c \in Clients : Numbers[c] = [i \in 1..0 |-> queue[1][c][i][2]]
    BY <2>1, EmptySeq DEF Numbers
  <2>3. \A c \in Clients : Numbers[c] = <<>>
    BY <2>2
  <2>4. QED
    BY <2>3 DEF Numbers
<1>2. OpsOf = [c \in Clients |-> <<>>]
  <2>1. \A c \in Clients : OpsOf[c] = [n \in 1..0 |-> calls[c][n].op]
    BY EmptySeq DEF Init, OpsOf
  <2>2. \A c \in Clients : OpsOf[c] = <<>>
    BY <2>1
  <2>3. QED
    BY <2>2 DEF OpsOf
<1>3. ActiveCalls = {}
  BY DEF Init, ActiveCalls
<1>4. QED
  BY <1>1, <1>2, <1>3 DEF Init, Storage!StorageInit, Numbers, OpsOf, ActiveCalls

\* Every step is one of the storage's, or none that a client sees.
LEMMA StorageStep == Inv /\ [Next]_vars => [Storage!StorageNext]_(Storage!storage)
<1> SUFFICES ASSUME Inv, [Next]_vars PROVE [Storage!StorageNext]_(Storage!storage)
  OBVIOUS
<1>0. TypeOK /\ CurInv /\ Queue!TasksInv /\ AnswerInv /\ DoneInv
  BY DEF Inv
<1>1. ASSUME UNCHANGED <<calls, answer, queue, done>>, UNCHANGED ActiveCalls
      PROVE  UNCHANGED Storage!storage
  BY <1>1 DEF Storage!storage, ActiveCalls
<1>2. ASSUME NEW c \in Clients, NEW event \in Prepared, Made(c, event)
      PROVE  \E kind \in Ops : Storage!Accept(c, kind) \/ Storage!Refuse(c, kind) \/ Storage!Lose(c, kind)
  <2>1. PICK op \in Ops : op = event.op
    BY PreparedOp DEF Ops
  <2>2. PICK m : m = Len(calls[c]) + 1 /\ Len(OpsOf[c]) + 1 = m
    <3>1. \A n : n = Len(calls[c]) => n \in Nat /\ OpsOf[c] = [i \in 1..n |-> calls[c][i].op]
      BY <1>0, LenProperties DEF OpsOf, TypeOK, CallTypes
    <3>2. \A n \in Nat : OpsOf[c] = [i \in 1..n |-> calls[c][i].op] => Len(OpsOf[c]) = n
      OBVIOUS
    <3>3. QED
      BY <3>1, <3>2
  <2>3. ASSUME NEW at \in Answers, Called(c, event, at), UNCHANGED cur
        PROVE  Storage!Called(c, op, at)
    <3>1. UNCHANGED <<wpc, done>> /\ answer' = [answer EXCEPT ![c] = Append(@, at)]
      BY <2>3 DEF Called, dataVars
    <3>2. UNCHANGED ActiveCalls
      BY <2>3, <3>1 DEF ActiveCalls
    <3>3. OpsOf' = [OpsOf EXCEPT ![c] = Append(@, op)]
      BY <1>0, <2>1, <2>3, OpsOfStep
    <3>4. QED
      BY <3>1, <3>2, <3>3 DEF Storage!Called, OpsOf, ActiveCalls
  <2>4. CASE event \in AllEvents /\ Inserted(c, event)
    <3>1. PICK w \in Workers : Queue!Accept(c, w)
      BY <2>4 DEF Inserted, Events!Accept, Queue!Accept
    <3>2. UNCHANGED cur /\ "none" \in Answers
      BY <3>1 DEF Queue!Accept, Answers
    <3>3. Numbers' = [Numbers EXCEPT ![c] = Append(@, m)]
      BY <1>0, <2>2, <3>1, NumbersStep
    <3>4. Storage!Called(c, op, "none")
      BY <2>3, <2>4, <3>2 DEF Inserted
    <3>5. Storage!Accept(c, op)
      BY <2>2, <3>3, <3>4 DEF Storage!Accept, Numbers, OpsOf
    <3>6. QED
      BY <3>5
  <2>5. CASE \E o \in CondOps : event = CondEvent(o, <<>>) /\ PrepareThrows(c, o)
    <3>1. Called(c, event, "exception") /\ UNCHANGED <<queue, cur>> /\ "exception" \in Answers
      BY <2>5 DEF PrepareThrows, Events!Refuse, Answers
    <3>2. Storage!Refuse(c, op)
      BY <2>3, <3>1 DEF Storage!Refuse
    <3>3. QED
      BY <3>2
  <2>6. CASE event \in AllEvents /\ InsertRefused(c, event)
    <3>1. Called(c, event, "none") /\ UNCHANGED <<queue, cur>> /\ "none" \in Answers
      BY <2>6 DEF InsertRefused, Events!Refuse, Answers
    <3>2. Storage!Lose(c, op)
      BY <2>3, <3>1 DEF Storage!Lose
    <3>3. QED
      BY <3>2
  <2>7. QED
    BY <1>2, <2>4, <2>5, <2>6 DEF Made
<1>3. ASSUME NEW w \in Workers, TakeEvent(w)
      PROVE  \E c \in Clients : Storage!Start(c)
  <2>1. /\ UNCHANGED <<calls, answer, done>> /\ wpc[w] = "idle" /\ wpc'[w] = "run"
    BY <1>0, <1>3, TakeStep
  <2>2. PICK c \in Clients : Queue!Start(w, c) /\ cur'[w] = Head(queue[w][c])
    BY <1>0, <1>3, TakenStep
  <2>3. /\ Numbers[c] # <<>> /\ Head(queue[w][c]) = <<c, Head(Numbers[c])>>
        /\ Numbers' = [Numbers EXCEPT ![c] = Tail(@)]
    BY <1>0, <2>2, NumbersStep
  <2>4. ActiveCalls = {} /\ ActiveCalls' = {<<c, Head(Numbers[c])>>}
    BY <2>1, <2>2, <2>3, ActiveIs
  <2>5. Storage!Start(c)
    BY <2>1, <2>3, <2>4 DEF Storage!Start, Numbers, ActiveCalls
  <2>6. QED
    BY <2>5
<1>4. ASSUME NEW w \in Workers, Inside(w)
      PROVE  \/ UNCHANGED Storage!storage
             \/ \E call \in ActiveCalls : Storage!Execute(call[1], call[2])
  <2>1. /\ UNCHANGED <<calls, queue, answer, cur>> /\ wpc[w] = "run" /\ wpc'[w] # "idle"
        /\ \/ done' = Append(done, <<cur[w][1], cur[w][2], 1>>)
           \/ UNCHANGED done
    BY <1>0, <1>4, InsideStep
  <2>2. ActiveCalls = {cur[w]} /\ UNCHANGED ActiveCalls
    BY <2>1, ActiveIs
  <2>3. CASE UNCHANGED done
    BY <1>1, <2>1, <2>2, <2>3
  <2>4. CASE done' = Append(done, <<cur[w][1], cur[w][2], 1>>)
    <3>1. /\ [op \in Ops |-> 1][OpsOf[cur[w][1]][cur[w][2]]] = 1
          /\ Storage!DoneOf(cur[w][1], cur[w][2]) = 1..1 - 1
      BY <1>0, <2>1, DoneOfIs
    <3>2. <<cur[w][1], cur[w][2]>> = cur[w]
      BY <1>0, <2>1, Busy DEF Queue!Tasks
    <3>3. 1 \in 1..[op \in Ops |-> 1][OpsOf[cur[w][1]][cur[w][2]]]
      BY <3>1
    <3>4. Storage!Execute(cur[w][1], cur[w][2])
      BY <2>1, <2>2, <2>4, <3>1, <3>2, <3>3 DEF Storage!Execute, OpsOf, ActiveCalls
    <3>5. QED
      BY <2>2, <3>4
  <2>5. QED
    BY <2>1, <2>3, <2>4
<1>5. ASSUME NEW w \in Workers, SetValue(w) \/ SetException(w)
      PROVE  \E call \in ActiveCalls : \E at \in {"value", "exception"} : Storage!Answer(call[1], call[2], at)
  <2>1. PICK at \in {"value", "exception"} :
            /\ answer' = [answer EXCEPT ![cur[w][1]][cur[w][2]] = at]
            /\ UNCHANGED <<calls, done>>
            /\ wpc[w] = (IF at = "value" THEN "set" ELSE "except") /\ wpc'[w] = "idle"
            /\ Queue!Finish(w)
    BY <1>0, <1>5, ResolveStep
  <2>2. wpc[w] # "idle" /\ UNCHANGED queue
    BY <2>1 DEF Queue!Finish
  <2>3. ActiveCalls = {cur[w]} /\ ActiveCalls' = {}
    BY <2>1, <2>2, ActiveIs
  <2>4. cur[w] \in Queue!Tasks /\ <<cur[w][1], cur[w][2]>> = cur[w]
    BY <1>0, <2>2, Busy DEF Queue!Tasks
  <2>5. answer[cur[w][1]][cur[w][2]] = "none"
    BY <1>0, <2>4 DEF AnswerInv
  <2>6. at = "value" => Storage!DoneOf(cur[w][1], cur[w][2]) = 1..[op \in Ops |-> 1][OpsOf[cur[w][1]][cur[w][2]]]
    <3>1. [op \in Ops |-> 1][OpsOf[cur[w][1]][cur[w][2]]] = 1
      BY <1>0, <2>2, DoneOfIs
    <3>2. QED
      BY <1>0, <2>1, <2>2, <3>1, DoneOfIs
  <2>7. Storage!Answer(cur[w][1], cur[w][2], at)
    BY <2>1, <2>2, <2>3, <2>4, <2>5, <2>6 DEF Storage!Answer, OpsOf, ActiveCalls
  <2>8. QED
    BY <2>3, <2>7
<1>6. CASE InitMongo \/ FreeContext \/ StopOperators \/ UNCHANGED vars
  <2>1. UNCHANGED <<calls, queue, answer, wpc, cur, done>>
    BY <1>6, OwnerFrame DEF vars, clientVars, dataVars
  <2>2. UNCHANGED ActiveCalls
    BY <2>1 DEF ActiveCalls
  <2>3. QED
    BY <1>1, <2>1, <2>2
<1>7. QED
  BY <1>2, <1>3, <1>4, <1>5, <1>6, NextCases DEF Storage!StorageNext, Inside, ActiveCalls

-----------------------------------------------------------------------------
(* What is written of an object, and what is found in it and fetched from it *)

\* The objects that clients make: nothing is held that was not noted.
LEMMA BlankIsObject == IsObject(Blank)
<1>1. <<>> \in Sons /\ <<>> \in Seq(Values) /\ <<>> \in Seq(Sons)
  <2>1. <<>> \in [{} -> Values] /\ {} \in SUBSET Fields
    OBVIOUS
  <2>2. QED
    BY <2>1, EmptySeq DEF Sons
<1>2. <<>> \in [Basics \cap {} -> Values]
  OBVIOUS
<1>3. QED
  BY <1>1, <1>2 DEF IsObject, Blank, Unassigned

LEMMA SetIs ==
  ASSUME NEW D, NEW f \in [D -> Values], NEW x, NEW val \in Values
  PROVE  Set(f, x, val) \in [D \cup {x} -> Values]
BY DEF Set

LEMMA ObjectsMade ==
  ASSUME NEW obj, IsObject(obj), DOMAIN obj = DOMAIN Blank
  PROVE  /\ \A m \in Basics, val \in Values : IsObject(Assign(obj, m, val))
         /\ \A m \in Lists, values \in Seq(Values) : IsObject(AssignList(obj, m, values))
         /\ \A m \in Structs, f \in Fields, val \in Values : IsObject(AssignSon(obj, m, f, val))
         /\ \A m \in StructLists, son \in Sons : IsObject(PushBack(obj, m, son))
<1>1. DOMAIN obj = {"seqset", "basic", "list", "son", "sons"}
  BY DEF Blank
<1>2. ASSUME NEW m \in Basics, NEW val \in Values PROVE IsObject(Assign(obj, m, val))
  <2>1. PICK new : new = Assign(obj, m, val)
    OBVIOUS
  <2>2. /\ new.seqset = obj.seqset \cup {m} /\ new.basic = Set(obj.basic, m, val)
        /\ new.list = obj.list /\ new.son = obj.son /\ new.sons = obj.sons
    BY <1>1, <2>1 DEF Assign
  <2>3. Set(obj.basic, m, val) \in [(Basics \cap obj.seqset) \cup {m} -> Values]
    BY SetIs DEF IsObject
  <2>4. (Basics \cap obj.seqset) \cup {m} = Basics \cap new.seqset /\ new.seqset \subseteq Names
    BY <2>2 DEF IsObject, Names
  <2>5. QED
    BY <2>1, <2>2, <2>3, <2>4 DEF IsObject
<1>3. ASSUME NEW m \in Names \ Basics PROVE Basics \cap (obj.seqset \cup {m}) = Basics \cap obj.seqset
  OBVIOUS
<1>4. \A m \in Lists \cup Structs \cup StructLists : m \in Names \ Basics
  BY NamesAssumption DEF Names
<1>5. ASSUME NEW m \in Lists, NEW values \in Seq(Values) PROVE IsObject(AssignList(obj, m, values))
  <2>1. PICK new : new = AssignList(obj, m, values)
    OBVIOUS
  <2>2. /\ new.seqset = obj.seqset \cup {m} /\ new.list = [obj.list EXCEPT ![m] = values]
        /\ new.basic = obj.basic /\ new.son = obj.son /\ new.sons = obj.sons
    BY <1>1, <2>1 DEF AssignList
  <2>3. QED
    BY <1>3, <1>4, <2>1, <2>2 DEF IsObject
<1>6. ASSUME NEW m \in Structs, NEW f \in Fields, NEW val \in Values PROVE IsObject(AssignSon(obj, m, f, val))
  <2>1. PICK new, son : new = AssignSon(obj, m, f, val) /\ son = Set(obj.son[m], f, val)
    OBVIOUS
  <2>2. /\ new.seqset = obj.seqset \cup {m} /\ new.son = [obj.son EXCEPT ![m] = son]
        /\ new.basic = obj.basic /\ new.list = obj.list /\ new.sons = obj.sons
    BY <1>1, <2>1 DEF AssignSon
  <2>3. son \in Sons
    <3>1. PICK assigned \in SUBSET Fields : obj.son[m] \in [assigned -> Values]
      <4>1. obj.son[m] \in Sons
        BY DEF IsObject
      <4>2. QED
        BY <4>1 DEF Sons
    <3>2. son \in [assigned \cup {f} -> Values] /\ assigned \cup {f} \in SUBSET Fields
      BY <2>1, <3>1, SetIs
    <3>3. QED
      BY <3>2 DEF Sons
  <2>4. QED
    BY <1>3, <1>4, <2>1, <2>2, <2>3 DEF IsObject
<1>7. ASSUME NEW m \in StructLists, NEW son \in Sons PROVE IsObject(PushBack(obj, m, son))
  <2>1. PICK new, sons : new = PushBack(obj, m, son) /\ sons = Append(obj.sons[m], son)
    OBVIOUS
  <2>2. /\ new.seqset = obj.seqset \cup {m} /\ new.sons = [obj.sons EXCEPT ![m] = sons]
        /\ new.basic = obj.basic /\ new.list = obj.list /\ new.son = obj.son
    BY <1>1, <2>1 DEF PushBack
  <2>3. sons \in Seq(Sons)
    <3>1. PICK old : old = obj.sons[m]
      OBVIOUS
    <3>2. old \in Seq(Sons) /\ sons = Append(old, son)
      BY <2>1, <3>1 DEF IsObject
    <3>3. QED
      BY <3>2, AppendProperties
  <2>4. QED
    BY <1>3, <1>4, <2>1, <2>2, <2>3 DEF IsObject
<1>8. QED
  BY <1>2, <1>5, <1>6, <1>7

\* The value of each member is found under its name, whose alias is no other's.
LEMMA WrittenAt ==
  ASSUME NEW alias, NEW values, NEW members, DOMAIN values \subseteq members,
         \A m, n \in members : GetName(alias, m) = GetName(alias, n) => m = n,
         NEW m \in members
  PROVE  /\ GetName(alias, m) \in DOMAIN Written(alias, values) <=> m \in DOMAIN values
         /\ m \in DOMAIN values => Written(alias, values)[GetName(alias, m)] = values[m]
<1>1. DOMAIN Written(alias, values) = {GetName(alias, n) : n \in DOMAIN values}
  BY DEF Written
<1>2. GetName(alias, m) \in DOMAIN Written(alias, values) <=> m \in DOMAIN values
  BY <1>1
<1>3. ASSUME m \in DOMAIN values
      PROVE  Written(alias, values)[GetName(alias, m)] = values[m]
  <2>1. PICK key : key = GetName(alias, m)
    OBVIOUS
  <2>2. (CHOOSE n \in DOMAIN values : GetName(alias, n) = key) = m
    BY <1>3, <2>1
  <2>3. key \in {GetName(alias, n) : n \in DOMAIN values}
    BY <1>3, <2>1
  <2>4. Written(alias, values)[key] = values[CHOOSE n \in DOMAIN values : GetName(alias, n) = key]
    BY <2>3 DEF Written
  <2>5. QED
    BY <2>1, <2>2, <2>4
<1>4. QED
  BY <1>2, <1>3

\* An object inside comes back from its document.
LEMMA SonIs ==
  ASSUME NEW son \in Sons
  PROVE  /\ \A f \in Fields : /\ GetName(FieldAlias, f) \in DOMAIN Written(FieldAlias, son) <=> f \in DOMAIN son
                              /\ f \in DOMAIN son => Written(FieldAlias, son)[GetName(FieldAlias, f)] = son[f]
         /\ Fetched(FieldAlias, Fields, Written(FieldAlias, son)) = son
<1>1. PICK assigned \in SUBSET Fields : son \in [assigned -> Values]
  BY DEF Sons
<1>2. DOMAIN son = assigned /\ DOMAIN son \subseteq Fields
  BY <1>1
<1>3. PICK doc : doc = Written(FieldAlias, son)
  OBVIOUS
<1>4. \A f \in Fields : /\ GetName(FieldAlias, f) \in DOMAIN doc <=> f \in DOMAIN son
                        /\ f \in DOMAIN son => doc[GetName(FieldAlias, f)] = son[f]
  <2>1. \A f, g \in Fields : GetName(FieldAlias, f) = GetName(FieldAlias, g) => f = g
    BY NamesAssumption
  <2>2. QED
    BY <1>2, <1>3, <2>1, WrittenAt
<1>5. {f \in Fields : GetName(FieldAlias, f) \in DOMAIN doc} = DOMAIN son
  BY <1>2, <1>4
<1>6. Fetched(FieldAlias, Fields, doc) = [f \in DOMAIN son |-> doc[GetName(FieldAlias, f)]]
  BY <1>5 DEF Fetched
<1>7. Fetched(FieldAlias, Fields, doc) = [f \in DOMAIN son |-> son[f]]
  BY <1>2, <1>4, <1>6
<1>8. Fetched(FieldAlias, Fields, doc) = son
  BY <1>1, <1>2, <1>7
<1>9. QED
  BY <1>3, <1>4, <1>8

\* The document of an object holds what was noted.
LEMMA WrittenIs ==
  ASSUME NEW obj, IsObject(obj), NEW m \in Names
  PROVE  LET key == GetName(Alias, m)
             doc == MakeWriteBson(obj)
         IN  /\ key \in DOMAIN doc <=> m \in obj.seqset
             /\ m \in obj.seqset /\ m \in Basics => doc[key] = obj.basic[m]
             /\ m \in obj.seqset /\ m \in Lists => doc[key] = obj.list[m]
             /\ m \in obj.seqset /\ m \in Structs => doc[key] = Written(FieldAlias, obj.son[m])
             /\ m \in obj.seqset /\ m \in StructLists =>
                   doc[key] = [i \in DOMAIN obj.sons[m] |-> Written(FieldAlias, obj.sons[m][i])]
<1>1. PICK values : values = [n \in obj.seqset |->
                                 CASE n \in Basics -> obj.basic[n]
                                   [] n \in Lists -> obj.list[n]
                                   [] n \in Structs -> Written(FieldAlias, obj.son[n])
                                   [] n \in StructLists -> [i \in DOMAIN obj.sons[n] |-> Written(FieldAlias, obj.sons[n][i])]]
  OBVIOUS
<1>2. MakeWriteBson(obj) = Written(Alias, values)
  BY <1>1 DEF MakeWriteBson
<1>3. DOMAIN values = obj.seqset /\ DOMAIN values \subseteq Names
  BY <1>1 DEF IsObject
<1>4. \A n, k \in Names : GetName(Alias, n) = GetName(Alias, k) => n = k
  BY NamesAssumption
<1>5. /\ GetName(Alias, m) \in DOMAIN Written(Alias, values) <=> m \in DOMAIN values
      /\ m \in DOMAIN values => Written(Alias, values)[GetName(Alias, m)] = values[m]
  BY <1>3, <1>4, WrittenAt
<1>6. m \in obj.seqset =>
         /\ m \in Basics => values[m] = obj.basic[m]
         /\ m \in Lists => values[m] = obj.list[m]
         /\ m \in Structs => values[m] = Written(FieldAlias, obj.son[m])
         /\ m \in StructLists => values[m] = [i \in DOMAIN obj.sons[m] |-> Written(FieldAlias, obj.sons[m][i])]
  BY <1>1, NamesAssumption
<1>7. QED
  BY <1>2, <1>3, <1>5, <1>6

\* From an array of one document the object that it was made of is fetched.
LEMMA FetchSonsOne ==
  ASSUME NEW doc, NEW m \in StructLists, GetName(Alias, m) \in DOMAIN doc,
         NEW sons \in Seq(Sons), Len(sons) = 1,
         doc[GetName(Alias, m)] = [i \in DOMAIN sons |-> Written(FieldAlias, sons[i])]
  PROVE  FetchSons(doc, m) = sons
<1>1. sons[1] \in Sons /\ sons = <<sons[1]>> /\ DOMAIN sons = 1..1
  BY ElementOfSeq
<1>2. PICK son \in Sons : son = sons[1]
  BY <1>1
<1>3. PICK docs : docs = [i \in DOMAIN sons |-> Written(FieldAlias, sons[i])]
  OBVIOUS
<1>4. Len(docs) = 1 /\ docs[1] = Written(FieldAlias, son)
  BY <1>1, <1>2, <1>3
<1> DEFINE With(f) == {i \in 1..Len(docs) : GetName(FieldAlias, f) \in DOMAIN docs[i]}
           lists == Fetched(Alias, StructLists, doc)
<1>5. m \in DOMAIN lists /\ lists[m] = docs
  BY <1>3 DEF Fetched
<1>6. FetchSons(doc, m) = << [f \in {g \in Fields : With(g) # {}} |-> docs[Max(With(f))][GetName(FieldAlias, f)]] >>
  BY <1>5, Zenon DEF FetchSons
<1>7. \A f \in Fields : With(f) = IF f \in DOMAIN son THEN {1} ELSE {}
  BY <1>4, SonIs
<1>8. Max({1}) = 1
  BY DEF Max
<1> HIDE DEF With
<1>9. {g \in Fields : With(g) # {}} = DOMAIN son
  BY <1>2, <1>7 DEF Sons
<1>10. \A f \in DOMAIN son : docs[Max(With(f))][GetName(FieldAlias, f)] = son[f]
  <2>1. ASSUME NEW f \in DOMAIN son
        PROVE  docs[Max(With(f))][GetName(FieldAlias, f)] = son[f]
    <3>1. f \in Fields
      BY <1>9
    <3>2. Max(With(f)) = 1
      BY <1>7, <1>8, <3>1
    <3>3. Written(FieldAlias, son)[GetName(FieldAlias, f)] = son[f]
      BY <3>1, SonIs
    <3>4. QED
      BY <1>4, <3>2, <3>3
  <2>2. QED
    BY <2>1
<1>11. [f \in {g \in Fields : With(g) # {}} |-> docs[Max(With(f))][GetName(FieldAlias, f)]] = son
  <2>1. son = [f \in DOMAIN son |-> son[f]]
    BY DEF Sons
  <2>2. QED
    BY <1>9, <1>10, <2>1
<1>12. QED
  BY <1>1, <1>2, <1>6, <1>11

\* What is fetched from the document of an object is what its client saw in it, as
\* long as its lists of objects have one.
LEMMA RoundTrip ==
  ASSUME NEW obj, IsObject(obj), \A m \in StructLists : Len(obj.sons[m]) = 1
  PROVE  Entity(FetchMongoResult(MakeWriteBson(obj))) = Entity(obj)
<1>1. PICK doc : doc = MakeWriteBson(obj)
  OBVIOUS
<1>2. \A m \in Names :
         /\ GetName(Alias, m) \in DOMAIN doc <=> m \in obj.seqset
         /\ m \in obj.seqset /\ m \in Basics => doc[GetName(Alias, m)] = obj.basic[m]
         /\ m \in obj.seqset /\ m \in Lists => doc[GetName(Alias, m)] = obj.list[m]
         /\ m \in obj.seqset /\ m \in Structs => doc[GetName(Alias, m)] = Written(FieldAlias, obj.son[m])
         /\ m \in obj.seqset /\ m \in StructLists =>
               doc[GetName(Alias, m)] = [i \in DOMAIN obj.sons[m] |-> Written(FieldAlias, obj.sons[m][i])]
  BY <1>1, WrittenIs
<1>3. Fetched(Alias, Basics, doc) = obj.basic
  <2>1. {m \in Basics : GetName(Alias, m) \in DOMAIN doc} = Basics \cap obj.seqset
    BY <1>2 DEF Names
  <2>2. Fetched(Alias, Basics, doc) = [m \in Basics \cap obj.seqset |-> doc[GetName(Alias, m)]]
    BY <2>1 DEF Fetched
  <2>3. \A m \in Basics \cap obj.seqset : doc[GetName(Alias, m)] = obj.basic[m]
    BY <1>2 DEF Names
  <2>4. QED
    BY <2>2, <2>3 DEF IsObject
<1>4. ASSUME NEW members, members \subseteq Names, NEW m \in members
      PROVE  /\ m \in DOMAIN Fetched(Alias, members, doc) <=> m \in obj.seqset
             /\ m \in obj.seqset => Fetched(Alias, members, doc)[m] = doc[GetName(Alias, m)]
  BY <1>2, <1>4 DEF Fetched
<1>5. FetchMongoResult(doc).list = obj.list
  <2>1. PICK lists : lists = Fetched(Alias, Lists, doc)
    OBVIOUS
  <2>2. ASSUME NEW m \in Lists
        PROVE  /\ m \in DOMAIN lists <=> m \in obj.seqset
               /\ m \in obj.seqset => lists[m] = obj.list[m]
    <3>1. m \in Names /\ Lists \subseteq Names
      BY DEF Names
    <3>2. /\ m \in DOMAIN lists <=> m \in obj.seqset
          /\ m \in obj.seqset => lists[m] = doc[GetName(Alias, m)]
      BY <1>4, <2>1, <3>1
    <3>3. QED
      BY <1>2, <3>1, <3>2
  <2>3. [m \in Lists |-> IF m \in DOMAIN lists THEN lists[m] ELSE <<>>] = obj.list
    BY <2>2 DEF IsObject
  <2>4. FetchMongoResult(doc).list = [m \in Lists |-> IF m \in DOMAIN lists THEN lists[m] ELSE <<>>]
    BY <2>1 DEF FetchMongoResult, Blank
  <2>5. QED
    BY <2>3, <2>4
<1>6. [m \in Structs |-> FetchSon(doc, m)] = obj.son
  <2>1. PICK found : found = Fetched(Alias, Structs, doc)
    OBVIOUS
  <2>2. ASSUME NEW m \in Structs PROVE FetchSon(doc, m) = obj.son[m]
    <3>1. m \in Names /\ obj.son[m] \in Sons
      BY DEF Names, IsObject
    <3>2. /\ m \in DOMAIN found <=> m \in obj.seqset
          /\ m \in obj.seqset => found[m] = Written(FieldAlias, obj.son[m])
      <4>1. Structs \subseteq Names
        BY DEF Names
      <4>2. /\ m \in DOMAIN found <=> m \in obj.seqset
            /\ m \in obj.seqset => found[m] = doc[GetName(Alias, m)]
        BY <1>4, <2>1, <4>1
      <4>3. QED
        BY <1>2, <3>1, <4>2
    <3>3. FetchSon(doc, m) = IF m \in DOMAIN found THEN Fetched(FieldAlias, Fields, found[m]) ELSE Unassigned
      BY <2>1 DEF FetchSon
    <3>4. m \notin obj.seqset => obj.son[m] = Unassigned
      BY DEF IsObject
    <3>5. QED
      BY <3>1, <3>2, <3>3, <3>4, SonIs
  <2>3. QED
    BY <2>2 DEF IsObject
<1>7. [m \in StructLists |-> FetchSons(doc, m)] = obj.sons
  <2>1. ASSUME NEW m \in StructLists PROVE FetchSons(doc, m) = obj.sons[m]
    <3>1. obj.sons[m] \in Seq(Sons) /\ Len(obj.sons[m]) = 1
      BY DEF IsObject
    <3>2. m \in obj.seqset
      <4>1. m \notin obj.seqset => obj.sons[m] = <<>>
        BY DEF IsObject
      <4>2. \A sons : Len(sons) = 1 => sons # <<>>
        OBVIOUS
      <4>3. QED
        BY <3>1, <4>1, <4>2
    <3>3. m \in Names
      BY DEF Names
    <3>4. /\ GetName(Alias, m) \in DOMAIN doc
          /\ doc[GetName(Alias, m)] = [i \in DOMAIN obj.sons[m] |-> Written(FieldAlias, obj.sons[m][i])]
      BY <1>2, <3>2, <3>3
    <3>5. QED
      BY <3>1, <3>4, FetchSonsOne
  <2>2. QED
    BY <2>1 DEF IsObject
<1>8. /\ FetchMongoResult(doc).basic = obj.basic
      /\ FetchMongoResult(doc).son = obj.son /\ FetchMongoResult(doc).sons = obj.sons
  BY <1>3, <1>6, <1>7 DEF FetchMongoResult, Blank
<1>9. QED
  BY <1>1, <1>5, <1>8 DEF Entity

\* A comparison that names its members as their documents do
ComparesStored(c) == /\ GetName(Alias, c.mem[1]) = c.mem[1]
                     /\ Len(c.mem) = 2 => GetName(FieldAlias, c.mem[2]) = c.mem[2]

\* Under such a name the server finds what the object holds.
LEMMA FoundIs ==
  ASSUME NEW obj, IsObject(obj), NEW c, IsCondition(c), c.op # "in", ComparesStored(c)
  PROVE  Found(MakeWriteBson(obj), c.mem) = Held(Entity(obj), c.mem)
<1>1. PICK doc, held : doc = MakeWriteBson(obj) /\ held = Entity(obj)
  OBVIOUS
<1>2. held.basic = obj.basic /\ held.son = obj.son /\ held.sons = obj.sons
  BY <1>1 DEF Entity
<1>3. ASSUME NEW m \in Names, GetName(Alias, m) = m, NEW members, members \subseteq Names
      PROVE  (\E n \in members : GetName(Alias, n) = m) <=> m \in members
  BY <1>3, NamesAssumption
<1>4. ASSUME NEW m \in Basics, c.mem = <<m>>
      PROVE  Found(doc, c.mem) = Held(held, c.mem)
  <2>1. m \in Names /\ GetName(Alias, m) = m /\ m \notin Lists /\ Lists \subseteq Names
    BY <1>4, NamesAssumption DEF Names, ComparesStored
  <2>2. /\ m \in DOMAIN doc <=> m \in obj.seqset
        /\ m \in obj.seqset => doc[m] = obj.basic[m]
    <3>1. /\ GetName(Alias, m) \in DOMAIN doc <=> m \in obj.seqset
          /\ m \in obj.seqset /\ m \in Basics => doc[GetName(Alias, m)] = obj.basic[m]
      BY <1>1, <2>1, WrittenIs
    <3>2. QED
      BY <1>4, <2>1, <3>1
  <2>3. DOMAIN obj.basic = Basics \cap obj.seqset
    BY DEF IsObject
  <2>4. At(doc, m) = At(obj.basic, m)
    BY <2>2, <2>3 DEF At
  <2>5. ~ \E n \in Lists : GetName(Alias, n) = m
    BY <1>3, <2>1
  <2>6. Len(c.mem) = 1 /\ c.mem[1] = m
    BY <1>4
  <2>7. Found(doc, c.mem) = At(doc, m)
    BY <2>5, <2>6 DEF Found
  <2>8. Held(held, c.mem) = At(obj.basic, m)
    BY <1>2, <2>6 DEF Held
  <2>9. QED
    BY <2>4, <2>7, <2>8
<1>5. ASSUME NEW m \in Structs \cup StructLists, NEW f \in Fields, c.mem = <<m, f>>
      PROVE  Found(doc, c.mem) = Held(held, c.mem)
  <2>1. Len(c.mem) = 2 /\ Len(c.mem) # 1 /\ c.mem[1] = m /\ c.mem[2] = f
    BY <1>5
  <2>2. m \in Names /\ GetName(Alias, m) = m /\ GetName(FieldAlias, f) = f /\ Structs \subseteq Names /\ StructLists \subseteq Names
    BY <2>1 DEF Names, ComparesStored
  <2>3. /\ m \in DOMAIN doc <=> m \in obj.seqset
        /\ m \in obj.seqset /\ m \in Structs => doc[m] = Written(FieldAlias, obj.son[m])
        /\ m \in obj.seqset /\ m \in StructLists =>
              doc[m] = [i \in DOMAIN obj.sons[m] |-> Written(FieldAlias, obj.sons[m][i])]
    BY <1>1, <2>2, WrittenIs
  <2>4. ASSUME NEW son \in Sons
        PROVE  At(Written(FieldAlias, son), f) = At(son, f)
    BY <2>2, SonIs DEF At
  <2>5. At(<<>>, f) = {} /\ Range(<<>>) = {}
    BY DEF At, Range
  <2>6. /\ Found(doc, c.mem) = UNION {At(d, f) : d \in IF m \in Structs THEN At(doc, m)
                                                       ELSE IF m \in StructLists THEN UNION {Range(a) : a \in At(doc, m)} ELSE {}}
    BY <1>3, <2>1, <2>2 DEF Found
  <2>7. Held(held, c.mem) = UNION {At(d, f) : d \in At(obj.son, m) \cup UNION {Range(s) : s \in At(obj.sons, m)}}
    BY <1>2, <2>1 DEF Held
  <2>8. CASE m \in Structs
    <3>1. m \notin StructLists /\ DOMAIN obj.son = Structs /\ DOMAIN obj.sons = StructLists /\ obj.son[m] \in Sons
      BY <2>8, NamesAssumption DEF IsObject
    <3>2. At(obj.son, m) = {obj.son[m]} /\ At(obj.sons, m) = {}
      BY <2>8, <3>1 DEF At
    <3>3. Held(held, c.mem) = At(obj.son[m], f)
      BY <2>7, <3>2
    <3>4. Found(doc, c.mem) = UNION {At(d, f) : d \in At(doc, m)}
      BY <2>6, <2>8
    <3>5. CASE m \in obj.seqset
      <4>1. At(doc, m) = {Written(FieldAlias, obj.son[m])}
        BY <2>3, <2>8, <3>5 DEF At
      <4>2. QED
        BY <2>4, <3>1, <3>3, <3>4, <4>1
    <3>6. CASE m \notin obj.seqset
      <4>1. At(doc, m) = {} /\ obj.son[m] = <<>>
        BY <2>3, <2>8, <3>6 DEF At, IsObject, Unassigned
      <4>2. QED
        BY <2>5, <3>3, <3>4, <4>1
    <3>7. QED
      BY <3>5, <3>6
  <2>9. CASE m \in StructLists
    <3>1. m \notin Structs /\ DOMAIN obj.son = Structs /\ DOMAIN obj.sons = StructLists /\ obj.sons[m] \in Seq(Sons)
      BY <2>9, NamesAssumption DEF IsObject
    <3>2. At(obj.son, m) = {} /\ At(obj.sons, m) = {obj.sons[m]}
      BY <2>9, <3>1 DEF At
    <3>3. Held(held, c.mem) = UNION {At(d, f) : d \in Range(obj.sons[m])}
      BY <2>7, <3>2
    <3>4. Found(doc, c.mem) = UNION {At(d, f) : d \in UNION {Range(a) : a \in At(doc, m)}}
      BY <2>6, <2>9, <3>1
    <3>5. CASE m \in obj.seqset
      <4>1. PICK sons \in Seq(Sons) : sons = obj.sons[m]
        BY <3>1
      <4>2. PICK docs : docs = [i \in DOMAIN sons |-> Written(FieldAlias, sons[i])]
        OBVIOUS
      <4>3. At(doc, m) = {docs}
        BY <2>3, <2>9, <3>5, <4>1, <4>2 DEF At
      <4>4. Found(doc, c.mem) = UNION {At(d, f) : d \in Range(docs)}
        BY <3>4, <4>3
      <4>5. \A i \in DOMAIN sons : At(docs[i], f) = At(sons[i], f)
        <5>1. \A i \in DOMAIN sons : sons[i] \in Sons
          BY ElementOfSeq, LenProperties
        <5>2. QED
          BY <2>4, <4>2, <5>1
      <4>6. DOMAIN docs = DOMAIN sons
        BY <4>2
      <4>7. UNION {At(d, f) : d \in Range(docs)} = UNION {At(d, f) : d \in Range(sons)}
        BY <4>5, <4>6 DEF Range
      <4>8. QED
        BY <3>3, <4>1, <4>4, <4>7
    <3>6. CASE m \notin obj.seqset
      <4>1. At(doc, m) = {} /\ obj.sons[m] = <<>>
        BY <2>3, <2>9, <3>6 DEF At, IsObject
      <4>2. UNION {At(d, f) : d \in {}} = {}
        OBVIOUS
      <4>3. QED
        BY <2>5, <3>3, <3>4, <4>1, <4>2
    <3>7. QED
      BY <3>5, <3>6
  <2>10. QED
    BY <2>8, <2>9
<1>6. QED
  BY <1>1, <1>4, <1>5 DEF IsCondition

\* A condition that keeps its meaning in the filter, or is rejected.
AsStored(c) == IsCondition(c) /\ (c.op = "in" \/ (c.op = "==" /\ ComparesStored(c)))

\* A server that does not reject them compares as the conditions ask.
LEMMA AsksTheSame ==
  ASSUME NEW obj, IsObject(obj), NEW conds, conds \in Seq(Range(conds)), ~Rejects(MakeCondBson(conds)),
         \A i \in 1..Len(conds) : AsStored(conds[i])
  PROVE  Matches(MakeWriteBson(obj), MakeCondBson(conds)) <=> Asked(Entity(obj), conds)
<1>1. DOMAIN conds = 1..Len(conds)
  BY LenProperties
<1>2. MakeCondBson(conds) = {[mem |-> conds[i].mem, value |-> conds[i].value, eleMatch |-> conds[i].op = "in"]
                                : i \in 1..Len(conds)}
  BY <1>1 DEF MakeCondBson, Range
<1>3. ASSUME NEW i \in 1..Len(conds) PROVE conds[i].op # "in"
  <2>1. PICK c : c = conds[i]
    OBVIOUS
  <2>2. [mem |-> c.mem, value |-> c.value, eleMatch |-> c.op = "in"] \in MakeCondBson(conds)
    BY <1>2, <2>1
  <2>3. ~ [mem |-> c.mem, value |-> c.value, eleMatch |-> c.op = "in"].eleMatch
    BY <2>2, Zenon DEF Rejects
  <2>4. QED
    BY <2>1, <2>3
<1>4. \A i \in 1..Len(conds) : Holds(Entity(obj), conds[i]) <=> conds[i].value \in Found(MakeWriteBson(obj), conds[i].mem)
  <2> SUFFICES ASSUME NEW i \in 1..Len(conds)
               PROVE  Holds(Entity(obj), conds[i]) <=> conds[i].value \in Found(MakeWriteBson(obj), conds[i].mem)
    OBVIOUS
  <2>1. PICK c : c = conds[i]
    OBVIOUS
  <2>2. IsCondition(c) /\ c.op = "==" /\ c.op # "in" /\ ComparesStored(c)
    BY <1>3, <2>1 DEF AsStored
  <2>3. Found(MakeWriteBson(obj), c.mem) = Held(Entity(obj), c.mem)
    BY <2>2, FoundIs
  <2>4. QED
    BY <2>1, <2>2, <2>3 DEF Holds
<1>5. Matches(MakeWriteBson(obj), MakeCondBson(conds)) <=>
         \A i \in 1..Len(conds) : conds[i].value \in Found(MakeWriteBson(obj), conds[i].mem)
  <2>1. PICK doc, n : doc = MakeWriteBson(obj) /\ n = Len(conds)
    OBVIOUS
  <2>2. PICK filter : filter = MakeCondBson(conds)
    OBVIOUS
  <2>3. ASSUME NEW i \in 1..n, Matches(doc, filter)
        PROVE  conds[i].value \in Found(doc, conds[i].mem)
    <3>1. PICK c, e : c = conds[i] /\ e = [mem |-> c.mem, value |-> c.value, eleMatch |-> c.op = "in"]
      OBVIOUS
    <3>2. e \in filter /\ e.mem = c.mem /\ e.value = c.value
      BY <1>2, <2>1, <2>2, <3>1
    <3>3. QED
      BY <2>3, <3>1, <3>2 DEF Matches
  <2>4. ASSUME \A i \in 1..n : conds[i].value \in Found(doc, conds[i].mem), NEW e \in filter
        PROVE  e.value \in Found(doc, e.mem)
    <3>1. PICK i \in 1..n : e = [mem |-> conds[i].mem, value |-> conds[i].value, eleMatch |-> conds[i].op = "in"]
      BY <1>2, <2>1, <2>2
    <3>2. e.mem = conds[i].mem /\ e.value = conds[i].value
      BY <3>1
    <3>3. QED
      BY <2>4, <3>2
  <2>5. QED
    BY <2>1, <2>2, <2>3, <2>4 DEF Matches
<1>6. QED
  BY <1>4, <1>5 DEF Asked

-----------------------------------------------------------------------------
(* What is read *)

\* Lists of objects come back when they have one (ref.h:365), comparisons are taken
\* for "==" (mongo_readref.h:158-162), and a member is compared under its own name
\* (ref_ops.h:456) but stored under its alias (ref_ops.h:531, 557, 596).
ListsOfOne == \A obj \in Objects, m \in StructLists : Len(obj.sons[m]) = 1
ComparesEqual == \A ask \in Asks : \A i \in 1..Len(ask[2]) : ask[2][i].op \in {"==", "in"}
ComparesUnaliased == \A ask \in Asks : \A i \in 1..Len(ask[2]) : ask[2][i].op = "==" => ComparesStored(ask[2][i])

LEMMA AskedEvent ==
  ASSUME ComparesEqual, ComparesUnaliased, NEW event \in Prepared, event.op \in CondOps
  PROVE  /\ event.conds \in Seq(Range(event.conds)) /\ event.filter = MakeCondBson(event.conds)
         /\ \A i \in 1..Len(event.conds) : AsStored(event.conds[i])
<1>1. CASE \E ask \in Asks : event = CondEvent(ask[1], ask[2])
  <2>1. PICK ask \in Asks : event = CondEvent(ask[1], ask[2])
    BY <1>1
  <2>2. PICK conds : conds = ask[2]
    OBVIOUS
  <2>3. event.conds = conds /\ event.filter = MakeCondBson(conds)
    BY <2>1, <2>2 DEF CondEvent
  <2>4. /\ conds \in Seq(Range(conds))
        /\ \A i \in 1..Len(conds) : AsStored(conds[i])
    BY <2>2, CallsAssumption DEF ComparesEqual, ComparesUnaliased, AsStored
  <2>5. QED
    BY <2>3, <2>4
<1>2. CASE \E op \in CondOps : event = CondEvent(op, <<>>)
  <2>1. event.conds = <<>> /\ event.filter = MakeCondBson(<<>>)
    BY <1>2 DEF CondEvent
  <2>2. <<>> \in Seq(Range(<<>>)) /\ Len(<<>>) = 0
    OBVIOUS
  <2>3. QED
    BY <2>1, <2>2
<1>3. QED
  BY <1>1, <1>2 DEF Prepared, AllEvents, WriteEvent, CondOps

\* What a read has is what the conditions ask for.
ReadsTheSame(op, entities, asked) ==
    LET got == [k \in 1..Len(entities) |-> Entity(entities[k])]
    IN  IF op = "read_list" THEN got = asked ELSE asked # <<>> => got = <<asked[1]>>

LEMMA FindReads ==
  ASSUME ListsOfOne, ComparesEqual, ComparesUnaliased, TypeOK, CurInv, Queue!TasksInv, NEW w \in Workers, Find(w)
  PROVE  ReadsTheSame(Event(w).op, ret'[w].entities, AskedOf(want, Event(w).conds))
<1>1. Event(w) \in Prepared /\ Event(w).op \in {"read", "read_list"}
  BY Busy DEF Find, Runs
<1>2. PICK conds, filter : conds = Event(w).conds /\ filter = Event(w).filter
  OBVIOUS
<1>3. /\ conds \in Seq(Range(conds)) /\ filter = MakeCondBson(conds)
      /\ \A i \in 1..Len(conds) : AsStored(conds[i])
  BY <1>1, <1>2, AskedEvent DEF CondOps
<1>4. ~Rejects(filter)
  BY <1>2 DEF Find
<1>5. ret'[w].entities = IF Event(w).op = "read" THEN <<ReadOne(filter)>> ELSE ReadAll(filter)
  BY <1>2 DEF Find, Executed, Nothing, TypeOK, WorkerTypes
<1>6. /\ coll \in Seq(Bsons) /\ want \in Seq(Contents) /\ Len(want) = Len(coll)
      /\ \A i \in 1..Len(coll) : Matched(coll[i], want[i])
  BY DataTypesIs DEF TypeOK
<1>7. PICK n : n = Len(coll) /\ n = Len(want) /\ n \in Nat
  BY <1>6, LenProperties
<1>8. \A i \in 1..n : /\ Matches(coll[i], filter) <=> Asked(want[i], conds)
                      /\ Entity(FetchMongoResult(coll[i])) = want[i]
  <2> SUFFICES ASSUME NEW i \in 1..n
               PROVE  /\ Matches(coll[i], filter) <=> Asked(want[i], conds)
                      /\ Entity(FetchMongoResult(coll[i])) = want[i]
    OBVIOUS
  <2>1. PICK obj \in Objects : coll[i] = MakeWriteBson(obj) /\ want[i] = Entity(obj)
    BY <1>6, <1>7 DEF Matched
  <2>2. IsObject(obj)
    BY CallsAssumption
  <2>3. Matches(MakeWriteBson(obj), filter) <=> Asked(Entity(obj), conds)
    BY <1>3, <1>4, <2>2, AsksTheSame
  <2>4. Entity(FetchMongoResult(MakeWriteBson(obj))) = Entity(obj)
    BY <2>2, RoundTrip DEF ListsOfOne
  <2>5. QED
    BY <2>1, <2>3, <2>4
<1>9. PICK S : S = Indices(filter) /\ S = {i \in 1..Len(want) : Asked(want[i], conds)}
  BY <1>7, <1>8 DEF Indices
<1>10. PICK found, m : found = Ascending(n, S) /\ m = Len(found)
  OBVIOUS
<1>11. m \in Nat /\ found \in Seq(S) /\ \A k \in 1..m : found[k] \in 1..n
  <2>1. S \subseteq 1..n
    BY <1>7, <1>9
  <2>2. found \in Seq(S) /\ m = Cardinality(S) /\ m \in Nat /\ \A k \in 1..m : found[k] \in S
    <3>1. /\ Ascending(n, S) \in Seq(S)
          /\ Len(Ascending(n, S)) = Cardinality(S) /\ Cardinality(S) \in Nat
          /\ \A k \in 1..Cardinality(S) : Ascending(n, S)[k] \in S
      BY <1>7, <2>1, AscendingIs, AscendingCounts
    <3>2. QED
      BY <1>10, <3>1
  <2>3. QED
    BY <2>1, <2>2
<1>12. AskedOf(want, conds) = [k \in 1..m |-> want[found[k]]]
  BY <1>7, <1>9, <1>10 DEF AskedOf
<1>13. Cursor(filter) = found
  BY <1>7, <1>9, <1>10 DEF Cursor
<1>14. PICK asked : asked = AskedOf(want, conds)
  OBVIOUS
<1>15. CASE Event(w).op = "read_list"
  <2>1. PICK all : all = ret'[w].entities
    OBVIOUS
  <2>2. all = [k \in 1..m |-> FetchMongoResult(coll[found[k]])]
    BY <1>5, <1>10, <1>13, <1>15, <2>1 DEF ReadAll
  <2>3. Len(all) = m
    BY <1>11, <2>2
  <2>4. \A k \in 1..m : Entity(all[k]) = want[found[k]]
    BY <1>8, <1>11, <2>2
  <2>5. [k \in 1..Len(all) |-> Entity(all[k])] = asked
    BY <1>12, <1>14, <2>3, <2>4
  <2>6. QED
    BY <1>2, <1>14, <1>15, <2>1, <2>5 DEF ReadsTheSame
<1>16. CASE Event(w).op = "read"
  <2>1. SUFFICES ASSUME asked # <<>>
                 PROVE  [k \in 1..Len(ret'[w].entities) |-> Entity(ret'[w].entities[k])] = <<asked[1]>>
    BY <1>2, <1>14, <1>16 DEF ReadsTheSame
  <2>2. m # 0
    BY <1>12, <1>14, <2>1
  <2>3. 1 \in 1..m /\ found # <<>> /\ Head(found) = found[1]
    BY <1>10, <1>11, <2>2
  <2>4. asked[1] = want[found[1]]
    BY <1>12, <1>14, <2>3
  <2>5. PICK one : one = FetchMongoResult(coll[found[1]])
    OBVIOUS
  <2>6. ret'[w].entities = <<one>>
    BY <1>5, <1>13, <1>16, <2>3, <2>5 DEF ReadOne
  <2>7. Entity(one) = asked[1]
    BY <1>8, <1>11, <2>3, <2>4, <2>5
  <2>8. QED
    BY <2>6, <2>7
<1>17. QED
  BY <1>1, <1>15, <1>16

LEMMA ReadsIs ==
  ReadsWhatWasWritten <=>
     \A w \in Workers :
        wpc[w] = "set" /\ Event(w).op \in {"read", "read_list"} =>
           ReadsTheSame(Event(w).op, ret[w].entities, AskedOf(want, Event(w).conds))
BY DEF ReadsWhatWasWritten, ReadsTheSame

\* It is read in one step, and nobody changes it until the promise has it.
LEMMA ReadsStep ==
  ASSUME ListsOfOne, ComparesEqual, ComparesUnaliased, Inv, ReadsWhatWasWritten, [Next]_vars
  PROVE  ReadsWhatWasWritten'
<1>0. TypeOK /\ CurInv /\ Queue!TasksInv
  BY DEF Inv
<1> DEFINE Reads(w) == wpc[w] = "set" /\ Event(w).op \in {"read", "read_list"} =>
                          ReadsTheSame(Event(w).op, ret[w].entities, AskedOf(want, Event(w).conds))
<1>1. \A w \in Workers : Reads(w)
  BY ReadsIs
<1>2. SUFFICES ASSUME NEW w \in Workers, wpc'[w] = "set" PROVE Reads(w)'
  BY DEF ReadsWhatWasWritten, ReadsTheSame
<1>3. ASSUME UNCHANGED <<wpc, cur, ret, want>>
      PROVE  Reads(w)'
  <2>1. Event(w)' = Event(w)
    BY <1>0, <1>2, <1>3, EventStays
  <2>2. QED
    BY <1>1, <1>2, <1>3, <2>1
<1>4. ASSUME NEW c \in Clients, NEW event \in Prepared, Made(c, event)
      PROVE  UNCHANGED <<wpc, cur, ret, want>>
  BY <1>0, <1>4, CallCases, CalledStep DEF Queue!Accept, Queue!Refuse
<1>5. CASE Inside(w)
  <2>1. Done(w) /\ wpc[w] # "idle" /\ cur'[w] = cur[w]
    BY <1>0, <1>2, <1>5, InsideStep
  <2>2. Event(w)' = Event(w)
    BY <1>0, <2>1, EventStays
  <2>3. CASE Find(w)
    <3>1. ReadsTheSame(Event(w).op, ret'[w].entities, AskedOf(want, Event(w).conds)) /\ UNCHANGED want
      BY <1>0, <2>3, FindReads DEF Find
    <3>2. QED
      BY <2>2, <3>1
  <2>4. CASE InsertMany(w) \/ DeleteMany(w)
    <3>1. Event(w).op \in {"write", "del"}
      BY <2>4 DEF InsertMany, DeleteMany, Runs
    <3>2. Event(w)'.op \notin {"read", "read_list"}
      BY <2>2, <3>1
    <3>3. QED
      BY <3>2
  <2>5. QED
    BY <2>1, <2>3, <2>4 DEF Done
<1>6. ~ TakeEvent(w) /\ ~ (SetValue(w) \/ SetException(w))
  BY <1>0, <1>2, TakeStep, ResolveStep
<1>7. CASE InitMongo \/ FreeContext \/ StopOperators \/ UNCHANGED vars
  BY <1>3, <1>7, OwnerFrame DEF vars, dataVars
<1>8. \A v \in Workers : v = w
  BY OneWorker
<1>9. QED
  BY <1>3, <1>4, <1>5, <1>6, <1>7, <1>8, NextCases DEF Inside

-----------------------------------------------------------------------------
(* The properties *)

(* The calls, the queue, the thread and the collection keep their types,    *)
(* for all clients and objects: whatever the driver does half, the          *)
(* documents are those of objects, member for member.                       *)
THEOREM TypeCorrect == Spec => []TypeOK
BY Invariance, PTL DEF Inv

(* An owner that waited for its futures may free the context: the event     *)
(* that is handled has no answer yet (mongo.h:53-54).                       *)
THEOREM ContextOutlivesCorrect == Spec => []ContextOutlivesUse
<1>1. Inv => ContextOutlivesUse
  <2> SUFFICES ASSUME Inv, life # "open", NEW w \in Workers, wpc[w] # "idle" PROVE FALSE
    BY DEF ContextOutlivesUse
  <2>1. /\ cur[w] \in Queue!Tasks /\ cur[w][1] \in Clients
        /\ cur[w][2] \in 1..Len(calls[cur[w][1]])
    BY Busy DEF Inv
  <2>2. answer[cur[w][1]][cur[w][2]] = "none"
    BY <2>1 DEF Inv, AnswerInv
  <2>3. QED
    BY <2>1, <2>2 DEF Inv, AnswerInv, AllAnswered
<1>2. QED
  BY <1>1, Invariance, PTL

(* Whatever was written and deleted before, and by whom: a read gets the   *)
(* objects its conditions ask for, member for member, whatever the aliases *)
(* they are stored under, if every list of objects has one, every comparison*)
(* is "==" and none is of a member with an alias (README.md:377-444).  The *)
(* code loses what is beyond that: it makes one object of a list           *)
(* (ref.h:365), leaves the operators out (mongo_readref.h:158-162), and    *)
(* compares under the member's own name (ref_ops.h:456; ref.h:81, 329, 387)*)
(* what is stored under the alias (ref.h:502-508; ref_ops.h:531, 557, 596).*)
THEOREM ReadsCorrect ==
  ASSUME ListsOfOne, ComparesEqual, ComparesUnaliased
  PROVE  Spec => []ReadsWhatWasWritten
<1>1. Init => ReadsWhatWasWritten
  BY DEF Init, ReadsWhatWasWritten
<1>2. Inv /\ ReadsWhatWasWritten /\ [Next]_vars => ReadsWhatWasWritten'
  BY ReadsStep
<1>3. QED
  BY <1>1, <1>2, Invariance, PTL DEF Spec

(* What a write or a deletion counts came or went, whatever the collection  *)
(* holds and the conditions are (mongo_event.h:28, 45, 58, 123).           *)
THEOREM CountsCorrect == Spec => AnswerCountsDocuments
<1> DEFINE Counted(w) ==
              wpc[w] = "run" /\ wpc'[w] = "set" =>
                 /\ Event(w).op = "write" => ret'[w].count = Len(coll') - Len(coll)
                 /\ Event(w).op = "del" => ret'[w].count = Len(coll) - Len(coll')
<1>1. ASSUME Inv, [Next]_vars, NEW w \in Workers
      PROVE  Counted(w)
  <2>1. TypeOK /\ CurInv /\ Queue!TasksInv
    BY <1>1 DEF Inv
  <2>2. CASE Inside(w)
    <3>1. ASSUME wpc'[w] = "set" PROVE Done(w)
      BY <2>1, <2>2, <3>1, InsideStep
    <3>2. QED
      BY <2>1, <2>2, <3>1, DataStep
  <2>3. CASE wpc'[w] \in {wpc[w], "idle", "run"}
    BY <2>3
  <2>4. ASSUME NEW v \in Workers, TakeEvent(v) \/ SetValue(v) \/ SetException(v)
        PROVE  wpc'[w] \in {wpc[w], "idle", "run"}
    <3>1. v = w
      BY OneWorker
    <3>2. QED
      BY <2>1, <2>4, <3>1, TakeStep, ResolveStep
  <2>5. ASSUME NEW c \in Clients, NEW event \in Prepared, Made(c, event)
        PROVE  UNCHANGED wpc
    BY <2>1, <2>5, CallCases, CalledStep
  <2>6. \A v \in Workers : v = w
    BY OneWorker
  <2>7. QED
    BY <1>1, <2>2, <2>3, <2>4, <2>5, <2>6, OwnerFrame, NextCases DEF Inside, vars
<1>2. Inv /\ [Next]_vars => [\A w \in Workers : Counted(w)]_vars
  BY <1>1
<1>3. QED
  BY <1>2, Invariance, PTL DEF Spec, AnswerCountsDocuments

(* The queue, the thread and the collection are the same storage as a       *)
(* Sqlite object, in which no kind of call answers a value for what was not *)
(* executed (mongo_event.h:85-97, 120-132).                                 *)
THEOREM Implementation == Spec => ImplementsStorage
<1>1. Inv /\ [Next]_vars => [Storage!StorageNext]_(Storage!storage)
  BY StorageStep
<1>2. QED
  BY <1>1, InitStorage, Invariance, PTL DEF Spec, ImplementsStorage, Storage!StorageSpec

==============================================================================

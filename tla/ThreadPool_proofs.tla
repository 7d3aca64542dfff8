-------------------------- MODULE ThreadPool_proofs --------------------------
(***************************************************************************)
(* Proofs about ThreadPool.  One inductive invariant, Inv, gives every     *)
(* safety property of the module; the refinement of TaskService follows    *)
(* from it step by step.                                                   *)
(***************************************************************************)
EXTENDS ThreadPool, FiniteSetTheorems, SequenceTheorems, TLAPS

-----------------------------------------------------------------------------
(* The inductive invariant *)

\* A producer inside a call: its call is one of its own, below the bound, and the
\* consumer it was given is one there is.
CallsInv ==
    \A p \in Producers :
        /\ Len(calls[p]) <= MaxCalls
        /\ ppc[p] # "idle" =>
              /\ Len(calls[p]) < MaxCalls
              /\ call[p].fn \in Overloads
              /\ call[p].fn \in {"insert_num", "submit_num"} => call[p].arg <= WorkerNum
        /\ ppc[p] = "enqueue" => call[p].idx \in Workers

\* The calls that are over
Known(task) == task \in Tasks /\ task[2] \in 1..Len(calls[task[1]])

\* Every task in the pool is that of a call that is over.
KnownInv ==
    /\ \A w \in Workers, p \in Producers : \A i \in 1..Len(queue[w][p]) :
          /\ queue[w][p][i][1] = p
          /\ queue[w][p][i][2] \in i..Len(calls[p])
    /\ \A w \in Workers : /\ hand[w] # NoTask <=> wpc[w] = "run"
                          /\ hand[w] # NoTask => Known(hand[w])
                          /\ \A task \in ran[w] : Known(task)
    /\ \A task \in early : Known(task)

\* The task is queued at w, in its hands, or was run by it.
At(w, task) == \/ \E i \in 1..Len(queue[w][task[1]]) : queue[w][task[1]][i] = task
               \/ hand[w] = task
               \/ task \in ran[w]

\* The task of a call that is over is at one worker or at none; at none if the
\* call failed, and at one if it succeeded (unless submit(f) was told nothing) or
\* if it came before stop().
Placed(p, n) ==
    LET task == <<p, n>>
        c == calls[p][n]
        Somewhere == \E w \in Workers : At(w, task)
    IN  /\ \A v, w \in Workers : At(v, task) /\ At(w, task) => v = w
        /\ c.outcome # "ok" => ~Somewhere
        /\ c.outcome = "ok" /\ c.fn # "submit" => Somewhere
        /\ task \in early => Somewhere

PlaceInv == \A p \in Producers : \A n \in 1..Len(calls[p]) : Placed(p, n)

\* stop() has joined workers that left their loops.
JoinInv == \A w \in Workers : w < joined => wpc[w] = "exited"

Inv == /\ TypeOK /\ CallsInv /\ KnownInv /\ PlaceInv /\ JoinInv
       /\ FifoPerProducer /\ ExitedWorkerLeftOnlyLateTasks /\ IndexInRange

LEMMA InitInv == Init => Inv
<1> SUFFICES ASSUME Init PROVE Inv
  OBVIOUS
<1> USE DEF Init, NoCall, NoTask, Workers
<1>1. TypeOK
  <2>1. PoolTypes
    <3>1. stop_ \in BOOLEAN
      OBVIOUS
    <3>2. joined \in 0..WorkerNum
      BY WorkerNumAssumption
    <3>3. QED
      BY <3>1, <3>2 DEF PoolTypes
  <2>2. CallTypes
    <3>1. seq_ \in -SeqMax - 1..SeqMax
      BY BoundsAssumption
    <3>2. calls \in [Producers -> Seq(Outcomes)]
      BY EmptySeq
    <3>3. QED
      BY <3>1, <3>2 DEF CallTypes
  <2>3. QueueTypes
    BY EmptySeq DEF QueueTypes
  <2>4. WorkerTypes
    BY DEF WorkerTypes
  <2>5. QED
    BY <2>1, <2>2, <2>3, <2>4 DEF TypeOK
<1>2. CallsInv /\ KnownInv /\ PlaceInv /\ JoinInv
  BY BoundsAssumption DEF CallsInv, KnownInv, PlaceInv, JoinInv
<1>3. FifoPerProducer /\ ExitedWorkerLeftOnlyLateTasks /\ IndexInRange
  BY DEF FifoPerProducer, ExitedWorkerLeftOnlyLateTasks, IndexInRange
<1>4. QED
  BY <1>1, <1>2, <1>3 DEF Inv

-----------------------------------------------------------------------------
(* What the parts of a step do *)

\* The kinds of steps, with the call of StopCheck named.
LEMMA NextCases ==
  ASSUME Next
  PROVE  \/ \E p \in Producers : \E fn \in Called[p] : \E arg \in ArgsOf(fn) : StopCheck(p, fn, arg)
         \/ \E p \in Producers : Route(p) \/ Enqueue(p) \/ EnqueueFails(p)
         \/ \E w \in Workers : \/ SeeStop(w) \/ SeeNoStop(w) \/ CheckSize(w)
                               \/ Dequeue(w) \/ Timeout(w) \/ Run(w)
         \/ Stop \/ Join
BY DEF Next, Call, Produce, Work

\* A call that is over is the next of its producer, and changes no other.
LEMMA OverStep ==
  ASSUME TypeOK, NEW p \in Producers, NEW fn \in Overloads,
         NEW outcome \in {"ok", "false", "threw"}, Over(p, fn, outcome)
  PROVE  /\ seq_' = seq_ => CallTypes'
         /\ Len(calls[p]) \in Nat
         /\ Len(calls'[p]) = Len(calls[p]) + 1
         /\ calls'[p][Len(calls[p]) + 1] = [fn |-> fn, outcome |-> outcome]
         /\ \A n \in 1..Len(calls[p]) : calls'[p][n] = calls[p][n]
         /\ \A q \in Producers \ {p} : calls'[q] = calls[q]
         /\ ppc' = [ppc EXCEPT ![p] = "idle"]
         /\ call' = [call EXCEPT ![p] = NoCall]
<1> DEFINE c == [fn |-> fn, outcome |-> outcome]
           C == Outcomes
<1>1. c \in C /\ calls \in [Producers -> Seq(C)] /\ calls[p] \in Seq(C)
  BY DEF TypeOK, CallTypes, Outcomes
<1> HIDE DEF c, C
<1>2. calls' = [calls EXCEPT ![p] = Append(calls[p], c)]
  BY DEF Over, c
<1>3. /\ Append(calls[p], c) \in Seq(C)
      /\ Len(calls[p]) \in Nat
      /\ Len(Append(calls[p], c)) = Len(calls[p]) + 1
      /\ Append(calls[p], c)[Len(calls[p]) + 1] = c
      /\ \A n \in 1..Len(calls[p]) : Append(calls[p], c)[n] = calls[p][n]
  BY <1>1, AppendProperties, LenProperties
<1>4. /\ calls' \in [Producers -> Seq(C)]
      /\ calls'[p] = Append(calls[p], c)
      /\ \A q \in Producers \ {p} : calls'[q] = calls[q]
  BY <1>1, <1>2, <1>3
<1>5. NoCall \in [fn : Overloads \cup {"none"}, arg : Nat, idx : Int]
  BY DEF NoCall
<1>6. seq_' = seq_ => CallTypes'
  BY <1>4, <1>5 DEF C, Over, TypeOK, CallTypes
<1>7. QED
  BY <1>3, <1>4, <1>6 DEF c, Over

\* The remainder of a number that is not negative is that of a worker; that of
\* another is not positive.
LEMMA RemainderRange ==
  ASSUME NEW a \in Int
  PROVE  LET r == Remainder(a, WorkerNum)
         IN  r \in Int /\ (r \in Workers \/ r < 0)
BY WorkerNumAssumption DEF Remainder, Workers

LEMMA IncrementRange ==
  ASSUME seq_ \in -SeqMax - 1..SeqMax
  PROVE  Increment(seq_) \in -SeqMax - 1..SeqMax
BY BoundsAssumption DEF Increment

\* Where Route leads: to a consumer, or to one of the two indices that are out
\* of the vector.
LEMMA RouteStep ==
  ASSUME TypeOK, CallsInv, NEW p \in Producers, Route(p)
  PROVE  \E i \in Int :
            /\ call' = [call EXCEPT ![p].idx = i]
            /\ seq_' \in -SeqMax - 1..SeqMax
            /\ \/ i \in Workers /\ ppc' = [ppc EXCEPT ![p] = "enqueue"]
               \/ /\ ppc' = [ppc EXCEPT ![p] = "wild"]
                  /\ \/ call[p].fn \in {"insert_num", "submit_num"} /\ call[p].arg = WorkerNum
                     \/ call[p].fn \in {"insert", "submit"} /\ i < 0
<1> DEFINE c == call[p]
           i == CASE c.fn \in {"insert", "submit"} -> Remainder(Increment(seq_), WorkerNum)
                  [] c.fn \in {"insert_key", "submit_key"} -> c.arg % WorkerNum
                  [] OTHER -> c.arg
<1>1. /\ call' = [call EXCEPT ![p].idx = i]
      /\ ppc' = [ppc EXCEPT ![p] = IF i \in Workers THEN "enqueue" ELSE "wild"]
      /\ seq_' = IF c.fn \in {"insert", "submit"} THEN Increment(seq_) ELSE seq_
      /\ ppc[p] = "route"
  BY DEF Route
<1>2. /\ c.fn \in Overloads /\ c.arg \in Nat
      /\ c.fn \in {"insert_num", "submit_num"} => c.arg <= WorkerNum
  BY <1>1 DEF TypeOK, CallTypes, CallsInv
<1>3. seq_' \in -SeqMax - 1..SeqMax
  BY <1>1, IncrementRange DEF TypeOK, CallTypes
<1>4. CASE c.fn \in {"insert", "submit"}
  <2>1. i = Remainder(Increment(seq_), WorkerNum)
    BY <1>4
  <2>2. Increment(seq_) \in Int
    BY IncrementRange, BoundsAssumption DEF TypeOK, CallTypes
  <2>3. i \in Int /\ (i \in Workers \/ i < 0)
    BY <2>1, <2>2, RemainderRange
  <2>4. QED
    BY <1>1, <1>3, <1>4, <2>3
<1>5. CASE c.fn \in {"insert_key", "submit_key"}
  <2>1. i = c.arg % WorkerNum
    BY <1>5
  <2>2. i \in Int /\ i \in Workers
    BY <1>2, <2>1, WorkerNumAssumption DEF Workers
  <2>3. QED
    BY <1>1, <1>3, <2>2
<1>6. CASE c.fn \in {"insert_num", "submit_num"}
  <2>1. i = c.arg
    BY <1>6
  <2>2. i \in Int /\ (i \in Workers \/ i = WorkerNum)
    BY <1>2, <1>6, <2>1, WorkerNumAssumption DEF Workers
  <2>3. QED
    BY <1>1, <1>3, <1>6, <2>1, <2>2
<1>7. QED
  BY <1>2, <1>4, <1>5, <1>6 DEF Overloads

\* try_enqueue puts one task behind those of its producer.
LEMMA EnqueueStep ==
  ASSUME TypeOK, CallsInv, NEW p \in Producers, Enqueue(p)
  PROVE  LET w == call[p].idx
             q == queue[w][p]
             task == <<p, Len(calls[p]) + 1>>
         IN  /\ ppc[p] = "enqueue" /\ w \in Workers /\ task \in Tasks
             /\ Over(p, call[p].fn, "ok") /\ call[p].fn \in Overloads
             /\ q \in Seq(Tasks)
             /\ queue' \in [Workers -> [Producers -> Seq(Tasks)]]
             /\ Len(q) \in Nat /\ Len(queue'[w][p]) = Len(q) + 1
             /\ queue'[w][p][Len(q) + 1] = task
             /\ \A i \in 1..Len(q) : queue'[w][p][i] = q[i]
             /\ \A v \in Workers, o \in Producers : v # w \/ o # p => queue'[v][o] = queue[v][o]
             /\ early' = IF stop_ THEN early ELSE early \cup {task}
             /\ UNCHANGED <<stop_, joined, seq_, wpc, hand, ran>>
<1> DEFINE w == call[p].idx
           q == queue[w][p]
           task == <<p, Len(calls[p]) + 1>>
<1>1. ppc[p] = "enqueue" /\ w \in Workers /\ call[p].fn \in Overloads /\ Len(calls[p]) \in Nat
  BY LenProperties DEF Enqueue, CallsInv, TypeOK, CallTypes
<1>2. task \in Tasks /\ q \in Seq(Tasks)
  BY <1>1 DEF TypeOK, QueueTypes, Tasks
<1>3. queue' = [queue EXCEPT ![w] = [queue[w] EXCEPT ![p] = Append(q, task)]]
  BY <1>1 DEF Enqueue, TypeOK, QueueTypes
<1> HIDE DEF task, q
<1>4. /\ Append(q, task) \in Seq(Tasks)
      /\ Len(q) \in Nat
      /\ Len(Append(q, task)) = Len(q) + 1
      /\ Append(q, task)[Len(q) + 1] = task
      /\ \A i \in 1..Len(q) : Append(q, task)[i] = q[i]
  BY <1>2, AppendProperties, LenProperties
<1>5. /\ queue' \in [Workers -> [Producers -> Seq(Tasks)]]
      /\ queue'[w][p] = Append(q, task)
      /\ \A v \in Workers, o \in Producers : v # w \/ o # p => queue'[v][o] = queue[v][o]
  BY <1>1, <1>3, <1>4 DEF TypeOK, QueueTypes
<1>6. /\ Over(p, call[p].fn, "ok")
      /\ early' = IF stop_ THEN early ELSE early \cup {task}
      /\ UNCHANGED <<stop_, joined, seq_, wpc, hand, ran>>
  BY DEF Enqueue, poolVars, workerVars, task
<1>7. QED
  BY <1>1, <1>2, <1>4, <1>5, <1>6 DEF task, q

\* A worker takes the oldest task of some producer.
LEMMA DequeueStep ==
  ASSUME TypeOK, NEW w \in Workers, Dequeue(w)
  PROVE  \E p \in Producers :
            LET q == queue[w][p]
            IN  /\ wpc[w] = "take" /\ wpc' = [wpc EXCEPT ![w] = "run"]
                /\ q # <<>> /\ Len(q) \in Nat \ {0} /\ q[1] \in Tasks
                /\ hand' = [hand EXCEPT ![w] = q[1]]
                /\ queue' \in [Workers -> [Producers -> Seq(Tasks)]]
                /\ Len(queue'[w][p]) = Len(q) - 1
                /\ \A i \in 1..Len(q) - 1 : queue'[w][p][i] = q[i + 1]
                /\ \A v \in Workers, o \in Producers : v # w \/ o # p => queue'[v][o] = queue[v][o]
                /\ UNCHANGED <<stop_, joined, seq_, ppc, call, calls, early, ran>>
<1>1. PICK p \in Producers : /\ queue[w][p] # <<>>
                             /\ hand' = [hand EXCEPT ![w] = Head(queue[w][p])]
                             /\ queue' = [queue EXCEPT ![w][p] = Tail(@)]
  BY DEF Dequeue
<1> DEFINE q == queue[w][p]
<1>2. q \in Seq(Tasks)
  BY DEF TypeOK, QueueTypes
<1>3. /\ Len(q) \in Nat \ {0} /\ q[1] \in Tasks /\ Head(q) = q[1]
      /\ Tail(q) \in Seq(Tasks) /\ Len(Tail(q)) = Len(q) - 1
      /\ \A i \in 1..Len(q) - 1 : Tail(q)[i] = q[i + 1]
  BY <1>1, <1>2, EmptySeq, HeadTailProperties, ElementOfSeq
<1>4. queue' = [queue EXCEPT ![w] = [queue[w] EXCEPT ![p] = Tail(q)]]
  BY <1>1 DEF TypeOK, QueueTypes
<1>5. /\ queue' \in [Workers -> [Producers -> Seq(Tasks)]]
      /\ queue'[w][p] = Tail(q)
      /\ \A v \in Workers, o \in Producers : v # w \/ o # p => queue'[v][o] = queue[v][o]
  BY <1>3, <1>4 DEF TypeOK, QueueTypes
<1>6. /\ wpc[w] = "take" /\ wpc' = [wpc EXCEPT ![w] = "run"]
      /\ UNCHANGED <<stop_, joined, seq_, ppc, call, calls, early, ran>>
  BY DEF Dequeue, Move, poolVars, producerVars
<1>7. QED
  BY <1>1, <1>3, <1>5, <1>6

(* A step keeps the types; an index of a consumer is a number in any case.  *)
LEMMA TypeStep == TypeOK /\ CallsInv /\ KnownInv /\ [Next]_vars => TypeOK'
<1> SUFFICES ASSUME TypeOK, CallsInv, KnownInv, [Next]_vars PROVE TypeOK'
  OBVIOUS
<1> USE DEF TypeOK, poolVars, workerVars
<1>1. CASE UNCHANGED vars
  BY <1>1 DEF vars, producerVars, PoolTypes, CallTypes, QueueTypes, WorkerTypes
<1>2. ASSUME NEW p \in Producers, NEW fn \in Called[p], NEW arg \in ArgsOf(fn), StopCheck(p, fn, arg)
      PROVE  TypeOK'
  <2>1. fn \in Overloads /\ arg \in Nat
    BY CallsAssumption DEF ArgsOf, Overloads
  <2>2. UNCHANGED <<poolVars, seq_, early, queue, workerVars>>
    BY <1>2 DEF StopCheck
  <2>3. Over(p, fn, "threw") => CallTypes'
    BY <2>1, <2>2, OverStep
  <2>4. ASSUME ppc' = [ppc EXCEPT ![p] = "route"],
               call' = [call EXCEPT ![p] = [fn |-> fn, arg |-> arg, idx |-> 0]],
               UNCHANGED calls
        PROVE  CallTypes'
    BY <2>1, <2>2, <2>4 DEF CallTypes
  <2>5. CallTypes'
    BY <1>2, <2>3, <2>4 DEF StopCheck
  <2>6. QED
    BY <2>2, <2>5 DEF PoolTypes, QueueTypes, WorkerTypes
<1>3. ASSUME NEW p \in Producers, Route(p)
      PROVE  TypeOK'
  <2>1. UNCHANGED <<poolVars, calls, early, queue, workerVars>>
    BY <1>3 DEF Route
  <2>2. PICK i \in Int : /\ call' = [call EXCEPT ![p].idx = i]
                         /\ seq_' \in -SeqMax - 1..SeqMax
                         /\ \/ ppc' = [ppc EXCEPT ![p] = "enqueue"]
                            \/ ppc' = [ppc EXCEPT ![p] = "wild"]
    BY <1>3, RouteStep
  <2>3. call' \in [Producers -> [fn : Overloads \cup {"none"}, arg : Nat, idx : Int]]
    <3>1. call'[p] = [call[p] EXCEPT !.idx = i] /\ \A q \in Producers \ {p} : call'[q] = call[q]
      BY <2>2 DEF CallTypes
    <3>2. call[p] \in [fn : Overloads \cup {"none"}, arg : Nat, idx : Int]
      BY DEF CallTypes
    <3>3. call'[p] \in [fn : Overloads \cup {"none"}, arg : Nat, idx : Int]
      BY <3>1, <3>2
    <3>4. QED
      BY <2>2, <3>1, <3>3 DEF CallTypes
  <2>4. CallTypes'
    BY <2>1, <2>2, <2>3 DEF CallTypes
  <2>5. QED
    BY <2>1, <2>4 DEF PoolTypes, QueueTypes, WorkerTypes
<1>4. ASSUME NEW p \in Producers, Enqueue(p)
      PROVE  TypeOK'
  <2>1. /\ UNCHANGED <<stop_, joined, seq_, wpc, hand, ran>>
        /\ call[p].fn \in Overloads /\ Over(p, call[p].fn, "ok")
    BY <1>4, EnqueueStep
  <2>2. CallTypes'
    BY <2>1, OverStep
  <2>3. QueueTypes'
    <3>1. queue' \in [Workers -> [Producers -> Seq(Tasks)]]
      BY <1>4, EnqueueStep
    <3>2. <<p, Len(calls[p]) + 1>> \in Tasks /\ early' \subseteq early \cup {<<p, Len(calls[p]) + 1>>}
      BY <1>4, EnqueueStep
    <3>3. QED
      BY <3>1, <3>2 DEF QueueTypes
  <2>4. QED
    BY <2>1, <2>2, <2>3 DEF PoolTypes, WorkerTypes
<1>5. ASSUME NEW p \in Producers, EnqueueFails(p)
      PROVE  TypeOK'
  <2>1. call[p].fn \in Overloads /\ Refused(call[p].fn) \in {"ok", "false", "threw"}
    BY <1>5 DEF EnqueueFails, CallsInv, Refused, Overloads
  <2>2. Over(p, call[p].fn, Refused(call[p].fn)) /\ UNCHANGED <<poolVars, seq_, early, queue, workerVars>>
    BY <1>5 DEF EnqueueFails
  <2>3. CallTypes'
    BY <2>1, <2>2, OverStep
  <2>4. QED
    BY <2>2, <2>3 DEF PoolTypes, QueueTypes, WorkerTypes
<1>6. ASSUME NEW w \in Workers, Dequeue(w)
      PROVE  TypeOK'
  <2>1. PICK p \in Producers :
            /\ queue[w][p][1] \in Tasks
            /\ hand' = [hand EXCEPT ![w] = queue[w][p][1]]
            /\ wpc' = [wpc EXCEPT ![w] = "run"]
            /\ queue' \in [Workers -> [Producers -> Seq(Tasks)]]
            /\ UNCHANGED <<stop_, joined, seq_, ppc, call, calls, early, ran>>
    BY <1>6, DequeueStep
  <2>2. QED
    BY <2>1 DEF PoolTypes, CallTypes, QueueTypes, WorkerTypes
<1>7. ASSUME NEW w \in Workers, SeeStop(w) \/ SeeNoStop(w) \/ CheckSize(w) \/ Timeout(w)
      PROVE  TypeOK'
  <2>1. UNCHANGED <<poolVars, producerVars, queue, hand, ran>>
    BY <1>7 DEF SeeStop, SeeNoStop, CheckSize, Timeout
  <2>2. \E to \in {"check", "size", "take", "exited"} : wpc' = [wpc EXCEPT ![w] = to]
    BY <1>7 DEF SeeStop, SeeNoStop, CheckSize, Timeout, Move
  <2>3. WorkerTypes'
    BY <2>1, <2>2 DEF WorkerTypes
  <2>4. QED
    BY <2>1, <2>3 DEF producerVars, PoolTypes, CallTypes, QueueTypes
<1>8. ASSUME NEW w \in Workers, Run(w)
      PROVE  TypeOK'
  <2>1. wpc[w] = "run" /\ UNCHANGED <<poolVars, producerVars, queue>>
    BY <1>8 DEF Run, Move
  <2>2. hand[w] \in Tasks
    BY <2>1 DEF KnownInv, Known
  <2>3. WorkerTypes'
    BY <1>8, <2>2 DEF Run, Move, WorkerTypes
  <2>4. QED
    BY <2>1, <2>3 DEF producerVars, PoolTypes, CallTypes, QueueTypes
<1>9. CASE Stop \/ Join
  <2>1. UNCHANGED <<producerVars, queue, workerVars>>
    BY <1>9 DEF Stop, Join
  <2>2. stop_' \in BOOLEAN
    BY <1>9 DEF Stop, Join, PoolTypes
  <2>3. joined' \in 0..WorkerNum
    BY <1>9, WorkerNumAssumption DEF Stop, Join, PoolTypes
  <2>4. QED
    BY <2>1, <2>2, <2>3 DEF producerVars, PoolTypes, CallTypes, QueueTypes, WorkerTypes
<1>10. QED
  BY <1>1, <1>2, <1>3, <1>4, <1>5, <1>6, <1>7, <1>8, <1>9, NextCases

\* What a step leaves alone unless it is one of a producer, or one of a worker.
LEMMA Frames ==
  ASSUME NEW w \in Workers
  PROVE  /\ SeeStop(w) \/ SeeNoStop(w) \/ CheckSize(w) \/ Timeout(w)
               => UNCHANGED <<stop_, joined, seq_, ppc, call, calls, early, queue, hand, ran>>
         /\ Run(w) => UNCHANGED <<stop_, joined, seq_, ppc, call, calls, early, queue>>
BY DEF SeeStop, SeeNoStop, CheckSize, Timeout, Run, poolVars, producerVars

LEMMA StopFrame == Stop \/ Join => UNCHANGED <<seq_, ppc, call, calls, early, queue, wpc, hand, ran>>
BY DEF Stop, Join, producerVars, workerVars

\* A step is one of a producer, or leaves the calls alone.
LEMMA CallCases ==
  ASSUME TypeOK, CallsInv, [Next]_vars
  PROVE  \/ UNCHANGED <<ppc, call, calls>>
         \/ \E p \in Producers : \E fn \in Overloads :
               \/ \E arg \in Nat : /\ StopCheck(p, fn, arg) /\ ~BadNumber(fn, arg)
                                   /\ Len(calls[p]) < MaxCalls /\ UNCHANGED calls
                                   /\ ppc' = [ppc EXCEPT ![p] = "route"]
                                   /\ call' = [call EXCEPT ![p] = [fn |-> fn, arg |-> arg, idx |-> 0]]
               \/ Route(p)
               \/ /\ Len(calls[p]) < MaxCalls
                  /\ \E outcome \in {"ok", "false", "threw"} : Over(p, fn, outcome)
<1>1. CASE UNCHANGED vars
  BY <1>1 DEF vars, producerVars
<1>2. ASSUME NEW p \in Producers, NEW fn \in Called[p], NEW arg \in ArgsOf(fn), StopCheck(p, fn, arg)
      PROVE  /\ fn \in Overloads /\ arg \in Nat /\ Len(calls[p]) < MaxCalls
             /\ \/ Over(p, fn, "threw")
                \/ /\ ~BadNumber(fn, arg) /\ UNCHANGED calls
                   /\ ppc' = [ppc EXCEPT ![p] = "route"]
                   /\ call' = [call EXCEPT ![p] = [fn |-> fn, arg |-> arg, idx |-> 0]]
  BY <1>2, CallsAssumption DEF StopCheck, ArgsOf, Overloads
<1>3. ASSUME NEW p \in Producers, Enqueue(p) \/ EnqueueFails(p)
      PROVE  /\ call[p].fn \in Overloads /\ Len(calls[p]) < MaxCalls
             /\ \E outcome \in {"ok", "false", "threw"} : Over(p, call[p].fn, outcome)
  <2>1. call[p].fn \in Overloads /\ Len(calls[p]) < MaxCalls
    BY <1>3 DEF Enqueue, EnqueueFails, CallsInv
  <2>2. Refused(call[p].fn) \in {"ok", "false", "threw"}
    BY <2>1 DEF Refused, Overloads
  <2>3. QED
    BY <1>3, <2>1, <2>2 DEF Enqueue, EnqueueFails
<1>4. ASSUME NEW w \in Workers, Dequeue(w)
      PROVE  UNCHANGED <<ppc, call, calls>>
  BY <1>4, DequeueStep
<1>5. ASSUME NEW w \in Workers, SeeStop(w) \/ SeeNoStop(w) \/ CheckSize(w) \/ Timeout(w) \/ Run(w)
      PROVE  UNCHANGED <<ppc, call, calls>>
  BY <1>5, Frames
<1>6. CASE Stop \/ Join
  BY <1>6, StopFrame
<1>7. CASE \E p \in Producers : Route(p)
  <2>1. "insert" \in Overloads
    BY DEF Overloads
  <2>2. QED
    BY <1>7, <2>1
<1>8. CASE \E p \in Producers : \E fn \in Called[p] : \E arg \in ArgsOf(fn) : StopCheck(p, fn, arg)
  BY <1>8, <1>2
<1>9. QED
  BY <1>1, <1>3, <1>4, <1>5, <1>6, <1>7, <1>8, NextCases

\* Calls are added, never changed.
LEMMA CallsGrow ==
  ASSUME TypeOK, CallsInv, [Next]_vars, NEW p \in Producers
  PROVE  /\ Len(calls[p]) \in Nat /\ Len(calls'[p]) \in Nat
         /\ Len(calls[p]) <= Len(calls'[p])
         /\ \A n \in 1..Len(calls[p]) : calls'[p][n] = calls[p][n]
<1>1. Len(calls[p]) \in Nat
  BY LenProperties DEF TypeOK, CallTypes
<1>2. ASSUME NEW q \in Producers, NEW fn \in Overloads, NEW outcome \in {"ok", "false", "threw"},
             Over(q, fn, outcome)
      PROVE  /\ Len(calls'[p]) \in {Len(calls[p]), Len(calls[p]) + 1}
             /\ \A n \in 1..Len(calls[p]) : calls'[p][n] = calls[p][n]
  BY <1>2, OverStep
<1>3. \A q \in Producers : Route(q) => UNCHANGED calls
  BY DEF Route
<1>4. QED
  BY <1>1, <1>2, <1>3, CallCases

LEMMA CallsStep ==
  TypeOK /\ CallsInv /\ IndexInRange /\ [Next]_vars => CallsInv' /\ IndexInRange'
<1> SUFFICES ASSUME TypeOK, CallsInv, IndexInRange, [Next]_vars PROVE CallsInv' /\ IndexInRange'
  OBVIOUS
<1>1. CASE UNCHANGED <<ppc, call, calls>>
  BY <1>1 DEF CallsInv, IndexInRange
<1>2. ASSUME NEW p \in Producers, NEW fn \in Overloads, NEW arg \in Nat, ~BadNumber(fn, arg),
             Len(calls[p]) < MaxCalls, UNCHANGED calls, ppc' = [ppc EXCEPT ![p] = "route"],
             call' = [call EXCEPT ![p] = [fn |-> fn, arg |-> arg, idx |-> 0]]
      PROVE  CallsInv' /\ IndexInRange'
  <2>1. /\ ppc'[p] = "route" /\ call'[p].fn = fn /\ call'[p].arg = arg
        /\ \A q \in Producers \ {p} : ppc'[q] = ppc[q] /\ call'[q] = call[q]
    BY <1>2 DEF TypeOK, CallTypes
  <2>2. fn \in {"insert_num", "submit_num"} => arg <= WorkerNum
    BY <1>2, WorkerNumAssumption DEF BadNumber
  <2>3. QED
    BY <1>2, <2>1, <2>2 DEF CallsInv, IndexInRange
<1>3. ASSUME NEW p \in Producers, Route(p)
      PROVE  CallsInv' /\ IndexInRange'
  <2>1. ppc[p] = "route" /\ UNCHANGED calls
    BY <1>3 DEF Route
  <2>2. PICK i \in Int :
            /\ call' = [call EXCEPT ![p].idx = i]
            /\ \/ i \in Workers /\ ppc' = [ppc EXCEPT ![p] = "enqueue"]
               \/ /\ ppc' = [ppc EXCEPT ![p] = "wild"]
                  /\ \/ call[p].fn \in {"insert_num", "submit_num"} /\ call[p].arg = WorkerNum
                     \/ call[p].fn \in {"insert", "submit"} /\ i < 0
    BY <1>3, RouteStep
  <2>3. /\ call'[p] = [call[p] EXCEPT !.idx = i] /\ call[p] \in [fn : Overloads \cup {"none"}, arg : Nat, idx : Int]
        /\ \A q \in Producers \ {p} : ppc'[q] = ppc[q] /\ call'[q] = call[q]
    BY <2>2 DEF TypeOK, CallTypes
  <2>4. call'[p].fn = call[p].fn /\ call'[p].arg = call[p].arg /\ call'[p].idx = i
    BY <2>3
  <2>5. \/ i \in Workers /\ ppc'[p] = "enqueue"
        \/ /\ ppc'[p] = "wild"
           /\ \/ call[p].fn \in {"insert_num", "submit_num"} /\ call[p].arg = WorkerNum
              \/ call[p].fn \in {"insert", "submit"} /\ i < 0
    BY <2>2 DEF TypeOK, CallTypes
  <2>6. CallsInv'
    BY <2>1, <2>3, <2>4, <2>5 DEF CallsInv
  <2>7. IndexInRange'
    BY <2>3, <2>4, <2>5 DEF IndexInRange
  <2>8. QED
    BY <2>6, <2>7
<1>4. ASSUME NEW p \in Producers, NEW fn \in Overloads, NEW outcome \in {"ok", "false", "threw"},
             Over(p, fn, outcome), Len(calls[p]) < MaxCalls
      PROVE  CallsInv' /\ IndexInRange'
  <2>1. /\ Len(calls[p]) \in Nat /\ Len(calls'[p]) = Len(calls[p]) + 1
        /\ ppc'[p] = "idle"
        /\ \A q \in Producers \ {p} : calls'[q] = calls[q] /\ ppc'[q] = ppc[q] /\ call'[q] = call[q]
    <3>1. /\ ppc' = [ppc EXCEPT ![p] = "idle"]
          /\ call' = [call EXCEPT ![p] = NoCall]
      BY <1>4 DEF Over
    <3>2. /\ ppc'[p] = "idle"
          /\ \A q \in Producers \ {p} : ppc'[q] = ppc[q] /\ call'[q] = call[q]
      BY <3>1 DEF TypeOK, CallTypes
    <3>3. QED
      BY <1>4, <3>2, OverStep
  <2>2. Len(calls'[p]) <= MaxCalls
    BY <1>4, <2>1, BoundsAssumption
  <2>3. QED
    BY <2>1, <2>2 DEF CallsInv, IndexInRange
<1>5. QED
  BY <1>1, <1>2, <1>3, <1>4, CallCases

\* The tasks of calls that are over stay tasks of such calls.
LEMMA KnownStays ==
  ASSUME TypeOK, CallsInv, [Next]_vars, NEW task, Known(task)
  PROVE  Known(task)'
<1>1. task \in Tasks /\ task[1] \in Producers /\ task[2] \in 1..Len(calls[task[1]])
  BY DEF Known, Tasks
<1>2. task[2] \in 1..Len(calls'[task[1]])
  BY <1>1, CallsGrow
<1>3. QED
  BY <1>1, <1>2 DEF Known

\* The i-th task queued by a producer comes from its i-th call or a later one.
LEMMA QueueBound ==
  ASSUME TypeOK, KnownInv, NEW w \in Workers, NEW p \in Producers
  PROVE  /\ Len(queue[w][p]) \in Nat /\ Len(calls[p]) \in Nat
         /\ \A i \in 1..Len(queue[w][p]) :
               LET task == queue[w][p][i]
               IN  /\ task \in Tasks /\ task[1] = p /\ task[2] \in Nat
                   /\ i <= task[2] /\ task[2] <= Len(calls[p])
         /\ Len(queue[w][p]) <= Len(calls[p])
<1> DEFINE q == queue[w][p]
           n == Len(q)
           m == Len(calls[p])
<1>1. q \in Seq(Tasks) /\ n \in Nat /\ m \in Nat
  BY LenProperties DEF TypeOK, QueueTypes, CallTypes
<1>2. \A i \in 1..n : q[i] \in Tasks /\ q[i][1] = p /\ q[i][2] \in i..m
  BY <1>1, ElementOfSeq DEF KnownInv
<1> HIDE DEF q, n, m
<1>3. \A i \in 1..n : q[i][2] \in Nat /\ i <= q[i][2] /\ q[i][2] <= m
  BY <1>1, <1>2
<1>4. n <= m
  <2>1. n = 0 \/ n \in 1..n
    BY <1>1
  <2>2. QED
    BY <1>1, <1>3, <2>1
<1>5. QED
  BY <1>1, <1>2, <1>3, <1>4 DEF q, n, m

LEMMA TaskIsSome == \A task \in Tasks : task # NoTask
<1> SUFFICES ASSUME NEW task \in Tasks, task = <<>> PROVE FALSE
  BY DEF NoTask
<1>1. Len(task) = 2
  BY DEF Tasks
<1>2. Len(<<>>) = 0
  OBVIOUS
<1>3. QED
  BY <1>1, <1>2

(* What is in the pool was brought by calls that are over: a task queued is *)
(* the newest of its producer, one taken was queued, one run was taken.     *)
LEMMA KnownStep == TypeOK /\ CallsInv /\ KnownInv /\ [Next]_vars => KnownInv'
<1> SUFFICES ASSUME TypeOK, CallsInv, KnownInv, [Next]_vars PROVE KnownInv'
  OBVIOUS
<1> DEFINE Q == \A w \in Workers, p \in Producers : \A i \in 1..Len(queue[w][p]) :
                    queue[w][p][i][1] = p /\ queue[w][p][i][2] \in i..Len(calls[p])
           H == \A w \in Workers : /\ hand[w] # NoTask <=> wpc[w] = "run"
                                   /\ hand[w] # NoTask => Known(hand[w])
                                   /\ \A task \in ran[w] : Known(task)
           E == \A task \in early : Known(task)
<1>1. Q /\ H /\ E
  BY DEF KnownInv
<1>2. UNCHANGED queue => Q'
  BY <1>1, CallsGrow
<1>3. UNCHANGED <<hand, wpc, ran>> => H'
  BY <1>1, KnownStays
<1>4. UNCHANGED early => E'
  BY <1>1, KnownStays
<1>5. Q' /\ H' /\ E' => KnownInv'
  BY DEF KnownInv
<1> HIDE DEF Q, H, E
<1>6. CASE UNCHANGED vars
  BY <1>2, <1>3, <1>4, <1>5, <1>6 DEF vars, workerVars, producerVars
<1>7. ASSUME NEW p \in Producers, NEW fn \in Called[p], NEW arg \in ArgsOf(fn), StopCheck(p, fn, arg)
      PROVE  KnownInv'
  BY <1>2, <1>3, <1>4, <1>5, <1>7 DEF StopCheck, workerVars
<1>8. ASSUME NEW p \in Producers, Route(p) \/ EnqueueFails(p)
      PROVE  KnownInv'
  BY <1>2, <1>3, <1>4, <1>5, <1>8 DEF Route, EnqueueFails, workerVars
<1>9. ASSUME NEW p \in Producers, Enqueue(p)
      PROVE  KnownInv'
  <2>0. PICK v, task : v = call[p].idx /\ task = <<p, Len(calls[p]) + 1>>
    OBVIOUS
  <2>1. /\ UNCHANGED <<wpc, hand, ran>> /\ early' \subseteq early \cup {task} /\ task \in Tasks
        /\ Len(queue[v][p]) \in Nat /\ Len(queue'[v][p]) = Len(queue[v][p]) + 1
        /\ queue'[v][p][Len(queue[v][p]) + 1] = task
        /\ \A i \in 1..Len(queue[v][p]) : queue'[v][p][i] = queue[v][p][i]
        /\ \A w \in Workers, o \in Producers : w # v \/ o # p => queue'[w][o] = queue[w][o]
    BY <1>9, <2>0, EnqueueStep
  <2>2. /\ v \in Workers /\ Len(calls[p]) \in Nat /\ Len(calls'[p]) = Len(calls[p]) + 1
        /\ task[1] = p /\ task[2] = Len(calls'[p])
    BY <1>9, <2>0, EnqueueStep, OverStep
  <2>3. Len(queue[v][p]) + 1 <= Len(calls'[p])
    BY <2>2, QueueBound
  <2>4. ASSUME NEW w \in Workers, NEW o \in Producers, NEW i \in 1..Len(queue'[w][o])
        PROVE  queue'[w][o][i][1] = o /\ queue'[w][o][i][2] \in i..Len(calls'[o])
    <3>1. CASE w = v /\ o = p /\ i = Len(queue[v][p]) + 1
      <4>1. queue'[w][o][i] = task
        BY <2>1, <3>1
      <4>2. i \in Int /\ Len(calls'[p]) \in Int /\ i <= Len(calls'[p])
        BY <2>1, <2>2, <2>3, <3>1
      <4>3. QED
        BY <2>2, <3>1, <4>1, <4>2
    <3>2. CASE ~(w = v /\ o = p /\ i = Len(queue[v][p]) + 1)
      <4>1. i \in 1..Len(queue[w][o]) /\ queue'[w][o][i] = queue[w][o][i]
        <5>1. CASE w = v /\ o = p
          <6>1. i \in 1..Len(queue[v][p])
            BY <2>1, <3>2, <5>1
          <6>2. QED
            BY <2>1, <5>1, <6>1
        <5>2. CASE w # v \/ o # p
          BY <2>1, <5>2
        <5>3. QED
          BY <5>1, <5>2
      <4>2. queue[w][o][i][1] = o /\ queue[w][o][i][2] \in i..Len(calls[o])
        BY <1>1, <4>1 DEF Q
      <4>3. QED
        BY <4>1, <4>2, CallsGrow
    <3>3. QED
      BY <3>1, <3>2
  <2>5. Q'
    BY <2>4 DEF Q
  <2>6. Known(task)'
    <3>1. Len(calls'[p]) \in 1..Len(calls'[p])
      BY <2>2
    <3>2. QED
      BY <2>1, <2>2, <3>1 DEF Known
  <2>7. E'
    BY <1>1, <2>1, <2>6, KnownStays DEF E
  <2>8. QED
    BY <1>3, <1>5, <2>1, <2>5, <2>7
<1>10. ASSUME NEW w \in Workers, Dequeue(w)
       PROVE  KnownInv'
  <2>1. PICK p \in Producers :
            LET q == queue[w][p]
            IN  /\ wpc' = [wpc EXCEPT ![w] = "run"]
                /\ Len(q) \in Nat \ {0} /\ q[1] \in Tasks
                /\ hand' = [hand EXCEPT ![w] = q[1]]
                /\ Len(queue'[w][p]) = Len(q) - 1
                /\ \A i \in 1..Len(q) - 1 : queue'[w][p][i] = q[i + 1]
                /\ \A v \in Workers, o \in Producers : v # w \/ o # p => queue'[v][o] = queue[v][o]
                /\ UNCHANGED <<calls, early, ran>>
    BY <1>10, DequeueStep
  <2>2. Len(calls[p]) \in Nat
    BY CallsGrow
  <2>3. ASSUME NEW v \in Workers, NEW o \in Producers, NEW i \in 1..Len(queue'[v][o])
        PROVE  queue'[v][o][i][1] = o /\ queue'[v][o][i][2] \in i..Len(calls'[o])
    <3>1. CASE v = w /\ o = p
      <4> DEFINE n == Len(queue[w][p])
      <4>1. n \in Nat /\ i \in 1..n - 1
        BY <2>1, <3>1
      <4>2. queue'[w][p][i] = queue[w][p][i + 1]
        BY <2>1, <4>1
      <4> HIDE DEF n
      <4>3. i + 1 \in 1..n /\ i \in Nat
        BY <4>1
      <4>4. queue[w][p][i + 1][1] = p /\ queue[w][p][i + 1][2] \in (i + 1)..Len(calls[p])
        BY <1>1, <4>3 DEF Q, n
      <4>5. queue[w][p][i + 1][2] \in i..Len(calls[p])
        BY <2>2, <4>3, <4>4
      <4>6. QED
        BY <2>1, <3>1, <4>2, <4>4, <4>5
    <3>2. CASE v # w \/ o # p
      <4>1. queue'[v][o] = queue[v][o]
        BY <2>1, <3>2
      <4>2. QED
        BY <1>1, <2>1, <4>1 DEF Q
    <3>3. QED
      BY <3>1, <3>2
  <2>4. Q'
    BY <2>3 DEF Q
  <2>5. Known(queue[w][p][1])
    <3>1. 1 \in 1..Len(queue[w][p])
      BY <2>1
    <3>2. queue[w][p][1][1] = p /\ queue[w][p][1][2] \in 1..Len(calls[p])
      BY <1>1, <3>1 DEF Q
    <3>3. QED
      BY <2>1, <3>2 DEF Known
  <2>6. H'
    <3>1. /\ hand'[w] = queue[w][p][1] /\ wpc'[w] = "run"
          /\ \A v \in Workers \ {w} : hand'[v] = hand[v] /\ wpc'[v] = wpc[v]
      BY <2>1 DEF TypeOK, WorkerTypes
    <3>2. queue[w][p][1] # NoTask
      BY <2>1, TaskIsSome
    <3>3. \A v \in Workers : \A task \in ran'[v] : Known(task)'
      BY <1>1, <2>1, KnownStays DEF H
    <3>4. \A v \in Workers : /\ hand'[v] # NoTask <=> wpc'[v] = "run"
                             /\ hand'[v] # NoTask => Known(hand'[v])
      BY <1>1, <2>5, <3>1, <3>2 DEF H
    <3>5. \A v \in Workers : hand'[v] # NoTask => Known(hand[v])'
      BY <3>4, <2>1 DEF Known
    <3>6. QED
      BY <3>3, <3>4, <3>5 DEF H
  <2>7. QED
    BY <1>4, <1>5, <2>1, <2>4, <2>6
<1>11. ASSUME NEW w \in Workers, SeeStop(w) \/ SeeNoStop(w) \/ CheckSize(w) \/ Timeout(w)
       PROVE  KnownInv'
  <2>1. /\ UNCHANGED <<calls, early, queue, hand, ran>>
        /\ wpc[w] # "run" /\ wpc'[w] # "run" /\ \A v \in Workers \ {w} : wpc'[v] = wpc[v]
    BY <1>11, Frames DEF SeeStop, SeeNoStop, CheckSize, Timeout, Move, TypeOK, WorkerTypes
  <2>2. H'
    BY <1>1, <2>1, KnownStays DEF H
  <2>3. QED
    BY <1>2, <1>4, <1>5, <2>1, <2>2
<1>12. ASSUME NEW w \in Workers, Run(w)
       PROVE  KnownInv'
  <2>1. /\ UNCHANGED <<early, queue>>
        /\ wpc[w] = "run" /\ wpc'[w] = "check" /\ \A v \in Workers \ {w} : wpc'[v] = wpc[v]
        /\ hand'[w] = NoTask /\ \A v \in Workers \ {w} : hand'[v] = hand[v]
        /\ ran'[w] = ran[w] \cup {hand[w]} /\ \A v \in Workers \ {w} : ran'[v] = ran[v]
    BY <1>12, Frames DEF Run, Move, TypeOK, WorkerTypes
  <2>2. Known(hand[w])
    BY <1>1, <2>1 DEF H
  <2>3. H'
    BY <1>1, <2>1, <2>2, KnownStays DEF H
  <2>4. QED
    BY <1>2, <1>4, <1>5, <2>1, <2>3
<1>13. CASE Stop \/ Join
  BY <1>2, <1>3, <1>4, <1>5, <1>13, StopFrame
<1>14. QED
  BY <1>6, <1>7, <1>8, <1>9, <1>10, <1>11, <1>12, <1>13, NextCases

(* The order of one producer's tasks at one worker: a new task is newer     *)
(* than any there is, and what is taken is the oldest that was queued.      *)
LEMMA FifoStep == TypeOK /\ CallsInv /\ KnownInv /\ FifoPerProducer /\ [Next]_vars => FifoPerProducer'
<1> SUFFICES ASSUME TypeOK, CallsInv, KnownInv, FifoPerProducer, [Next]_vars PROVE FifoPerProducer'
  OBVIOUS
<1> DEFINE Sorted(w, o) == \A i, j \in 1..Len(queue[w][o]) : i < j => queue[w][o][i][2] < queue[w][o][j][2]
           Behind(w, o) == \A i \in 1..Len(queue[w][o]), task \in ran[w] \cup {hand[w]} :
                               task # NoTask /\ task[1] = o => task[2] < queue[w][o][i][2]
           Held(w, o) == \A task \in ran[w] :
                             hand[w] # NoTask /\ hand[w][1] = o /\ task[1] = o => task[2] < hand[w][2]
<1>1. \A w \in Workers, o \in Producers : Sorted(w, o) /\ Behind(w, o) /\ Held(w, o)
  BY DEF FifoPerProducer
<1>2. (\A w \in Workers, o \in Producers : Sorted(w, o)' /\ Behind(w, o)' /\ Held(w, o)') => FifoPerProducer'
  BY DEF FifoPerProducer
<1>3. ASSUME UNCHANGED <<queue, hand, ran>>
      PROVE  FifoPerProducer'
  BY <1>3 DEF FifoPerProducer
<1>4. ASSUME NEW w \in Workers, NEW o \in Producers, queue'[w][o] = queue[w][o], hand'[w] = hand[w], ran'[w] = ran[w]
      PROVE  Sorted(w, o)' /\ Behind(w, o)' /\ Held(w, o)'
  BY <1>1, <1>4
<1> HIDE DEF Sorted, Behind, Held
<1>5. \A w \in Workers : \A task \in ran[w] \cup {hand[w]} :
         task # NoTask => task[1] \in Producers /\ task[2] \in Nat /\ task[2] <= Len(calls[task[1]])
  <2>1. \A w \in Workers : \A task \in ran[w] \cup {hand[w]} : task # NoTask => Known(task)
    BY DEF KnownInv
  <2>2. \A task : Known(task) => task[1] \in Producers /\ task[2] \in Nat /\ task[2] <= Len(calls[task[1]])
    <3> SUFFICES ASSUME NEW task, Known(task)
                 PROVE  task[1] \in Producers /\ task[2] \in Nat /\ task[2] <= Len(calls[task[1]])
      OBVIOUS
    <3>1. task[1] \in Producers /\ task[2] \in Nat /\ task[2] \in 1..Len(calls[task[1]])
      BY DEF Known, Tasks
    <3>2. Len(calls[task[1]]) \in Nat
      BY <3>1, CallsGrow
    <3>3. QED
      BY <3>1, <3>2
  <2>3. QED
    BY <2>1, <2>2
<1>6. ASSUME NEW p \in Producers, Enqueue(p)
      PROVE  FifoPerProducer'
  <2>0. PICK v, task, n, m : /\ v = call[p].idx /\ task = <<p, Len(calls[p]) + 1>>
                             /\ n = Len(queue[v][p]) /\ m = Len(calls[p])
    OBVIOUS
  <2>1. /\ UNCHANGED <<hand, ran>> /\ v \in Workers
        /\ n \in Nat /\ Len(queue'[v][p]) = n + 1
        /\ queue'[v][p][n + 1] = task
        /\ \A i \in 1..n : queue'[v][p][i] = queue[v][p][i]
        /\ \A w \in Workers, o \in Producers : w # v \/ o # p => queue'[w][o] = queue[w][o]
    BY <1>6, <2>0, EnqueueStep
  <2>2. /\ m \in Nat /\ task[2] = m + 1
        /\ \A i \in 1..n : queue[v][p][i][2] \in Nat /\ queue[v][p][i][2] < task[2]
    <3>0. m \in Nat
      BY <2>0, CallsGrow
    <3>1. m \in Nat /\ task[2] = m + 1
      BY <2>0, <3>0
    <3>2. \A i \in 1..n : queue[v][p][i][2] \in Nat /\ queue[v][p][i][2] <= m
      BY <2>0, <2>1, QueueBound
    <3>3. QED
      BY <3>1, <3>2
  <2>3. Sorted(v, p)'
    <3> SUFFICES ASSUME NEW i \in 1..n + 1, NEW j \in 1..n + 1, i < j
                 PROVE  queue'[v][p][i][2] < queue'[v][p][j][2]
      BY <2>1 DEF Sorted
    <3>1. i \in 1..n /\ (j \in 1..n \/ j = n + 1)
      BY <2>1
    <3>2. CASE j \in 1..n
      BY <1>1, <2>0, <2>1, <3>1, <3>2 DEF Sorted
    <3>3. CASE j = n + 1
      BY <2>1, <2>2, <3>1, <3>3
    <3>4. QED
      BY <3>1, <3>2, <3>3
  <2>4. Behind(v, p)'
    <3> SUFFICES ASSUME NEW i \in 1..n + 1, NEW t \in ran[v] \cup {hand[v]}, t # NoTask, t[1] = p
                 PROVE  t[2] < queue'[v][p][i][2]
      BY <2>1 DEF Behind
    <3>1. i \in 1..n \/ i = n + 1
      BY <2>1
    <3>2. CASE i \in 1..n
      BY <1>1, <2>0, <2>1, <3>2 DEF Behind
    <3>3. CASE i = n + 1
      <4>1. t[2] \in Nat /\ t[2] <= m
        BY <1>5, <2>0, <2>1
      <4>2. QED
        BY <2>1, <2>2, <3>3, <4>1
    <3>4. QED
      BY <3>1, <3>2, <3>3
  <2>5. Held(v, p)'
    BY <1>1, <2>1 DEF Held
  <2>6. QED
    BY <1>2, <1>4, <2>1, <2>3, <2>4, <2>5
<1>7. ASSUME NEW w \in Workers, Dequeue(w)
      PROVE  FifoPerProducer'
  <2>1. PICK p \in Producers :
            LET q == queue[w][p]
            IN  /\ Len(q) \in Nat \ {0} /\ q[1] \in Tasks
                /\ hand' = [hand EXCEPT ![w] = q[1]]
                /\ Len(queue'[w][p]) = Len(q) - 1
                /\ \A i \in 1..Len(q) - 1 : queue'[w][p][i] = q[i + 1]
                /\ \A v \in Workers, o \in Producers : v # w \/ o # p => queue'[v][o] = queue[v][o]
                /\ UNCHANGED ran
    BY <1>7, DequeueStep
  <2>2. PICK q, n, task : q = queue[w][p] /\ n = Len(q) /\ task = q[1]
    OBVIOUS
  <2>3. hand'[w] = task /\ \A v \in Workers \ {w} : hand'[v] = hand[v]
    BY <2>1, <2>2 DEF TypeOK, WorkerTypes
  <2>4. /\ n \in Nat \ {0} /\ Len(queue'[w][p]) = n - 1
        /\ \A i \in 1..n - 1 : queue'[w][p][i] = q[i + 1]
        /\ \A v \in Workers, o \in Producers : v # w \/ o # p => queue'[v][o] = queue[v][o]
        /\ UNCHANGED ran
    BY <2>1, <2>2
  <2>5. \A i \in 1..n : q[i][1] = p /\ q[i][2] \in Nat
    BY <2>2, QueueBound
  <2>6. /\ \A i, j \in 1..n : i < j => q[i][2] < q[j][2]
        /\ \A i \in 1..n, t \in ran[w] \cup {hand[w]} : t # NoTask /\ t[1] = p => t[2] < q[i][2]
    BY <1>1, <2>2 DEF Sorted, Behind
  <2>7. 1 \in 1..n /\ \A i \in 1..n - 1 : i \in 1..n /\ i + 1 \in 1..n /\ 1 < i + 1
    BY <2>4
  <2>8. task[1] = p
    BY <2>2, <2>5, <2>7
  <2>9. \A t \in ran[w] : t # NoTask
    BY TaskIsSome DEF TypeOK, WorkerTypes
  <2>10. \A o \in Producers : Sorted(w, o)'
    <3>1. Sorted(w, p)'
      <4> SUFFICES ASSUME NEW i \in 1..n - 1, NEW j \in 1..n - 1, i < j
                   PROVE  queue'[w][p][i][2] < queue'[w][p][j][2]
        BY <2>4 DEF Sorted
      <4>1. queue'[w][p][i] = q[i + 1] /\ queue'[w][p][j] = q[j + 1]
        BY <2>4
      <4>2. i + 1 < j + 1
        BY <2>4
      <4>3. QED
        BY <2>6, <2>7, <4>1, <4>2
    <3>2. \A o \in Producers \ {p} : Sorted(w, o)'
      BY <1>1, <2>4 DEF Sorted
    <3>3. QED
      BY <3>1, <3>2
  <2>11. \A o \in Producers : Behind(w, o)'
    <3>1. Behind(w, p)'
      <4> SUFFICES ASSUME NEW i \in 1..n - 1, NEW t \in ran[w] \cup {task}, t # NoTask, t[1] = p
                   PROVE  t[2] < q[i + 1][2]
        BY <2>3, <2>4 DEF Behind
      <4>1. CASE t \in ran[w]
        BY <2>6, <2>7, <4>1
      <4>2. CASE t = task
        BY <2>2, <2>6, <2>7, <4>2
      <4>3. QED
        BY <4>1, <4>2
    <3>2. ASSUME NEW o \in Producers \ {p} PROVE Behind(w, o)'
      <4>1. queue'[w][o] = queue[w][o]
        BY <2>4
      <4>2. \A t \in ran[w] : t # NoTask
        BY <2>9
      <4>3. QED
        BY <1>1, <2>3, <2>4, <2>8, <4>1 DEF Behind
    <3>3. QED
      BY <3>1, <3>2
  <2>12. \A o \in Producers : Held(w, o)'
    <3> SUFFICES ASSUME NEW t \in ran[w], t[1] = p PROVE t[2] < task[2]
      BY <2>3, <2>4, <2>8 DEF Held
    <3>1. QED
      BY <2>2, <2>6, <2>7, <2>9
  <2>13. \A v \in Workers \ {w} : \A o \in Producers : Sorted(v, o)' /\ Behind(v, o)' /\ Held(v, o)'
    BY <1>4, <2>3, <2>4
  <2>14. QED
    BY <1>2, <2>10, <2>11, <2>12, <2>13
<1>8. ASSUME NEW w \in Workers, Run(w)
      PROVE  FifoPerProducer'
  <2>1. /\ UNCHANGED queue
        /\ hand'[w] = NoTask /\ \A v \in Workers \ {w} : hand'[v] = hand[v]
        /\ ran'[w] = ran[w] \cup {hand[w]} /\ \A v \in Workers \ {w} : ran'[v] = ran[v]
    BY <1>8, Frames DEF Run, Move, TypeOK, WorkerTypes
  <2>2. \A o \in Producers : Sorted(w, o)' /\ Behind(w, o)' /\ Held(w, o)'
    <3> TAKE o \in Producers
    <3>1. Sorted(w, o)'
      BY <1>1, <2>1 DEF Sorted
    <3>2. Behind(w, o)'
      BY <1>1, <2>1 DEF Behind
    <3>3. Held(w, o)'
      BY <2>1 DEF Held
    <3>4. QED
      BY <3>1, <3>2, <3>3
  <2>3. \A v \in Workers \ {w} : \A o \in Producers : Sorted(v, o)' /\ Behind(v, o)' /\ Held(v, o)'
    BY <1>4, <2>1
  <2>4. QED
    BY <1>2, <2>2, <2>3
<1>9. ASSUME NEW w \in Workers, SeeStop(w) \/ SeeNoStop(w) \/ CheckSize(w) \/ Timeout(w)
      PROVE  FifoPerProducer'
  BY <1>3, <1>9, Frames
<1>10. CASE Stop \/ Join
  BY <1>3, <1>10, StopFrame
<1>11. ASSUME NEW p \in Producers, NEW fn \in Called[p], NEW arg \in ArgsOf(fn), StopCheck(p, fn, arg)
       PROVE  FifoPerProducer'
  BY <1>3, <1>11 DEF StopCheck, workerVars
<1>12. ASSUME NEW p \in Producers, Route(p) \/ EnqueueFails(p)
       PROVE  FifoPerProducer'
  BY <1>3, <1>12 DEF Route, EnqueueFails, workerVars
<1>13. CASE UNCHANGED vars
  BY <1>3, <1>13 DEF vars, workerVars
<1>14. QED
  BY <1>6, <1>7, <1>8, <1>9, <1>10, <1>11, <1>12, <1>13, NextCases

\* What is somewhere in the pool was brought by a call that is over.
LEMMA AtKnown ==
  ASSUME TypeOK, KnownInv, NEW w \in Workers, NEW task \in Tasks, At(w, task)
  PROVE  Known(task)
<1>1. CASE hand[w] = task \/ task \in ran[w]
  BY <1>1, TaskIsSome DEF KnownInv
<1>2. CASE \E i \in 1..Len(queue[w][task[1]]) : queue[w][task[1]][i] = task
  <2>1. task[1] \in Producers
    BY DEF Tasks
  <2>2. PICK i \in 1..Len(queue[w][task[1]]) : queue[w][task[1]][i] = task
    BY <1>2
  <2>3. task[2] \in i..Len(calls[task[1]]) /\ i \in Nat /\ 1 <= i
    BY <2>1, <2>2, QueueBound DEF KnownInv
  <2>4. Len(calls[task[1]]) \in Nat
    BY <2>1, QueueBound
  <2>5. task[2] \in 1..Len(calls[task[1]])
    BY <2>3, <2>4
  <2>6. QED
    BY <2>5 DEF Known
<1>3. QED
  BY <1>1, <1>2 DEF At

\* try_enqueue adds one task at one worker.
LEMMA EnqueueAt ==
  ASSUME TypeOK, CallsInv, NEW p \in Producers, Enqueue(p), NEW w \in Workers, NEW task \in Tasks
  PROVE  At(w, task)' <=> At(w, task) \/ (w = call[p].idx /\ task = <<p, Len(calls[p]) + 1>>)
<1>1. PICK v, n, new : /\ v = call[p].idx /\ new = <<p, Len(calls[p]) + 1>> /\ n = Len(queue[v][p])
  OBVIOUS
<1>2. /\ v \in Workers /\ n \in Nat /\ Len(queue'[v][p]) = n + 1 /\ queue'[v][p][n + 1] = new
      /\ \A i \in 1..n : queue'[v][p][i] = queue[v][p][i]
      /\ \A u \in Workers, o \in Producers : u # v \/ o # p => queue'[u][o] = queue[u][o]
      /\ UNCHANGED <<hand, ran>>
  BY <1>1, EnqueueStep
<1>3. task[1] \in Producers /\ new[1] = p
  BY <1>1 DEF Tasks
<1> DEFINE In(q) == \E i \in 1..Len(q) : q[i] = task
<1>4. In(queue'[v][p]) <=> In(queue[v][p]) \/ task = new
  <2>1. n + 1 \in 1..n + 1 /\ \A i \in 1..n + 1 : i \in 1..n \/ i = n + 1
    BY <1>2
  <2>2. \A i \in 1..n : i \in 1..n + 1
    BY <1>2
  <2>3. QED
    BY <1>1, <1>2, <2>1, <2>2
<1>5. In(queue'[w][task[1]]) <=> In(queue[w][task[1]]) \/ (w = v /\ task = new)
  BY <1>2, <1>3, <1>4
<1>6. QED
  BY <1>1, <1>2, <1>5 DEF At

\* Taking a task out, or running it, leaves every task at its worker.
LEMMA DequeueAt ==
  ASSUME TypeOK, KnownInv, NEW w \in Workers, Dequeue(w), NEW v \in Workers, NEW task \in Tasks
  PROVE  At(v, task)' <=> At(v, task)
<1>1. PICK p \in Producers :
            LET q == queue[w][p]
            IN  /\ wpc[w] = "take"
                /\ Len(q) \in Nat \ {0}
                /\ hand' = [hand EXCEPT ![w] = q[1]]
                /\ Len(queue'[w][p]) = Len(q) - 1
                /\ \A i \in 1..Len(q) - 1 : queue'[w][p][i] = q[i + 1]
                /\ \A u \in Workers, o \in Producers : u # w \/ o # p => queue'[u][o] = queue[u][o]
                /\ UNCHANGED ran
  BY DequeueStep
<1>2. PICK q, n : q = queue[w][p] /\ n = Len(q)
  OBVIOUS
<1>3. hand[w] = NoTask /\ hand'[w] = q[1] /\ \A u \in Workers \ {w} : hand'[u] = hand[u]
  BY <1>1, <1>2 DEF KnownInv, TypeOK, WorkerTypes
<1>4. task[1] \in Producers /\ task # NoTask
  BY TaskIsSome DEF Tasks
<1>5. CASE v # w
  BY <1>1, <1>3, <1>4, <1>5 DEF At
<1>6. CASE v = w /\ task[1] # p
  <2>1. q[1][1] = p
    BY <1>1, <1>2, QueueBound
  <2>2. QED
    BY <1>1, <1>3, <1>4, <1>6, <2>1 DEF At
<1>7. CASE v = w /\ task[1] = p
  <2>1. n \in Nat \ {0} /\ Len(queue'[w][p]) = n - 1 /\ \A i \in 1..n - 1 : queue'[w][p][i] = q[i + 1]
    BY <1>1, <1>2
  <2>2. /\ 1 \in 1..n
        /\ \A i \in 1..n : i = 1 \/ (i - 1 \in 1..n - 1 /\ (i - 1) + 1 = i)
        /\ \A i \in 1..n - 1 : i + 1 \in 1..n
    BY <2>1
  <2>3. (\E i \in 1..n : q[i] = task) <=> q[1] = task \/ \E i \in 1..n - 1 : queue'[w][p][i] = task
    <3>1. ASSUME NEW i \in 1..n, q[i] = task, i # 1
          PROVE  \E j \in 1..n - 1 : queue'[w][p][j] = task
      <4>1. i - 1 \in 1..n - 1 /\ (i - 1) + 1 = i
        BY <2>2, <3>1
      <4>2. queue'[w][p][i - 1] = q[i]
        BY <2>1, <4>1
      <4>3. QED
        BY <3>1, <4>1, <4>2
    <3>2. ASSUME NEW j \in 1..n - 1, queue'[w][p][j] = task
          PROVE  \E i \in 1..n : q[i] = task
      BY <2>1, <2>2, <3>2
    <3>3. QED
      BY <2>2, <3>1, <3>2
  <2>4. QED
    BY <1>1, <1>2, <1>3, <1>4, <1>7, <2>1, <2>3 DEF At
<1>8. QED
  BY <1>5, <1>6, <1>7

LEMMA RunAt ==
  ASSUME TypeOK, NEW w \in Workers, Run(w), NEW v \in Workers, NEW task \in Tasks
  PROVE  At(v, task)' <=> At(v, task)
<1>1. /\ UNCHANGED queue
      /\ hand'[w] = NoTask /\ \A u \in Workers \ {w} : hand'[u] = hand[u]
      /\ ran'[w] = ran[w] \cup {hand[w]} /\ \A u \in Workers \ {w} : ran'[u] = ran[u]
  BY Frames DEF Run, Move, TypeOK, WorkerTypes
<1>2. task # NoTask
  BY TaskIsSome
<1>3. QED
  BY <1>1, <1>2 DEF At

(* Every task stays where it is; that of a call is put at one worker when   *)
(* the call succeeds, and nowhere when it fails.                            *)
LEMMA PlaceStep == TypeOK /\ CallsInv /\ KnownInv /\ PlaceInv /\ [Next]_vars => PlaceInv'
<1> SUFFICES ASSUME TypeOK, CallsInv, KnownInv, PlaceInv, [Next]_vars PROVE PlaceInv'
  OBVIOUS
<1>1. ASSUME UNCHANGED <<calls, early>>, \A w \in Workers, task \in Tasks : At(w, task)' <=> At(w, task)
      PROVE  PlaceInv'
  <2>1. \A p \in Producers, n \in Nat : <<p, n>> \in Tasks
    BY DEF Tasks
  <2>2. ASSUME NEW p \in Producers, NEW n \in 1..Len(calls[p]) PROVE Placed(p, n)'
    BY <1>1, <2>1 DEF PlaceInv, Placed
  <2>3. QED
    BY <1>1, <2>2 DEF PlaceInv
<1>2. \A w \in Workers : \A task : UNCHANGED <<queue, hand, ran>> => (At(w, task)' <=> At(w, task))
  BY DEF At
<1>3. ASSUME NEW p \in Producers, NEW fn \in Overloads, NEW outcome \in {"ok", "false", "threw"},
             Over(p, fn, outcome), NEW new, new = <<p, Len(calls[p]) + 1>>,
             \A w \in Workers, task \in Tasks : task # new => (At(w, task)' <=> At(w, task)),
             early' \subseteq early \cup {new},
             \A v, w \in Workers : At(v, new)' /\ At(w, new)' => v = w,
             outcome # "ok" => \A w \in Workers : ~At(w, new)',
             outcome = "ok" /\ fn # "submit" => \E w \in Workers : At(w, new)',
             new \in early' => \E w \in Workers : At(w, new)'
      PROVE  PlaceInv'
  <2> DEFINE m == Len(calls[p])
  <2>1. /\ m \in Nat /\ Len(calls'[p]) = m + 1
        /\ calls'[p][m + 1] = [fn |-> fn, outcome |-> outcome]
        /\ \A n \in 1..m : calls'[p][n] = calls[p][n]
        /\ \A q \in Producers \ {p} : calls'[q] = calls[q]
    BY <1>3, OverStep
  <2>2. new = <<p, m + 1>>
    BY <1>3
  <2> HIDE DEF m
  <2>3. ASSUME NEW q \in Producers, NEW n \in 1..Len(calls'[q]) PROVE Placed(q, n)'
    <3>1. CASE q = p /\ n = m + 1
      <4>1. calls'[q][n].outcome = outcome /\ calls'[q][n].fn = fn /\ <<q, n>> = new
        BY <2>1, <2>2, <3>1
      <4>2. QED
        BY <1>3, <4>1 DEF Placed
    <3>2. CASE ~(q = p /\ n = m + 1)
      <4>1. n \in 1..Len(calls[q]) /\ calls'[q][n] = calls[q][n]
        BY <2>1, <3>2 DEF m
      <4>2. <<q, n>> \in Tasks /\ <<q, n>> # new
        BY <2>1, <2>2, <3>2, <4>1 DEF Tasks
      <4>3. Placed(q, n)
        BY <4>1 DEF PlaceInv
      <4>4. QED
        BY <1>3, <4>1, <4>2, <4>3 DEF Placed
    <3>3. QED
      BY <3>1, <3>2
  <2>4. QED
    BY <2>3 DEF PlaceInv
<1>4. \A p \in Producers : \A new : new = <<p, Len(calls[p]) + 1>> =>
         new \in Tasks /\ new \notin early /\ \A w \in Workers : ~At(w, new)
  <2> SUFFICES ASSUME NEW p \in Producers, NEW new, new = <<p, Len(calls[p]) + 1>>
               PROVE  new \in Tasks /\ new \notin early /\ \A w \in Workers : ~At(w, new)
    OBVIOUS
  <2>1. Len(calls[p]) \in Nat
    BY CallsGrow
  <2>2. new \in Tasks /\ new[1] = p /\ new[2] = Len(calls[p]) + 1
    BY <2>1 DEF Tasks
  <2>3. ~Known(new)
    BY <2>1, <2>2 DEF Known
  <2>4. QED
    BY <2>2, <2>3, AtKnown DEF KnownInv
<1>5. ASSUME NEW p \in Producers, NEW fn \in Overloads, NEW outcome \in {"ok", "false", "threw"},
             Over(p, fn, outcome), outcome = "ok" => fn = "submit", UNCHANGED <<early, queue, hand, ran>>
      PROVE  PlaceInv'
  <2>1. PICK new : new = <<p, Len(calls[p]) + 1>>
    OBVIOUS
  <2>2. new \notin early /\ \A w \in Workers : ~At(w, new)
    BY <1>4, <2>1
  <2>3. QED
    BY <1>2, <1>3, <1>5, <2>1, <2>2
<1>6. ASSUME NEW p \in Producers, NEW fn \in Called[p], NEW arg \in ArgsOf(fn), StopCheck(p, fn, arg)
      PROVE  PlaceInv'
  <2>1. fn \in Overloads /\ UNCHANGED <<early, queue, hand, ran>>
    BY <1>6, CallsAssumption DEF StopCheck, workerVars
  <2>2. UNCHANGED calls \/ Over(p, fn, "threw")
    BY <1>6 DEF StopCheck
  <2>3. QED
    BY <1>1, <1>2, <1>5, <2>1, <2>2
<1>7. ASSUME NEW p \in Producers, Route(p)
      PROVE  PlaceInv'
  BY <1>1, <1>2, <1>7 DEF Route, workerVars
<1>8. ASSUME NEW p \in Producers, EnqueueFails(p)
      PROVE  PlaceInv'
  <2>1. call[p].fn \in Overloads
    BY <1>8 DEF EnqueueFails, CallsInv
  <2>2. /\ Refused(call[p].fn) \in {"ok", "false", "threw"}
        /\ Refused(call[p].fn) = "ok" => call[p].fn = "submit"
    BY <2>1 DEF Refused, Overloads
  <2>3. Over(p, call[p].fn, Refused(call[p].fn)) /\ UNCHANGED <<early, queue, hand, ran>>
    BY <1>8 DEF EnqueueFails, workerVars
  <2>4. QED
    BY <1>5, <2>1, <2>2, <2>3
<1>9. ASSUME NEW p \in Producers, Enqueue(p)
      PROVE  PlaceInv'
  <2>1. PICK new, v : new = <<p, Len(calls[p]) + 1>> /\ v = call[p].idx
    OBVIOUS
  <2>2. new \in Tasks /\ \A w \in Workers : ~At(w, new)
    BY <1>4, <2>1
  <2>3. \A w \in Workers, task \in Tasks : At(w, task)' <=> At(w, task) \/ (w = v /\ task = new)
    BY <1>9, <2>1, EnqueueAt
  <2>4. /\ v \in Workers /\ call[p].fn \in Overloads /\ Over(p, call[p].fn, "ok")
        /\ early' \subseteq early \cup {new}
    BY <1>9, <2>1, EnqueueStep
  <2>5. QED
    BY <1>3, <2>1, <2>2, <2>3, <2>4
<1>10. ASSUME NEW w \in Workers, Dequeue(w)
       PROVE  PlaceInv'
  <2>1. UNCHANGED <<calls, early>>
    BY <1>10, DequeueStep
  <2>2. QED
    BY <1>1, <1>10, <2>1, DequeueAt
<1>11. ASSUME NEW w \in Workers, Run(w)
       PROVE  PlaceInv'
  BY <1>1, <1>11, Frames, RunAt
<1>12. ASSUME NEW w \in Workers, SeeStop(w) \/ SeeNoStop(w) \/ CheckSize(w) \/ Timeout(w)
       PROVE  PlaceInv'
  BY <1>1, <1>2, <1>12, Frames
<1>13. CASE Stop \/ Join
  BY <1>1, <1>2, <1>13, StopFrame
<1>14. CASE UNCHANGED vars
  BY <1>1, <1>2, <1>14 DEF vars, workerVars, producerVars
<1>15. QED
  BY <1>6, <1>7, <1>8, <1>9, <1>10, <1>11, <1>12, <1>13, <1>14, NextCases

\* A worker that left its loop stays out of it, and stop() joins no other.
LEMMA JoinStep == TypeOK /\ JoinInv /\ [Next]_vars => JoinInv'
<1> SUFFICES ASSUME TypeOK, JoinInv, [Next]_vars PROVE JoinInv'
  OBVIOUS
<1>1. ASSUME UNCHANGED <<joined, wpc>> PROVE JoinInv'
  BY <1>1 DEF JoinInv
<1>2. ASSUME NEW w \in Workers, wpc[w] # "exited", \A v \in Workers \ {w} : wpc'[v] = wpc[v], UNCHANGED joined
      PROVE  JoinInv'
  BY <1>2 DEF JoinInv
<1>3. ASSUME NEW w \in Workers, Work(w) PROVE JoinInv'
  <2>1. \E from \in {"check", "size", "take", "run"} : \E to : Move(w, from, to)
    BY <1>3 DEF Work, SeeStop, SeeNoStop, CheckSize, Dequeue, Timeout, Run
  <2>2. wpc[w] # "exited" /\ \A v \in Workers \ {w} : wpc'[v] = wpc[v]
    BY <2>1 DEF Move, TypeOK, WorkerTypes
  <2>3. UNCHANGED joined
    BY <1>3 DEF Work, SeeStop, SeeNoStop, CheckSize, Dequeue, Timeout, Run, poolVars
  <2>4. QED
    BY <1>2, <2>2, <2>3
<1>4. ASSUME NEW p \in Producers, Call(p) \/ Produce(p) PROVE JoinInv'
  BY <1>1, <1>4 DEF Call, StopCheck, Produce, Route, Enqueue, EnqueueFails, poolVars, workerVars
<1>5. CASE Stop
  BY <1>1, <1>5 DEF Stop, workerVars
<1>6. CASE Join
  <2>1. joined \in Nat /\ joined' = joined + 1 /\ wpc[joined] = "exited" /\ wpc' = wpc
    BY <1>6, WorkerNumAssumption DEF Join, workerVars, TypeOK, PoolTypes
  <2>2. \A w \in Workers : w < joined' => w < joined \/ w = joined
    BY <2>1, WorkerNumAssumption DEF Workers
  <2>3. QED
    BY <2>1, <2>2 DEF JoinInv
<1>7. CASE UNCHANGED vars
  BY <1>1, <1>7 DEF vars, poolVars, workerVars
<1>8. QED
  BY <1>3, <1>4, <1>5, <1>6, <1>7 DEF Next

(* A worker leaves an empty queue behind; what is put in it afterwards is   *)
(* put there after stop() set the flag.                                     *)
LEMMA ExitedStep ==
  TypeOK /\ CallsInv /\ KnownInv /\ ExitedWorkerLeftOnlyLateTasks /\ [Next]_vars
    => ExitedWorkerLeftOnlyLateTasks'
<1> SUFFICES ASSUME TypeOK, CallsInv, KnownInv, ExitedWorkerLeftOnlyLateTasks, [Next]_vars
             PROVE  ExitedWorkerLeftOnlyLateTasks'
  OBVIOUS
<1> DEFINE Late(w) == \A p \in Producers : \A i \in 1..Len(queue[w][p]) : queue[w][p][i] \notin early
           Left(w) == /\ wpc[w] \in {"size", "exited"} => stop_
                      /\ wpc[w] = "exited" => hand[w] = NoTask /\ Late(w)
<1>1. \A w \in Workers : Left(w)
  BY DEF ExitedWorkerLeftOnlyLateTasks
<1>2. (\A w \in Workers : Left(w)') => ExitedWorkerLeftOnlyLateTasks'
  BY DEF ExitedWorkerLeftOnlyLateTasks
<1>3. \A w \in Workers : queue'[w] = queue[w] /\ early' = early => (Late(w)' <=> Late(w))
  OBVIOUS
<1> HIDE DEF Late
<1>4. ASSUME stop_ => stop_', UNCHANGED <<early, queue, wpc, hand>>
      PROVE  ExitedWorkerLeftOnlyLateTasks'
  BY <1>1, <1>2, <1>3, <1>4
<1>5. ASSUME NEW w \in Workers, Left(w)', UNCHANGED <<stop_, early>>,
             \A v \in Workers \ {w} : queue'[v] = queue[v] /\ wpc'[v] = wpc[v] /\ hand'[v] = hand[v]
      PROVE  ExitedWorkerLeftOnlyLateTasks'
  BY <1>1, <1>2, <1>3, <1>5
<1> HIDE DEF Left
<1>6. ASSUME NEW p \in Producers, Enqueue(p)
      PROVE  ExitedWorkerLeftOnlyLateTasks'
  <2>1. PICK v, n, new : /\ v = call[p].idx /\ new = <<p, Len(calls[p]) + 1>> /\ n = Len(queue[v][p])
    OBVIOUS
  <2>2. /\ v \in Workers /\ n \in Nat /\ Len(queue'[v][p]) = n + 1 /\ queue'[v][p][n + 1] = new
        /\ \A i \in 1..n : queue'[v][p][i] = queue[v][p][i]
        /\ \A w \in Workers, o \in Producers : w # v \/ o # p => queue'[w][o] = queue[w][o]
        /\ UNCHANGED <<stop_, wpc, hand>>
        /\ stop_ => early' = early
    BY <1>6, <2>1, EnqueueStep
  <2>3. new \notin early
    <3>1. Len(calls[p]) \in Nat /\ new[1] = p /\ new[2] = Len(calls[p]) + 1
      BY <2>1, CallsGrow
    <3>2. ~Known(new)
      BY <3>1 DEF Known
    <3>3. QED
      BY <3>2 DEF KnownInv
  <2>4. ASSUME stop_, NEW w \in Workers, Late(w) PROVE Late(w)'
    <3> SUFFICES ASSUME NEW o \in Producers, NEW i \in 1..Len(queue'[w][o]) PROVE queue'[w][o][i] \notin early
      BY <2>2, <2>4 DEF Late
    <3>1. CASE w = v /\ o = p /\ i = n + 1
      BY <2>2, <2>3, <3>1
    <3>2. CASE w = v /\ o = p /\ i # n + 1
      <4>1. i \in 1..n
        BY <2>2, <3>2
      <4>2. QED
        BY <2>1, <2>2, <2>4, <3>2, <4>1 DEF Late
    <3>3. CASE w # v \/ o # p
      BY <2>2, <2>4, <3>3 DEF Late
    <3>4. QED
      BY <3>1, <3>2, <3>3
  <2>5. QED
    BY <1>1, <1>2, <2>2, <2>4 DEF Left
<1>7. ASSUME NEW w \in Workers, Dequeue(w)
      PROVE  ExitedWorkerLeftOnlyLateTasks'
  <2>1. PICK p \in Producers :
            /\ wpc' = [wpc EXCEPT ![w] = "run"]
            /\ hand' = [hand EXCEPT ![w] = queue[w][p][1]]
            /\ UNCHANGED <<stop_, early>>
    BY <1>7, DequeueStep
  <2>2. \A v \in Workers \ {w} : queue'[v] = queue[v]
    BY <1>7 DEF Dequeue, TypeOK, QueueTypes
  <2>3. /\ wpc'[w] = "run"
        /\ \A v \in Workers \ {w} : wpc'[v] = wpc[v] /\ hand'[v] = hand[v]
    BY <2>1 DEF TypeOK, WorkerTypes
  <2>4. Left(w)'
    BY <2>3 DEF Left
  <2>5. QED
    BY <1>5, <2>1, <2>2, <2>3, <2>4
<1>8. ASSUME NEW w \in Workers, Run(w)
      PROVE  ExitedWorkerLeftOnlyLateTasks'
  <2>1. /\ UNCHANGED <<stop_, early, queue>> /\ wpc'[w] = "check"
        /\ \A v \in Workers \ {w} : wpc'[v] = wpc[v] /\ hand'[v] = hand[v]
    BY <1>8, Frames DEF Run, Move, TypeOK, WorkerTypes
  <2>2. Left(w)'
    BY <2>1 DEF Left
  <2>3. QED
    BY <1>5, <2>1, <2>2
<1>9. ASSUME NEW w \in Workers, SeeStop(w) \/ SeeNoStop(w) \/ CheckSize(w) \/ Timeout(w)
      PROVE  ExitedWorkerLeftOnlyLateTasks'
  <2>1. /\ UNCHANGED <<stop_, early, queue, hand>>
        /\ \A v \in Workers \ {w} : wpc'[v] = wpc[v]
    BY <1>9, Frames DEF SeeStop, SeeNoStop, CheckSize, Timeout, Move, TypeOK, WorkerTypes
  <2>2. CASE SeeStop(w)
    <3>1. stop_ /\ wpc'[w] = "size"
      BY <2>2 DEF SeeStop, Move, TypeOK, WorkerTypes
    <3>2. QED
      BY <1>5, <2>1, <3>1 DEF Left
  <2>3. CASE SeeNoStop(w) \/ Timeout(w)
    <3>1. wpc'[w] \in {"check", "take"}
      BY <2>3 DEF SeeNoStop, Timeout, Move, TypeOK, WorkerTypes
    <3>2. QED
      BY <1>5, <2>1, <3>1 DEF Left
  <2>4. CASE CheckSize(w)
    <3>1. wpc[w] = "size" /\ wpc'[w] = IF Empty(w) THEN "exited" ELSE "take"
      BY <2>4 DEF CheckSize, Move, TypeOK, WorkerTypes
    <3>2. stop_ /\ hand[w] = NoTask
      BY <1>1, <3>1 DEF Left, KnownInv
    <3>3. Empty(w) => Late(w)
      BY DEF Empty, Late
    <3>4. Left(w)'
      BY <1>3, <2>1, <3>1, <3>2, <3>3 DEF Left
    <3>5. QED
      BY <1>5, <2>1, <3>4
  <2>5. QED
    BY <1>9, <2>2, <2>3, <2>4
<1>10. CASE Stop \/ Join
  <2>1. stop_ => stop_'
    BY <1>10 DEF Stop, Join
  <2>2. QED
    BY <1>4, <1>10, <2>1, StopFrame
<1>11. ASSUME NEW p \in Producers, NEW fn \in Called[p], NEW arg \in ArgsOf(fn), StopCheck(p, fn, arg)
       PROVE  ExitedWorkerLeftOnlyLateTasks'
  BY <1>4, <1>11 DEF StopCheck, poolVars, workerVars
<1>12. ASSUME NEW p \in Producers, Route(p) \/ EnqueueFails(p)
       PROVE  ExitedWorkerLeftOnlyLateTasks'
  BY <1>4, <1>12 DEF Route, EnqueueFails, poolVars, workerVars
<1>13. CASE UNCHANGED vars
  BY <1>4, <1>13 DEF vars, poolVars, workerVars, producerVars
<1>14. QED
  BY <1>6, <1>7, <1>8, <1>9, <1>10, <1>11, <1>12, <1>13, NextCases

LEMMA InvStep == Inv /\ [Next]_vars => Inv'
BY TypeStep, CallsStep, KnownStep, PlaceStep, JoinStep, FifoStep, ExitedStep DEF Inv

LEMMA Invariance == Spec => []Inv
BY InitInv, InvStep, PTL DEF Spec

-----------------------------------------------------------------------------
(* The properties *)

(* The flag, the counters, the queues and the threads keep their types,     *)
(* however many producers and workers there are.                            *)
THEOREM TypeCorrect == Spec => []TypeOK
BY Invariance, PTL DEF Inv

(* A worker runs the tasks of one producer in the order of its calls        *)
(* (thread_pool.cpp:19-28).                                                 *)
THEOREM FifoCorrect == Spec => []FifoPerProducer
BY Invariance, PTL DEF Inv

(* A worker that left its loop has nothing in its hands and leaves only     *)
(* tasks behind that came after stop() set the flag (thread_pool.cpp:20).   *)
THEOREM ExitCorrect == Spec => []ExitedWorkerLeftOnlyLateTasks
BY Invariance, PTL DEF Inv

(* Only the number of consumers, passed as a number, and the wrapped        *)
(* counter leave the vector of consumers (thread_pool.h:100, 121, 154).     *)
THEOREM IndexCorrect == Spec => []IndexInRange
BY Invariance, PTL DEF Inv

(* stop() returns after every worker left its loop, and no task that came   *)
(* before it is then in a queue or in a hand (thread_pool.cpp:40-46).       *)
THEOREM DrainCorrect == Spec => []DrainedBeforeStopReturns
<1>1. Inv => DrainedBeforeStopReturns
  <2> SUFFICES ASSUME Inv, StopReturned, NEW task \in early PROVE \E w \in Workers : task \in ran[w]
    BY DEF DrainedBeforeStopReturns, RanTasks
  <2>1. \A w \in Workers : wpc[w] = "exited"
    BY WorkerNumAssumption DEF StopReturned, Inv, JoinInv, Workers
  <2>2. task \in Tasks /\ task[1] \in Producers /\ task[2] \in 1..Len(calls[task[1]])
    BY DEF Inv, KnownInv, Known, Tasks
  <2>3. PICK p \in Producers, n \in 1..Len(calls[task[1]]) : task = <<p, n>>
    BY <2>2 DEF Tasks
  <2>4. PICK w \in Workers : At(w, task)
    <3>1. n \in 1..Len(calls[p])
      BY <2>3
    <3>2. QED
      BY <2>3, <3>1 DEF Inv, PlaceInv, Placed
  <2>5. /\ hand[w] # task
        /\ \A i \in 1..Len(queue[w][p]) : queue[w][p][i] # task
    BY <2>1, <2>2, TaskIsSome DEF Inv, ExitedWorkerLeftOnlyLateTasks
  <2>6. QED
    BY <2>3, <2>4, <2>5 DEF At
<1>2. QED
  BY <1>1, Invariance, PTL

\* A task at a worker is in one slot of its queue, or in its hands, or was run.
LEMMA OnePlace ==
  ASSUME Inv, NEW w \in Workers, NEW task \in Tasks, At(w, task),
         \A v \in Workers : At(v, task) => v = w
  PROVE  LET Holders == {v \in Workers : hand[v] = task}
             Runners == {v \in Workers : task \in ran[v]}
         IN  \/ (\E slot : SlotsOf(task) = {slot}) /\ Holders = {} /\ Runners = {}
             \/ SlotsOf(task) = {} /\ Holders = {w} /\ Runners = {}
             \/ SlotsOf(task) = {} /\ Holders = {} /\ Runners = {w}
<1> DEFINE p == task[1]
           q == queue[w][p]
           n == Len(q)
<1>1. p \in Producers /\ task # NoTask /\ task[2] \in Nat
  BY TaskIsSome DEF Tasks
<1>2. n \in Nat /\ n <= MaxCalls
  <2>1. Len(q) \in Nat /\ Len(calls[p]) \in Nat /\ Len(q) <= Len(calls[p])
    BY <1>1, QueueBound DEF Inv
  <2>2. Len(calls[p]) <= MaxCalls
    BY <1>1 DEF Inv, CallsInv
  <2>3. QED
    BY <2>1, <2>2, BoundsAssumption
<1>3. /\ \A i, j \in 1..n : i < j => q[i][2] < q[j][2]
      /\ \A i \in 1..n, t \in ran[w] \cup {hand[w]} : t # NoTask /\ t[1] = p => t[2] < q[i][2]
      /\ \A t \in ran[w] : hand[w] # NoTask /\ hand[w][1] = p /\ t[1] = p => t[2] < hand[w][2]
  BY <1>1 DEF Inv, FifoPerProducer
<1>4. \A i, j \in 1..n : q[i] = task /\ q[j] = task => i = j
  BY <1>1, <1>2, <1>3
<1>5. /\ (\E i \in 1..n : q[i] = task) => hand[w] # task /\ task \notin ran[w]
      /\ hand[w] = task => task \notin ran[w]
  BY <1>1, <1>3
<1>6. \A v \in Workers \ {w} : /\ \A i \in 1..Len(queue[v][p]) : queue[v][p][i] # task
                               /\ hand[v] # task /\ task \notin ran[v]
  BY DEF At
<1>7. \A v \in Workers : Len(queue[v][p]) \in Nat
  BY <1>1, QueueBound DEF Inv
<1>8. \A v \in Workers \ {w}, i \in 1..MaxCalls : ~(i <= Len(queue[v][p]) /\ queue[v][p][i] = task)
  BY <1>6, <1>7, BoundsAssumption
<1>9. CASE \E i \in 1..n : q[i] = task
  <2>1. PICK i \in 1..n : q[i] = task
    BY <1>9
  <2>2. i \in 1..MaxCalls /\ i <= n /\ \A j \in 1..MaxCalls : j <= n => j \in 1..n
    BY <1>2, BoundsAssumption
  <2>3. SlotsOf(task) = {<<w, i>>}
    <3>1. \A slot \in SlotsOf(task) : slot = <<w, i>>
      <4> TAKE slot \in SlotsOf(task)
      <4>1. /\ slot \in Workers \X (1..MaxCalls) /\ slot[2] <= Len(queue[slot[1]][p])
            /\ queue[slot[1]][p][slot[2]] = task
        BY DEF SlotsOf
      <4>2. slot[1] = w
        BY <1>8, <4>1
      <4>3. slot[2] \in 1..n
        BY <2>2, <4>1, <4>2
      <4>4. slot[2] = i
        BY <1>4, <2>1, <4>1, <4>2, <4>3
      <4>5. QED
        BY <4>1, <4>2, <4>4
    <3>2. <<w, i>> \in SlotsOf(task)
      BY <2>1, <2>2 DEF SlotsOf
    <3>3. QED
      BY <3>1, <3>2
  <2>4. QED
    BY <1>5, <1>6, <1>9, <2>3
<1>10. CASE \A i \in 1..n : q[i] # task
  <2>1. SlotsOf(task) = {}
    <3> SUFFICES ASSUME NEW slot \in SlotsOf(task) PROVE FALSE
      OBVIOUS
    <3>1. /\ slot \in Workers \X (1..MaxCalls) /\ slot[2] <= Len(queue[slot[1]][p])
          /\ queue[slot[1]][p][slot[2]] = task
      BY DEF SlotsOf
    <3>2. slot[1] = w
      BY <1>8, <3>1
    <3>3. slot[2] \in 1..n
      BY <1>2, <3>1, <3>2, BoundsAssumption
    <3>4. QED
      BY <1>10, <3>1, <3>2, <3>3
  <2>2. hand[w] = task \/ task \in ran[w]
    BY <1>10 DEF At
  <2>3. QED
    BY <1>5, <1>6, <2>1, <2>2
<1>11. QED
  BY <1>9, <1>10

\* A task at no worker is in no slot, in no hand, and was not run.
LEMMA NoPlace ==
  ASSUME Inv, NEW task \in Tasks, \A w \in Workers : ~At(w, task)
  PROVE  /\ SlotsOf(task) = {}
         /\ {v \in Workers : hand[v] = task} = {}
         /\ {v \in Workers : task \in ran[v]} = {}
<1>1. SlotsOf(task) = {}
  <2> SUFFICES ASSUME NEW slot \in SlotsOf(task) PROVE FALSE
    OBVIOUS
  <2>1. /\ slot \in Workers \X (1..MaxCalls) /\ slot[2] <= Len(queue[slot[1]][task[1]])
        /\ queue[slot[1]][task[1]][slot[2]] = task
    BY DEF SlotsOf
  <2>2. Len(queue[slot[1]][task[1]]) \in Nat
    BY <2>1, QueueBound DEF Inv, Tasks
  <2>3. slot[2] \in 1..Len(queue[slot[1]][task[1]])
    BY <2>1, <2>2, BoundsAssumption
  <2>4. QED
    BY <2>1, <2>3 DEF At
<1>2. QED
  BY <1>1 DEF At

(* Each call leaves its task in one place or, when it failed or was         *)
(* submit(f), in none; and what was run is never run again                  *)
(* (thread_pool.h:85-187).                                                  *)
THEOREM ExactlyOnceCorrect == Spec => []ExactlyOnce
<1>1. Inv => ExactlyOnce
  <2> SUFFICES ASSUME Inv, NEW p \in Producers, NEW n \in 1..Len(calls[p]), NEW task, task = <<p, n>>
               PROVE  LET places == Cardinality(SlotsOf(task))
                                      + Cardinality({w \in Workers : hand[w] = task})
                                      + Cardinality({w \in Workers : task \in ran[w]})
                      IN  /\ calls[p][n].outcome # "ok" => places = 0
                          /\ calls[p][n].outcome = "ok" =>
                                places = 1 \/ (calls[p][n].fn = "submit" /\ places = 0)
    BY DEF ExactlyOnce
  <2> DEFINE Holders == {w \in Workers : hand[w] = task}
             Runners == {w \in Workers : task \in ran[w]}
             places == Cardinality(SlotsOf(task)) + Cardinality(Holders) + Cardinality(Runners)
  <2>1. task \in Tasks
    BY DEF Tasks
  <2>2. Placed(p, n)
    BY DEF Inv, PlaceInv
  <2>3. CASE \E w \in Workers : At(w, task)
    <3>1. PICK w \in Workers : At(w, task)
      BY <2>3
    <3>2. \A v \in Workers : At(v, task) => v = w
      BY <2>2, <3>1 DEF Placed
    <3>3. \/ (\E slot : SlotsOf(task) = {slot}) /\ Holders = {} /\ Runners = {}
          \/ SlotsOf(task) = {} /\ Holders = {w} /\ Runners = {}
          \/ SlotsOf(task) = {} /\ Holders = {} /\ Runners = {w}
      BY <2>1, <3>1, <3>2, OnePlace
    <3> HIDE DEF Holders, Runners
    <3>4. places = 1
      <4>1. Cardinality({}) = 0 /\ \A x : Cardinality({x}) = 1
        BY FS_EmptySet, FS_Singleton
      <4>2. \/ Cardinality(SlotsOf(task)) = 1 /\ Cardinality(Holders) = 0 /\ Cardinality(Runners) = 0
            \/ Cardinality(SlotsOf(task)) = 0 /\ Cardinality(Holders) = 1 /\ Cardinality(Runners) = 0
            \/ Cardinality(SlotsOf(task)) = 0 /\ Cardinality(Holders) = 0 /\ Cardinality(Runners) = 1
        BY <3>3, <4>1, Zenon
      <4>3. QED
        BY <4>2
    <3>5. calls[p][n].outcome = "ok"
      BY <2>2, <2>3 DEF Placed
    <3>6. QED
      BY <3>4, <3>5 DEF Holders, Runners
  <2>4. CASE ~\E w \in Workers : At(w, task)
    <3>1. SlotsOf(task) = {} /\ Holders = {} /\ Runners = {}
      BY <2>1, <2>4, NoPlace
    <3> HIDE DEF Holders, Runners
    <3>2. places = 0
      <4>1. Cardinality({}) = 0
        BY FS_EmptySet
      <4>2. Cardinality(SlotsOf(task)) = 0 /\ Cardinality(Holders) = 0 /\ Cardinality(Runners) = 0
        BY <3>1, <4>1, Zenon
      <4>3. QED
        BY <4>2
    <3>3. calls[p][n].outcome = "ok" => calls[p][n].fn = "submit"
      BY <2>2, <2>4 DEF Placed
    <3>4. QED
      BY <3>2, <3>3 DEF Holders, Runners
  <2>5. QED
    BY <2>3, <2>4
<1>2. QED
  BY <1>1, Invariance, PTL

-----------------------------------------------------------------------------
(* The pool implements TaskService.  A call that is over is an Accept or a  *)
(* Refuse, a task is started when it is taken and finished when it was run, *)
(* and every other step leaves the abstract state alone.                    *)

LEMMA TasksInitStep == Init => Tasks_!TasksInit
<1> SUFFICES ASSUME Init PROVE Tasks_!TasksInit
  OBVIOUS
<1>1. [p \in Producers |-> Len(calls[p])] = [p \in Producers |-> 0]
  BY DEF Init
<1>2. QED
  BY <1>1 DEF Init, Tasks_!TasksInit, NoTask, Tasks_!NoTask

LEMMA TasksStep == Inv /\ [Next]_vars => [Tasks_!TasksNext]_(Tasks_!tasks)
<1> SUFFICES ASSUME Inv, [Next]_vars PROVE [Tasks_!TasksNext]_(Tasks_!tasks)
  OBVIOUS
<1> DEFINE given == [p \in Producers |-> Len(calls[p])]
<1>1. TypeOK /\ CallsInv /\ KnownInv
  BY DEF Inv
<1>2. ASSUME UNCHANGED <<calls, queue, hand>>
      PROVE  UNCHANGED Tasks_!tasks
  BY <1>2 DEF Tasks_!tasks
<1>3. ASSUME NEW p \in Producers, NEW fn \in Overloads, NEW outcome \in {"ok", "false", "threw"}, Over(p, fn, outcome)
      PROVE  given' = [given EXCEPT ![p] = @ + 1]
  <2>1. /\ Len(calls'[p]) = Len(calls[p]) + 1
        /\ \A q \in Producers \ {p} : calls'[q] = calls[q]
    BY <1>1, <1>3, OverStep
  <2>2. QED
    BY <2>1
<1>4. ASSUME NEW p \in Producers, NEW fn \in Called[p], NEW arg \in ArgsOf(fn), StopCheck(p, fn, arg)
      PROVE  Tasks_!Refuse(p) \/ UNCHANGED Tasks_!tasks
  <2>1. fn \in Overloads /\ UNCHANGED <<queue, hand>>
    BY <1>4, CallsAssumption DEF StopCheck, workerVars
  <2>2. UNCHANGED calls \/ Over(p, fn, "threw")
    BY <1>4 DEF StopCheck
  <2>3. QED
    BY <1>2, <1>3, <2>1, <2>2 DEF Tasks_!Refuse
<1>5. ASSUME NEW p \in Producers, Enqueue(p)
      PROVE  \E w \in Workers : Tasks_!Accept(p, w)
  <2>1. /\ call[p].idx \in Workers /\ call[p].fn \in Overloads /\ Over(p, call[p].fn, "ok")
        /\ UNCHANGED hand
    BY <1>1, <1>5, EnqueueStep
  <2>2. given' = [given EXCEPT ![p] = @ + 1]
    BY <1>3, <2>1
  <2>3. queue' = [queue EXCEPT ![call[p].idx][p] = Append(@, <<p, given[p] + 1>>)]
    BY <1>5 DEF Enqueue
  <2>4. QED
    BY <2>1, <2>2, <2>3 DEF Tasks_!Accept
<1>6. ASSUME NEW p \in Producers, EnqueueFails(p)
      PROVE  Tasks_!Refuse(p)
  <2>1. call[p].fn \in Overloads
    BY <1>1, <1>6 DEF EnqueueFails, CallsInv
  <2>2. Refused(call[p].fn) \in {"ok", "false", "threw"}
    BY <2>1 DEF Refused, Overloads
  <2>3. Over(p, call[p].fn, Refused(call[p].fn)) /\ UNCHANGED <<queue, hand>>
    BY <1>6 DEF EnqueueFails, workerVars
  <2>4. QED
    BY <1>3, <2>1, <2>2, <2>3 DEF Tasks_!Refuse
<1>7. ASSUME NEW w \in Workers, Dequeue(w)
      PROVE  \E p \in Producers : Tasks_!Start(w, p)
  <2>1. hand[w] = <<>>
    BY <1>1, <1>7 DEF Dequeue, Move, KnownInv, NoTask
  <2>2. UNCHANGED given
    BY <1>7 DEF Dequeue, producerVars
  <2>3. QED
    BY <1>7, <2>1, <2>2 DEF Dequeue, Tasks_!Start, Tasks_!NoTask
<1>8. ASSUME NEW w \in Workers, Run(w)
      PROVE  Tasks_!Finish(w)
  <2>1. hand[w] # <<>> /\ hand' = [hand EXCEPT ![w] = <<>>]
    BY <1>1, <1>8 DEF Run, Move, KnownInv, NoTask
  <2>2. UNCHANGED <<given, queue>>
    BY <1>8 DEF Run, producerVars
  <2>3. QED
    BY <2>1, <2>2 DEF Tasks_!Finish, Tasks_!NoTask
<1>9. ASSUME NEW w \in Workers, SeeStop(w) \/ SeeNoStop(w) \/ CheckSize(w) \/ Timeout(w)
      PROVE  UNCHANGED Tasks_!tasks
  BY <1>2, <1>9, Frames
<1>10. ASSUME NEW p \in Producers, Route(p)
       PROVE  UNCHANGED Tasks_!tasks
  BY <1>2, <1>10 DEF Route, workerVars
<1>11. CASE Stop \/ Join
  BY <1>2, <1>11, StopFrame
<1>12. CASE UNCHANGED vars
  BY <1>2, <1>12 DEF vars, producerVars, workerVars
<1>13. QED
  BY <1>4, <1>5, <1>6, <1>7, <1>8, <1>9, <1>10, <1>11, <1>12, NextCases DEF Tasks_!TasksNext

(* ThreadPool, with its counter, its flag and its loops, implements the     *)
(* queue before each worker of TaskService.                                 *)
THEOREM Implementation == Spec => ImplementsTasks
<1>1. Init => Tasks_!TasksInit
  BY TasksInitStep
<1>2. Inv /\ [Next]_vars => [Tasks_!TasksNext]_(Tasks_!tasks)
  BY TasksStep
<1>3. QED
  BY <1>1, <1>2, Invariance, PTL DEF Spec, ImplementsTasks, Tasks_!TasksSpec

=============================================================================

----------------------------- MODULE ThreadPool -----------------------------
(***************************************************************************)
(* ThreadPool of src/src/com/thread_pool.h and thread_pool.cpp: one        *)
(* moodycamel BlockingConcurrentQueue and one thread per consumer, six     *)
(* ways to hand in a task, and stop().                                     *)
(*                                                                         *)
(* The queue is external.  What the pool relies on is modelled: a queue    *)
(* keeps the order of each producer and none between producers, so queue[w]*)
(* is one sequence per producer; try_enqueue allocates nothing and refuses *)
(* when its blocks are used up.  A block holds elements of one producer    *)
(* only, so it may refuse before Capacity elements are queued.             *)
(*                                                                         *)
(* The n-th call of producer p brings the task <<p, n>>.                   *)
(***************************************************************************)
EXTENDS Integers, Sequences, FiniteSets

CONSTANTS
    Producers,      \* the threads that call insert and submit
    WorkerNum,      \* consumers_.size()
    Called,         \* the overloads each producer calls
    Keys,           \* the hash values of the keys they pass
    Nums,           \* the consumer numbers they pass
    Capacity,       \* elements the preallocated blocks of a queue can hold
    SeqMax,         \* largest value of the counter seq_ (2^31 - 1)
    MaxCalls        \* bound on the calls of one producer

Overloads == {"insert", "insert_key", "insert_num", "submit", "submit_key", "submit_num"}

ASSUME WorkerNumAssumption == WorkerNum \in Nat \ {0}
ASSUME CallsAssumption == Called \in [Producers -> SUBSET Overloads] /\ Keys \subseteq Nat /\ Nums \subseteq Nat
ASSUME BoundsAssumption == Capacity \in Nat /\ SeqMax \in Nat /\ MaxCalls \in Nat

Workers == 0..WorkerNum - 1
Tasks == Producers \X Nat
NoTask == <<>>
NoCall == [fn |-> "none", arg |-> 0, idx |-> 0]

VARIABLES
    stop_,      \* the flag, a plain bool
    joined,     \* how many consumers stop() has joined
    seq_,       \* the counter behind round-robin dispatch
    ppc,        \* where each producer is in its call
    call,       \* its call: the overload, its argument, the consumer chosen
    calls,      \* the overload and the outcome of each call that is over
    queue,      \* queue[w][p]: what p has queued at worker w
    wpc,        \* where each worker is in its loop
    hand,       \* the task it has taken out
    ran,        \* history: the tasks each worker has run
    early       \* history: the tasks queued before stop_ was set

poolVars == <<stop_, joined>>
producerVars == <<seq_, ppc, call, calls, early>>
workerVars == <<wpc, hand, ran>>
vars == <<poolVars, producerVars, queue, workerVars>>

Init == /\ stop_ = FALSE
        /\ joined = 0
        /\ seq_ = 0
        /\ ppc = [p \in Producers |-> "idle"]
        /\ call = [p \in Producers |-> NoCall]
        /\ calls = [p \in Producers |-> <<>>]
        /\ queue = [w \in Workers |-> [p \in Producers |-> <<>>]]
        /\ wpc = [w \in Workers |-> "check"]
        /\ hand = [w \in Workers |-> NoTask]
        /\ ran = [w \in Workers |-> {}]
        /\ early = {}

-----------------------------------------------------------------------------
(* insert and submit *)

ArgsOf(fn) == CASE fn \in {"insert", "submit"} -> {0}
                [] fn \in {"insert_key", "submit_key"} -> Keys
                [] fn \in {"insert_num", "submit_num"} -> Nums

\* The call of p is over with this outcome: "ok" when it reports success (true
\* or a future), "false" when insert reports that it was refused, "threw".
Over(p, fn, outcome) ==
    /\ calls' = [calls EXCEPT ![p] = Append(@, [fn |-> fn, outcome |-> outcome])]
    /\ ppc' = [ppc EXCEPT ![p] = "idle"]
    /\ call' = [call EXCEPT ![p] = NoCall]

\* Mutant: num > consumers_.size() + 1
BadNumber_TwoMore(fn, arg) == fn \in {"insert_num", "submit_num"} /\ arg > WorkerNum + 1

\* num > consumers_.size() is refused
BadNumber(fn, arg) == fn \in {"insert_num", "submit_num"} /\ arg > WorkerNum

\* stop_ is read without synchronisation: a producer may still see FALSE after
\* it was set.
StopCheck(p, fn, arg) ==
    /\ ppc[p] = "idle"
    /\ Len(calls[p]) < MaxCalls
    /\ \E seen \in {FALSE, stop_} :
          IF seen \/ BadNumber(fn, arg)
          THEN Over(p, fn, "threw")
          ELSE /\ ppc' = [ppc EXCEPT ![p] = "route"]
               /\ call' = [call EXCEPT ![p] = [fn |-> fn, arg |-> arg, idx |-> 0]]
               /\ UNCHANGED calls
    /\ UNCHANGED <<poolVars, seq_, early, queue, workerVars>>

\* Mutant: the counter does not wrap.
Increment_NoWrap(n) == n + 1

\* Two's complement wrap of the counter, and the remainder of C++, which has
\* the sign of the dividend.
Increment(n) == IF n = SeqMax THEN -SeqMax - 1 ELSE n + 1
Remainder(a, n) == IF a >= 0 THEN a % n ELSE -((-a) % n)

\* Choose the consumer.  An index outside the vector is undefined behaviour:
\* the model keeps the producer at "wild" and says nothing of what follows.
Route(p) ==
    LET c == call[p]
        i == CASE c.fn \in {"insert", "submit"} -> Remainder(Increment(seq_), WorkerNum)
               [] c.fn \in {"insert_key", "submit_key"} -> c.arg % WorkerNum
               [] OTHER -> c.arg
    IN  /\ ppc[p] = "route"
        /\ seq_' = IF c.fn \in {"insert", "submit"} THEN Increment(seq_) ELSE seq_
        /\ ppc' = [ppc EXCEPT ![p] = IF i \in Workers THEN "enqueue" ELSE "wild"]
        /\ call' = [call EXCEPT ![p].idx = i]
        /\ UNCHANGED <<poolVars, calls, early, queue, workerVars>>

QueueSize(w) == Cardinality({slot \in Producers \X (1..MaxCalls) : slot[2] <= Len(queue[w][slot[1]])})

\* try_enqueue took the task.
Enqueue(p) ==
    LET w == call[p].idx
        task == <<p, Len(calls[p]) + 1>>
    IN  /\ ppc[p] = "enqueue"
        /\ QueueSize(w) < Capacity
        /\ queue' = [queue EXCEPT ![w][p] = Append(@, task)]
        /\ early' = IF stop_ THEN early ELSE early \cup {task}
        /\ Over(p, call[p].fn, "ok")
        /\ UNCHANGED <<poolVars, seq_, workerVars>>

\* try_enqueue refused it: insert returns false, submit with a key or a number
\* throws "enqueue failed", and submit(f) returns its future all the same.
Refused(fn) == CASE fn \in {"insert", "insert_key", "insert_num"} -> "false"
                 [] fn \in {"submit_key", "submit_num"} -> "threw"
                 [] fn = "submit" -> "ok"

EnqueueFails(p) ==
    /\ ppc[p] = "enqueue"
    /\ \E q \in Producers : queue[call[p].idx][q] # <<>>
    /\ Over(p, call[p].fn, Refused(call[p].fn))
    /\ UNCHANGED <<poolVars, seq_, early, queue, workerVars>>

-----------------------------------------------------------------------------
(* The loop of a consumer. *)

Move(w, from, to) == wpc[w] = from /\ wpc' = [wpc EXCEPT ![w] = to]

Empty(w) == \A p \in Producers : queue[w][p] = <<>>

\* The two halves of: if (stop_ && queue->size_approx() == 0) return;
SeeStop(w) == /\ stop_
              /\ Move(w, "check", "size")
              /\ UNCHANGED <<poolVars, producerVars, queue, hand, ran>>

\* stop_ is clear, or the worker does not see yet that it was set.
SeeNoStop(w) == /\ Move(w, "check", "take")
                /\ UNCHANGED <<poolVars, producerVars, queue, hand, ran>>

\* Mutant: the worker leaves as soon as it sees stop_.
CheckSize_LeavesAtOnce(w) == /\ Move(w, "size", "exited")
                             /\ UNCHANGED <<poolVars, producerVars, queue, hand, ran>>

CheckSize(w) == /\ Move(w, "size", IF Empty(w) THEN "exited" ELSE "take")
                /\ UNCHANGED <<poolVars, producerVars, queue, hand, ran>>

\* Mutant: the element is read and not taken out.
Dequeue_Peeks(w) == /\ Move(w, "take", "run")
                    /\ \E p \in Producers :
                          /\ queue[w][p] # <<>>
                          /\ hand' = [hand EXCEPT ![w] = Head(queue[w][p])]
                    /\ UNCHANGED <<poolVars, producerVars, queue, ran>>

\* Mutant: a stack.
Dequeue_Last(w) == /\ Move(w, "take", "run")
                   /\ \E p \in Producers :
                         LET q == queue[w][p]
                         IN  /\ q # <<>>
                             /\ hand' = [hand EXCEPT ![w] = q[Len(q)]]
                             /\ queue' = [queue EXCEPT ![w][p] = SubSeq(q, 1, Len(q) - 1)]
                   /\ UNCHANGED <<poolVars, producerVars, ran>>

\* try_dequeue or wait_dequeue_timed: the oldest element of some producer
Dequeue(w) == /\ Move(w, "take", "run")
              /\ \E p \in Producers :
                    /\ queue[w][p] # <<>>
                    /\ hand' = [hand EXCEPT ![w] = Head(queue[w][p])]
                    /\ queue' = [queue EXCEPT ![w][p] = Tail(@)]
              /\ UNCHANGED <<poolVars, producerVars, ran>>

\* Mutant: wait_dequeue, which waits for an element however long it takes.
Timeout_Never(w) == /\ FALSE
                    /\ Move(w, "take", "check")
                    /\ UNCHANGED <<poolVars, producerVars, queue, hand, ran>>

\* wait_dequeue_timed gave up after its millisecond
Timeout(w) == /\ Move(w, "take", "check")
              /\ Empty(w)
              /\ UNCHANGED <<poolVars, producerVars, queue, hand, ran>>

\* (*elem)(); delete elem;
Run(w) == /\ Move(w, "run", "check")
          /\ ran' = [ran EXCEPT ![w] = @ \cup {hand[w]}]
          /\ hand' = [hand EXCEPT ![w] = NoTask]
          /\ UNCHANGED <<poolVars, producerVars, queue>>

-----------------------------------------------------------------------------
(* stop(), called by the owner of the pool or by the destructor *)

Stop == /\ ~stop_
        /\ stop_' = TRUE
        /\ UNCHANGED <<joined, producerVars, queue, workerVars>>

\* Mutant: stop() detaches the threads.
Join_Detaches == /\ stop_
                 /\ joined < WorkerNum
                 /\ joined' = joined + 1
                 /\ UNCHANGED <<stop_, producerVars, queue, workerVars>>

Join == /\ stop_
        /\ joined < WorkerNum
        /\ wpc[joined] = "exited"
        /\ joined' = joined + 1
        /\ UNCHANGED <<stop_, producerVars, queue, workerVars>>

StopReturned == stop_ /\ joined = WorkerNum

-----------------------------------------------------------------------------

Call(p) == \E fn \in Called[p] : \E arg \in ArgsOf(fn) : StopCheck(p, fn, arg)
Produce(p) == Route(p) \/ Enqueue(p) \/ EnqueueFails(p)
Work(w) == SeeStop(w) \/ SeeNoStop(w) \/ CheckSize(w) \/ Dequeue(w) \/ Timeout(w) \/ Run(w)

Next == \/ \E p \in Producers : Call(p) \/ Produce(p)
        \/ \E w \in Workers : Work(w)
        \/ Stop
        \/ Join

Spec == Init /\ [][Next]_vars

\* Threads that are in the pool's code run.  The store to stop_ becomes visible
\* to a worker that keeps reading it.  Nobody has to call stop().
FairSpec == /\ Spec
            /\ \A p \in Producers : WF_vars(Produce(p))
            /\ \A w \in Workers : WF_vars(Work(w)) /\ SF_vars(SeeStop(w))
            /\ WF_vars(Join)

-----------------------------------------------------------------------------
(* Properties *)

RanTasks == UNION {ran[w] : w \in Workers}
HandTasks == {hand[w] : w \in Workers} \ {NoTask}
SlotsOf(task) == {slot \in Workers \X (1..MaxCalls) :
                     LET q == queue[slot[1]][task[1]]
                     IN  slot[2] <= Len(q) /\ q[slot[2]] = task}

Outcomes == [fn : Overloads, outcome : {"ok", "false", "threw"}]

PoolTypes == stop_ \in BOOLEAN /\ joined \in 0..WorkerNum
CallTypes == /\ seq_ \in -SeqMax - 1..SeqMax
             /\ ppc \in [Producers -> {"idle", "route", "enqueue", "wild"}]
             /\ call \in [Producers -> [fn : Overloads \cup {"none"}, arg : Nat, idx : Int]]
             /\ calls \in [Producers -> Seq(Outcomes)]
QueueTypes == queue \in [Workers -> [Producers -> Seq(Tasks)]] /\ early \subseteq Tasks
WorkerTypes == /\ wpc \in [Workers -> {"check", "size", "take", "run", "exited"}]
               /\ hand \in [Workers -> Tasks \cup {NoTask}]
               /\ ran \in [Workers -> SUBSET Tasks]

TypeOK == PoolTypes /\ CallTypes /\ QueueTypes /\ WorkerTypes

Tasks_ == INSTANCE TaskService WITH given <- [p \in Producers |-> Len(calls[p])], waiting <- queue

(* Whoever uses the pool may think of it as a queue before each worker: a   *)
(* call that is over has put its task before one worker, or nowhere; each   *)
(* is taken once, those of one producer in the order of its calls           *)
(* (thread_pool.h:85-187, thread_pool.cpp:19-28).                           *)
ImplementsTasks == Tasks_!TasksSpec

(* A call that failed leaves no task behind, and one that succeeded leaves  *)
(* exactly one: queued in one slot, in the hands of one worker, or run by   *)
(* one worker and never again.  The exception is submit(f), whose task may  *)
(* be nowhere, since it ignores what try_enqueue returns                    *)
(* (thread_pool.h:101, 114, 127, 145, 164, 185).                            *)
ExactlyOnce ==
    \A p \in Producers : \A n \in 1..Len(calls[p]) :
        LET task == <<p, n>>
            places == Cardinality(SlotsOf(task))
                        + Cardinality({w \in Workers : hand[w] = task})
                        + Cardinality({w \in Workers : task \in ran[w]})
        IN  /\ calls[p][n].outcome # "ok" => places = 0
            /\ calls[p][n].outcome = "ok" =>
                  places = 1 \/ (calls[p][n].fn = "submit" /\ places = 0)

(* The tasks one producer gives to one worker are run in the order of its   *)
(* calls: what a worker has run or taken is older than what is queued.      *)
FifoPerProducer ==
    \A w \in Workers : \A p \in Producers :
        LET q == queue[w][p]
        IN  /\ \A i, j \in 1..Len(q) : i < j => q[i][2] < q[j][2]
            /\ \A i \in 1..Len(q), task \in ran[w] \cup {hand[w]} :
                  task # NoTask /\ task[1] = p => task[2] < q[i][2]
            /\ \A task \in ran[w] :
                  hand[w] # NoTask /\ hand[w][1] = p /\ task[1] = p => task[2] < hand[w][2]

(* When stop() returns, every task that was queued before stop() set the    *)
(* flag has been run; only a task that slipped past STOP_CHECK may be left  *)
(* behind (thread_pool.cpp:19, 40-46).                                      *)
DrainedBeforeStopReturns == StopReturned => early \subseteq RanTasks

(* A worker leaves its loop only after stop(), with nothing in its hands,   *)
(* and whatever is in its queue then came too late.                         *)
ExitedWorkerLeftOnlyLateTasks ==
    \A w \in Workers :
        /\ wpc[w] \in {"size", "exited"} => stop_
        /\ wpc[w] = "exited" =>
              /\ hand[w] = NoTask
              /\ \A p \in Producers : \A i \in 1..Len(queue[w][p]) : queue[w][p][i] \notin early

(* Two calls only index the vector of consumers out of its bounds: one that *)
(* names the number of consumers, which the test for an "invalid consumer   *)
(* number" lets pass (thread_pool.h:121, 154), and one that leaves the      *)
(* choice to the counter after it wrapped (thread_pool.h:100).              *)
IndexInRange ==
    \A p \in Producers :
        ppc[p] = "wild" => \/ call[p].fn \in {"insert_num", "submit_num"} /\ call[p].arg = WorkerNum
                           \/ call[p].fn \in {"insert", "submit"} /\ call[p].idx < 0

(* A task queued before stop() is run, whether or not stop() is called.     *)
EarlyTasksRun == \A p \in Producers, n \in 1..MaxCalls :
                    <<p, n>> \in early ~> <<p, n>> \in RanTasks

(* stop() returns.                                                          *)
StopTerminates == stop_ ~> StopReturned

=============================================================================

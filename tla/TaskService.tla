---------------------------- MODULE TaskService ----------------------------
(***************************************************************************)
(* What a ThreadPool (src/src/com/thread_pool.h) promises those who hand   *)
(* in tasks, with no counters, flags or loops: each call brings one task,  *)
(* <<p, n>> for the n-th of producer p, which is refused or put before one *)
(* worker; a worker has one task in its hands at a time, takes those of    *)
(* one producer in the order of its calls, and takes each only once.       *)
(***************************************************************************)
EXTENDS Integers, Sequences

CONSTANTS
    Producers,
    Workers

VARIABLES
    given,      \* how many calls of each producer are over
    waiting,    \* waiting[w][p]: the tasks of p that w has not taken yet
    hand        \* the task each worker has taken, NoTask for none

tasks == <<given, waiting, hand>>

NoTask == <<>>

TasksInit == /\ given = [p \in Producers |-> 0]
             /\ waiting = [w \in Workers |-> [p \in Producers |-> <<>>]]
             /\ hand = [w \in Workers |-> NoTask]

Accept(p, w) == /\ given' = [given EXCEPT ![p] = @ + 1]
                /\ waiting' = [waiting EXCEPT ![w][p] = Append(@, <<p, given[p] + 1>>)]
                /\ UNCHANGED hand

Refuse(p) == /\ given' = [given EXCEPT ![p] = @ + 1]
             /\ UNCHANGED <<waiting, hand>>

Start(w, p) == /\ hand[w] = NoTask
               /\ waiting[w][p] # <<>>
               /\ hand' = [hand EXCEPT ![w] = Head(waiting[w][p])]
               /\ waiting' = [waiting EXCEPT ![w][p] = Tail(@)]
               /\ UNCHANGED given

Finish(w) == /\ hand[w] # NoTask
             /\ hand' = [hand EXCEPT ![w] = NoTask]
             /\ UNCHANGED <<given, waiting>>

TasksNext == \/ \E p \in Producers : Refuse(p) \/ \E w \in Workers : Accept(p, w)
             \/ \E w \in Workers : Finish(w) \/ \E p \in Producers : Start(w, p)

TasksSpec == TasksInit /\ [][TasksNext]_tasks

=============================================================================

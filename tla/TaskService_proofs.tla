-------------------------- MODULE TaskService_proofs --------------------------
(***************************************************************************)
(* What follows from TaskService alone, and so holds of every component    *)
(* that hands its tasks to it: Sqlite and MongoDB cite these lemmas under  *)
(* the substitution they instantiate TaskService with.                     *)
(***************************************************************************)
EXTENDS TaskService, SequenceTheorems, TLAPS

Tasks == Producers \X Nat

TaskTypes == /\ given \in [Producers -> Nat]
             /\ waiting \in [Workers -> [Producers -> Seq(Tasks)]]
             /\ hand \in [Workers -> Tasks \cup {NoTask}]

\* Those of one producer wait in the order of its calls, and none is ahead of them.
InOrder == \A w \in Workers, p \in Producers :
               /\ \A i \in 1..Len(waiting[w][p]) :
                     waiting[w][p][i][1] = p /\ waiting[w][p][i][2] \in 1..given[p]
               /\ \A i, j \in 1..Len(waiting[w][p]) :
                     i < j => waiting[w][p][i][2] < waiting[w][p][j][2]

Waits(w, task) == \E i \in 1..Len(waiting[w][task[1]]) : waiting[w][task[1]][i] = task

\* A task waits at one worker or is in the hands of one, and was brought by a call.
Once == \A task \in Tasks, v, w \in Workers :
            /\ Waits(v, task) => hand[w] # task /\ (Waits(w, task) => v = w)
            /\ hand[v] = task => task[2] \in 1..given[task[1]] /\ (hand[w] = task => v = w)

TasksInv == TaskTypes /\ InOrder /\ Once

LEMMA TaskIsSome == \A task \in Tasks : task # NoTask
<1> SUFFICES ASSUME NEW task \in Tasks, task = <<>> PROVE FALSE
  BY DEF NoTask
<1>1. Len(task) = 2 /\ Len(<<>>) = 0
  BY DEF Tasks
<1>2. QED
  BY <1>1

LEMMA TasksInvInit == TasksInit => TasksInv
<1> SUFFICES ASSUME TasksInit PROVE TasksInv
  OBVIOUS
<1> USE DEF TasksInit
<1>1. TaskTypes
  BY EmptySeq DEF TaskTypes
<1>2. \A w \in Workers, p \in Producers : \A i : i \notin 1..Len(waiting[w][p])
  OBVIOUS
<1>3. InOrder
  BY <1>2, Zenon DEF InOrder
<1>4. \A w \in Workers, task \in Tasks : ~Waits(w, task) /\ hand[w] # task
  BY <1>2, TaskIsSome DEF Waits, Tasks
<1>5. QED
  BY <1>1, <1>3, <1>4 DEF TasksInv, Once

\* A new task waits behind those of its producer.
LEMMA AcceptStep ==
  ASSUME TasksInv, NEW p \in Producers, NEW w \in Workers, Accept(p, w)
  PROVE  LET new == <<p, given[p] + 1>>
             q == waiting[w][p]
         IN  /\ new \in Tasks
             /\ q \in Seq(Tasks) /\ Len(q) \in Nat
             /\ waiting' \in [Workers -> [Producers -> Seq(Tasks)]]
             /\ waiting'[w][p] = Append(q, new)
             /\ Len(waiting'[w][p]) = Len(q) + 1 /\ waiting'[w][p][Len(q) + 1] = new
             /\ \A i \in 1..Len(q) : waiting'[w][p][i] = q[i]
             /\ \A v \in Workers, o \in Producers : v # w \/ o # p => waiting'[v][o] = waiting[v][o]
             /\ given' = [given EXCEPT ![p] = @ + 1]
             /\ UNCHANGED hand
<1> DEFINE new == <<p, given[p] + 1>>
           q == waiting[w][p]
<1>1. new \in Tasks /\ q \in Seq(Tasks)
  BY DEF TasksInv, TaskTypes, Tasks
<1>2. waiting' = [waiting EXCEPT ![w] = [waiting[w] EXCEPT ![p] = Append(q, new)]]
  BY DEF Accept, TasksInv, TaskTypes
<1> HIDE DEF new, q
<1>3. /\ Append(q, new) \in Seq(Tasks)
      /\ Len(q) \in Nat
      /\ Len(Append(q, new)) = Len(q) + 1
      /\ Append(q, new)[Len(q) + 1] = new
      /\ \A i \in 1..Len(q) : Append(q, new)[i] = q[i]
  BY <1>1, AppendProperties, LenProperties
<1>4. /\ waiting' \in [Workers -> [Producers -> Seq(Tasks)]]
      /\ waiting'[w][p] = Append(q, new)
      /\ \A v \in Workers, o \in Producers : v # w \/ o # p => waiting'[v][o] = waiting[v][o]
  BY <1>2, <1>3 DEF TasksInv, TaskTypes
<1>5. QED
  BY <1>1, <1>3, <1>4 DEF Accept, new, q

\* The oldest task of a producer is taken.
LEMMA StartStep ==
  ASSUME TasksInv, NEW w \in Workers, NEW p \in Producers, Start(w, p)
  PROVE  LET q == waiting[w][p]
         IN  /\ q \in Seq(Tasks) /\ Len(q) \in Nat \ {0} /\ q[1] \in Tasks /\ q[1] = Head(q)
             /\ hand[w] = NoTask /\ hand' = [hand EXCEPT ![w] = q[1]]
             /\ waiting' \in [Workers -> [Producers -> Seq(Tasks)]]
             /\ waiting'[w][p] = Tail(q)
             /\ Len(waiting'[w][p]) = Len(q) - 1
             /\ \A i \in 1..Len(q) - 1 : waiting'[w][p][i] = q[i + 1]
             /\ \A v \in Workers, o \in Producers : v # w \/ o # p => waiting'[v][o] = waiting[v][o]
             /\ UNCHANGED given
<1> DEFINE q == waiting[w][p]
<1>1. q \in Seq(Tasks) /\ q # <<>>
  BY DEF Start, TasksInv, TaskTypes
<1>2. waiting' = [waiting EXCEPT ![w] = [waiting[w] EXCEPT ![p] = Tail(q)]]
  BY DEF Start, TasksInv, TaskTypes
<1>3. hand[w] = NoTask /\ hand' = [hand EXCEPT ![w] = Head(q)] /\ UNCHANGED given
  BY DEF Start
<1> HIDE DEF q
<1>4. /\ Len(q) \in Nat \ {0} /\ q[1] \in Tasks /\ Head(q) = q[1]
      /\ Tail(q) \in Seq(Tasks) /\ Len(Tail(q)) = Len(q) - 1
      /\ \A i \in 1..Len(q) - 1 : Tail(q)[i] = q[i + 1]
  BY <1>1, EmptySeq, HeadTailProperties, ElementOfSeq
<1>5. /\ waiting' \in [Workers -> [Producers -> Seq(Tasks)]]
      /\ waiting'[w][p] = Tail(q)
      /\ \A v \in Workers, o \in Producers : v # w \/ o # p => waiting'[v][o] = waiting[v][o]
  BY <1>2, <1>4 DEF TasksInv, TaskTypes
<1>6. QED
  BY <1>1, <1>3, <1>4, <1>5 DEF q

\* What waits after a new task came: what waited, and the new one.
LEMMA AcceptWaits ==
  ASSUME TasksInv, NEW p \in Producers, NEW w \in Workers, Accept(p, w),
         NEW v \in Workers, NEW task \in Tasks
  PROVE  Waits(v, task)' <=> Waits(v, task) \/ (v = w /\ task = <<p, given[p] + 1>>)
<1>1. PICK new, q, n : new = <<p, given[p] + 1>> /\ q = waiting[w][p] /\ n = Len(q)
  OBVIOUS
<1>2. /\ n \in Nat /\ Len(waiting'[w][p]) = n + 1 /\ waiting'[w][p][n + 1] = new
      /\ \A i \in 1..n : waiting'[w][p][i] = q[i]
      /\ \A u \in Workers, o \in Producers : u # w \/ o # p => waiting'[u][o] = waiting[u][o]
  BY <1>1, AcceptStep
<1>3. task[1] \in Producers /\ new[1] = p
  BY <1>1 DEF Tasks
<1>4. (\E i \in 1..n + 1 : waiting'[w][p][i] = task) <=> (\E i \in 1..n : q[i] = task) \/ task = new
  <2>1. n + 1 \in 1..n + 1 /\ \A i \in 1..n + 1 : i \in 1..n \/ i = n + 1
    BY <1>2
  <2>2. \A i \in 1..n : i \in 1..n + 1
    BY <1>2
  <2>3. QED
    BY <1>2, <2>1, <2>2
<1>5. CASE v = w /\ task[1] = p
  BY <1>1, <1>2, <1>4, <1>5 DEF Waits
<1>6. CASE v # w \/ task[1] # p
  BY <1>1, <1>2, <1>3, <1>6 DEF Waits
<1>7. QED
  BY <1>5, <1>6

\* What waits after one was taken waited before, and is another.
LEMMA StartWaits ==
  ASSUME TasksInv, NEW w \in Workers, NEW p \in Producers, Start(w, p)
  PROVE  /\ Waits(w, Head(waiting[w][p]))
         /\ \A v \in Workers, task \in Tasks :
               Waits(v, task)' => Waits(v, task) /\ task # Head(waiting[w][p])
<1>1. PICK q, n, task : q = waiting[w][p] /\ n = Len(q) /\ task = q[1]
  OBVIOUS
<1>2. /\ n \in Nat \ {0} /\ task \in Tasks /\ task = Head(waiting[w][p])
      /\ Len(waiting'[w][p]) = n - 1 /\ \A i \in 1..n - 1 : waiting'[w][p][i] = q[i + 1]
      /\ \A v \in Workers, o \in Producers : v # w \/ o # p => waiting'[v][o] = waiting[v][o]
  <2>1. n \in Nat \ {0} /\ task \in Tasks /\ task = Head(waiting[w][p])
    BY <1>1, StartStep
  <2>2. Len(waiting'[w][p]) = n - 1 /\ \A i \in 1..n - 1 : waiting'[w][p][i] = q[i + 1]
    BY <1>1, StartStep
  <2>3. \A v \in Workers, o \in Producers : v # w \/ o # p => waiting'[v][o] = waiting[v][o]
    BY StartStep
  <2>4. QED
    BY <2>1, <2>2, <2>3
<1>3. /\ \A i \in 1..n : q[i][1] = p /\ q[i][2] \in 1..given[p]
      /\ \A i, j \in 1..n : i < j => q[i][2] < q[j][2]
  BY <1>1 DEF TasksInv, InOrder
<1>4. 1 \in 1..n /\ \A i \in 1..n - 1 : i + 1 \in 1..n /\ 1 < i + 1
  BY <1>2
<1>5. Waits(w, task)
  BY <1>1, <1>3, <1>4 DEF Waits
<1>6. \A i \in 1..n - 1 : q[i + 1] # task
  <2>1. \A i \in 1..n : q[i][2] \in Int
    BY <1>3
  <2>2. \A i \in 1..n - 1 : q[1][2] < q[i + 1][2]
    BY <1>3, <1>4
  <2>3. QED
    BY <1>1, <1>4, <2>1, <2>2
<1>7. ASSUME NEW v \in Workers, NEW t \in Tasks, Waits(v, t)'
      PROVE  Waits(v, t) /\ t # task
  <2>1. PICK i \in 1..Len(waiting'[v][t[1]]) : waiting'[v][t[1]][i] = t
    BY <1>7 DEF Waits
  <2>2. t[1] \in Producers
    BY DEF Tasks
  <2>3. CASE v = w /\ t[1] = p
    <3>1. i \in 1..n - 1 /\ q[i + 1] = t
      BY <1>2, <2>1, <2>3
    <3>2. QED
      BY <1>1, <1>4, <1>6, <2>3, <3>1 DEF Waits
  <2>4. CASE t[1] # p
    <3>1. Waits(v, t)
      BY <1>2, <2>1, <2>2, <2>4 DEF Waits
    <3>2. task[1] = p
      BY <1>1, <1>3, <1>4
    <3>3. QED
      BY <2>4, <3>1, <3>2
  <2>5. CASE v # w
    <3>1. Waits(v, t)
      BY <1>2, <2>1, <2>2, <2>5 DEF Waits
    <3>2. QED
      BY <1>2, <1>5, <2>5, <3>1 DEF TasksInv, Once
  <2>6. QED
    BY <2>3, <2>4, <2>5
<1>8. QED
  BY <1>2, <1>5, <1>7

\* A task that waits was brought by a call.
LEMMA WaitsIsGiven ==
  ASSUME TasksInv, NEW w \in Workers, NEW task \in Tasks, Waits(w, task)
  PROVE  task[1] \in Producers /\ task[2] \in 1..given[task[1]]
BY DEF TasksInv, InOrder, Waits, Tasks

\* TasksInv holds of every queue the service is asked to be.
LEMMA TasksInvStep == TasksInv /\ [TasksNext]_tasks => TasksInv'
<1> SUFFICES ASSUME TasksInv, [TasksNext]_tasks PROVE TasksInv'
  OBVIOUS
<1>1. TaskTypes /\ InOrder /\ Once
  BY DEF TasksInv
<1>2. ASSUME NEW p \in Producers, given' = [given EXCEPT ![p] = @ + 1]
      PROVE  /\ given' \in [Producers -> Nat] /\ given[p] \in Nat /\ given'[p] = given[p] + 1
             /\ \A o \in Producers : \A n : n \in 1..given[o] => n \in 1..given'[o]
  BY <1>1, <1>2 DEF TaskTypes
<1>3. ASSUME NEW p \in Producers, NEW w \in Workers, Accept(p, w)
      PROVE  TasksInv'
  <2>0. PICK new, n : new = <<p, given[p] + 1>> /\ n = Len(waiting[w][p])
    OBVIOUS
  <2>1. /\ n \in Nat /\ Len(waiting'[w][p]) = n + 1 /\ waiting'[w][p][n + 1] = new
        /\ \A i \in 1..n : waiting'[w][p][i] = waiting[w][p][i]
        /\ \A v \in Workers, o \in Producers : v # w \/ o # p => waiting'[v][o] = waiting[v][o]
        /\ UNCHANGED hand /\ new \in Tasks
    BY <1>3, <2>0, AcceptStep
  <2>2. /\ given[p] \in Nat /\ given'[p] = given[p] + 1 /\ new[1] = p /\ new[2] = given[p] + 1
        /\ \A o \in Producers : \A m : m \in 1..given[o] => m \in 1..given'[o]
    BY <1>2, <1>3, <2>0 DEF Accept
  <2>3. TaskTypes'
    BY <1>1, <1>2, <1>3, AcceptStep DEF TaskTypes, Accept
  <2>4. ASSUME NEW v \in Workers, NEW o \in Producers, NEW i \in 1..Len(waiting'[v][o])
        PROVE  waiting'[v][o][i][1] = o /\ waiting'[v][o][i][2] \in 1..given'[o]
    <3>1. CASE v = w /\ o = p /\ i = n + 1
      BY <2>1, <2>2, <3>1
    <3>2. CASE ~(v = w /\ o = p /\ i = n + 1)
      <4>1. i \in 1..Len(waiting[v][o]) /\ waiting'[v][o][i] = waiting[v][o][i]
        <5>1. CASE v = w /\ o = p
          <6>1. i \in 1..n
            BY <2>1, <3>2, <5>1
          <6>2. QED
            BY <2>0, <2>1, <5>1, <6>1
        <5>2. CASE v # w \/ o # p
          BY <2>1, <5>2
        <5>3. QED
          BY <5>1, <5>2
      <4>2. QED
        BY <1>1, <2>2, <4>1 DEF InOrder
    <3>3. QED
      BY <3>1, <3>2
  <2>5. ASSUME NEW v \in Workers, NEW o \in Producers,
               NEW i \in 1..Len(waiting'[v][o]), NEW j \in 1..Len(waiting'[v][o]), i < j
        PROVE  waiting'[v][o][i][2] < waiting'[v][o][j][2]
    <3>1. CASE v = w /\ o = p
      <4>1. i \in 1..n /\ (j \in 1..n \/ j = n + 1)
        BY <2>1, <2>5, <3>1
      <4>2. CASE j \in 1..n
        BY <1>1, <2>0, <2>1, <2>5, <3>1, <4>1, <4>2 DEF InOrder
      <4>3. CASE j = n + 1
        <5>1. waiting[w][p][i][2] \in 1..given[p]
          BY <1>1, <2>0, <4>1 DEF InOrder
        <5>2. waiting[w][p][i][2] < new[2]
          BY <2>2, <5>1
        <5>3. waiting'[w][p][i] = waiting[w][p][i] /\ waiting'[w][p][j] = new
          BY <2>1, <4>1, <4>3
        <5>4. QED
          BY <3>1, <5>2, <5>3
      <4>4. QED
        BY <4>1, <4>2, <4>3
    <3>2. CASE v # w \/ o # p
      BY <1>1, <2>1, <2>5, <3>2 DEF InOrder
    <3>3. QED
      BY <3>1, <3>2
  <2>6. InOrder'
    BY <2>4, <2>5 DEF InOrder
  <2>7. \A v \in Workers : ~Waits(v, new) /\ hand[v] # new
    <3>1. new[2] \notin 1..given[new[1]]
      BY <2>2
    <3>2. QED
      BY <1>1, <2>1, <3>1, WaitsIsGiven DEF Once
  <2>8. \A v \in Workers, task \in Tasks : Waits(v, task)' <=> Waits(v, task) \/ (v = w /\ task = new)
    BY <1>3, <2>0, AcceptWaits
  <2>9. Once'
    BY <1>1, <2>1, <2>2, <2>7, <2>8 DEF Once, Tasks
  <2>10. QED
    BY <2>3, <2>6, <2>9 DEF TasksInv
<1>4. ASSUME NEW p \in Producers, Refuse(p)
      PROVE  TasksInv'
  <2>1. UNCHANGED <<waiting, hand>>
    BY <1>4 DEF Refuse
  <2>2. /\ given' \in [Producers -> Nat]
        /\ \A o \in Producers : \A m : m \in 1..given[o] => m \in 1..given'[o]
    BY <1>2, <1>4 DEF Refuse
  <2>3. TaskTypes' /\ InOrder'
    BY <1>1, <2>1, <2>2 DEF TaskTypes, InOrder
  <2>4. Once'
    BY <1>1, <2>1, <2>2 DEF Once, Waits, Tasks
  <2>5. QED
    BY <2>3, <2>4 DEF TasksInv
<1>5. ASSUME NEW w \in Workers, NEW p \in Producers, Start(w, p)
      PROVE  TasksInv'
  <2>0. PICK n, task : n = Len(waiting[w][p]) /\ task = Head(waiting[w][p])
    OBVIOUS
  <2>1. /\ n \in Nat \ {0} /\ task \in Tasks
        /\ hand[w] = NoTask /\ hand' = [hand EXCEPT ![w] = task]
        /\ Len(waiting'[w][p]) = n - 1
        /\ \A i \in 1..n - 1 : waiting'[w][p][i] = waiting[w][p][i + 1]
        /\ \A v \in Workers, o \in Producers : v # w \/ o # p => waiting'[v][o] = waiting[v][o]
        /\ UNCHANGED given
    BY <1>5, <2>0, StartStep
  <2>2. hand'[w] = task /\ \A v \in Workers \ {w} : hand'[v] = hand[v]
    BY <1>1, <2>1 DEF TaskTypes
  <2>3. TaskTypes'
    BY <1>1, <1>5, <2>1, StartStep DEF TaskTypes
  <2>4. \A i \in 1..n - 1 : i + 1 \in 1..n /\ \A j \in 1..n - 1 : i < j => i + 1 < j + 1
    BY <2>1
  <2>5. InOrder'
    <3>1. ASSUME NEW v \in Workers, NEW o \in Producers, v # w \/ o # p, waiting'[v][o] = waiting[v][o]
          PROVE  /\ \A i \in 1..Len(waiting'[v][o]) :
                       waiting'[v][o][i][1] = o /\ waiting'[v][o][i][2] \in 1..given'[o]
                 /\ \A i, j \in 1..Len(waiting'[v][o]) :
                       i < j => waiting'[v][o][i][2] < waiting'[v][o][j][2]
      BY <1>1, <2>1, <3>1 DEF InOrder
    <3>2. ASSUME NEW i \in 1..n - 1
          PROVE  waiting'[w][p][i][1] = p /\ waiting'[w][p][i][2] \in 1..given'[p]
      <4>1. i + 1 \in 1..n /\ waiting'[w][p][i] = waiting[w][p][i + 1] /\ given' = given
        BY <2>1, <2>4
      <4>2. waiting[w][p][i + 1][1] = p /\ waiting[w][p][i + 1][2] \in 1..given[p]
        BY <1>1, <2>0, <4>1 DEF InOrder
      <4>3. QED
        BY <4>1, <4>2
    <3>3. ASSUME NEW i \in 1..n - 1, NEW j \in 1..n - 1, i < j
          PROVE  waiting'[w][p][i][2] < waiting'[w][p][j][2]
      <4>1. i + 1 \in 1..n /\ j + 1 \in 1..n /\ i + 1 < j + 1
        BY <2>4, <3>3
      <4>2. waiting[w][p][i + 1][2] < waiting[w][p][j + 1][2]
        BY <1>1, <2>0, <4>1 DEF InOrder
      <4>3. QED
        BY <2>1, <4>2
    <3>4. QED
      BY <2>1, <3>1, <3>2, <3>3 DEF InOrder
  <2>6. /\ Waits(w, task) /\ \A v \in Workers, t \in Tasks : Waits(v, t)' => Waits(v, t) /\ t # task
        /\ task[2] \in 1..given[task[1]]
    BY <1>5, <2>0, <2>1, StartWaits, WaitsIsGiven
  <2>7. Once'
    <3> SUFFICES ASSUME NEW t \in Tasks, NEW u \in Workers, NEW v \in Workers
                 PROVE  /\ Waits(u, t)' => hand'[v] # t /\ (Waits(v, t)' => u = v)
                        /\ hand'[u] = t => t[2] \in 1..given'[t[1]] /\ (hand'[v] = t => u = v)
      BY DEF Once
    <3>1. CASE t = task
      BY <1>1, <2>1, <2>2, <2>6, <3>1 DEF Once
    <3>2. CASE t # task
      BY <1>1, <2>1, <2>2, <2>6, <3>2 DEF Once
    <3>3. QED
      BY <3>1, <3>2
  <2>8. QED
    BY <2>3, <2>5, <2>7 DEF TasksInv
<1>6. ASSUME NEW w \in Workers, Finish(w)
      PROVE  TasksInv'
  <2>1. /\ UNCHANGED <<given, waiting>> /\ hand' = [hand EXCEPT ![w] = NoTask]
        /\ hand'[w] = NoTask /\ \A v \in Workers \ {w} : hand'[v] = hand[v]
    BY <1>1, <1>6 DEF Finish, TaskTypes
  <2>2. TaskTypes' /\ InOrder'
    BY <1>1, <2>1 DEF TaskTypes, InOrder
  <2>3. \A v \in Workers, t \in Tasks : (Waits(v, t)' <=> Waits(v, t)) /\ (hand'[v] = t => hand[v] = t)
    BY <2>1, TaskIsSome DEF Waits
  <2>4. Once'
    BY <1>1, <2>1, <2>3 DEF Once
  <2>5. QED
    BY <2>2, <2>4 DEF TasksInv
<1>7. CASE UNCHANGED tasks
  BY <1>1, <1>7 DEF tasks, TasksInv, TaskTypes, InOrder, Once, Waits
<1>8. QED
  BY <1>3, <1>4, <1>5, <1>6, <1>7 DEF TasksNext

\* The numbers of the tasks of p that wait at w
Numbers(w, p) == [i \in 1..Len(waiting[w][p]) |-> waiting[w][p][i][2]]

LEMMA NumbersAreNat ==
  ASSUME TasksInv, NEW w \in Workers, NEW p \in Producers
  PROVE  Numbers(w, p) \in Seq(Nat) /\ Len(Numbers(w, p)) = Len(waiting[w][p])
<1>1. PICK n : n = Len(waiting[w][p])
  OBVIOUS
<1>2. n \in Nat
  BY <1>1, LenProperties DEF TasksInv, TaskTypes
<1>3. given[p] \in Nat /\ \A i \in 1..n : waiting[w][p][i][2] \in 1..given[p]
  BY <1>1 DEF TasksInv, TaskTypes, InOrder
<1>4. Numbers(w, p) \in [1..n -> Nat]
  BY <1>1, <1>3 DEF Numbers
<1>5. Numbers(w, p) \in Seq(Nat)
  BY <1>2, <1>4, SeqDef
<1>6. QED
  BY <1>1, <1>2, <1>4, <1>5, LenProperties

\* A new task brings its number, behind the others.
LEMMA AcceptNumbers ==
  ASSUME TasksInv, NEW p \in Producers, NEW w \in Workers, Accept(p, w)
  PROVE  /\ Numbers(w, p)' = Append(Numbers(w, p), given[p] + 1)
         /\ \A v \in Workers, o \in Producers : v # w \/ o # p => Numbers(v, o)' = Numbers(v, o)
<1>1. PICK s, t, n : s = Numbers(w, p) /\ t = Numbers(w, p)' /\ n = Len(waiting[w][p])
  OBVIOUS
<1>2. n \in Nat /\ given[p] \in Nat
  BY <1>1, AcceptStep DEF TasksInv, TaskTypes
<1>3. /\ Len(waiting'[w][p]) = n + 1 /\ waiting'[w][p][n + 1][2] = given[p] + 1
      /\ \A i \in 1..n : waiting'[w][p][i] = waiting[w][p][i]
      /\ \A v \in Workers, o \in Producers : v # w \/ o # p => waiting'[v][o] = waiting[v][o]
  <2>1. PICK new : new = <<p, given[p] + 1>>
    OBVIOUS
  <2>2. /\ Len(waiting'[w][p]) = n + 1 /\ waiting'[w][p][n + 1] = new
        /\ \A i \in 1..n : waiting'[w][p][i] = waiting[w][p][i]
        /\ \A v \in Workers, o \in Producers : v # w \/ o # p => waiting'[v][o] = waiting[v][o]
    BY <1>1, <2>1, AcceptStep
  <2>3. QED
    BY <2>1, <2>2
<1>4. s \in Seq(Nat) /\ Len(s) = n /\ \A i \in 1..n : s[i] = waiting[w][p][i][2]
  BY <1>1, NumbersAreNat DEF Numbers
<1>5. t = [i \in 1..n + 1 |-> waiting'[w][p][i][2]]
  BY <1>1, <1>3 DEF Numbers
<1>6. /\ Append(s, given[p] + 1) \in [1..n + 1 -> Nat]
      /\ Append(s, given[p] + 1)[n + 1] = given[p] + 1
      /\ \A i \in 1..n : Append(s, given[p] + 1)[i] = s[i]
  <2>1. given[p] + 1 \in Nat
    BY <1>2
  <2>2. /\ Append(s, given[p] + 1) \in Seq(Nat)
        /\ Len(Append(s, given[p] + 1)) = n + 1
        /\ Append(s, given[p] + 1)[n + 1] = given[p] + 1
        /\ \A i \in 1..n : Append(s, given[p] + 1)[i] = s[i]
    BY <1>4, <2>1, AppendProperties
  <2>3. QED
    BY <2>2, LenProperties
<1>7. \A i \in 1..n + 1 : t[i] = Append(s, given[p] + 1)[i]
  <2>1. \A i \in 1..n + 1 : i \in 1..n \/ i = n + 1
    BY <1>2
  <2>2. QED
    BY <1>3, <1>4, <1>5, <1>6, <2>1
<1>8. t = Append(s, given[p] + 1)
  BY <1>5, <1>6, <1>7
<1>9. QED
  BY <1>1, <1>3, <1>8 DEF Numbers

\* The oldest number goes.
LEMMA StartNumbers ==
  ASSUME TasksInv, NEW w \in Workers, NEW p \in Producers, Start(w, p)
  PROVE  /\ Numbers(w, p) # <<>> /\ Head(waiting[w][p]) = <<p, Head(Numbers(w, p))>>
         /\ Numbers(w, p)' = Tail(Numbers(w, p))
         /\ \A v \in Workers, o \in Producers : v # w \/ o # p => Numbers(v, o)' = Numbers(v, o)
<1>1. PICK s, t, n : s = Numbers(w, p) /\ t = Numbers(w, p)' /\ n = Len(waiting[w][p])
  OBVIOUS
<1>2. /\ n \in Nat \ {0} /\ waiting[w][p][1] \in Tasks /\ Head(waiting[w][p]) = waiting[w][p][1]
      /\ Len(waiting'[w][p]) = n - 1 /\ \A i \in 1..n - 1 : waiting'[w][p][i] = waiting[w][p][i + 1]
  BY <1>1, StartStep
<1>3. \A v \in Workers, o \in Producers : v # w \/ o # p => waiting'[v][o] = waiting[v][o]
  BY StartStep
<1>4. s \in Seq(Nat) /\ Len(s) = n /\ \A i \in 1..n : s[i] = waiting[w][p][i][2]
  BY <1>1, NumbersAreNat DEF Numbers
<1>5. t = [i \in 1..n - 1 |-> waiting'[w][p][i][2]]
  BY <1>1, <1>2 DEF Numbers
<1>6. s # <<>> /\ Head(s) = s[1] /\ Tail(s) \in Seq(Nat) /\ Len(Tail(s)) = n - 1
      /\ \A i \in 1..n - 1 : Tail(s)[i] = s[i + 1]
  BY <1>2, <1>4, EmptySeq, HeadTailProperties
<1>7. Tail(s) \in [1..n - 1 -> Nat]
  BY <1>6, LenProperties
<1>8. \A i \in 1..n - 1 : t[i] = Tail(s)[i]
  <2>1. \A i \in 1..n - 1 : i + 1 \in 1..n
    BY <1>2
  <2>2. QED
    BY <1>2, <1>4, <1>5, <1>6, <2>1
<1>9. t = Tail(s)
  BY <1>5, <1>7, <1>8
<1>10. Head(waiting[w][p]) = <<p, Head(s)>>
  <2>1. 1 \in 1..n
    BY <1>2
  <2>2. waiting[w][p][1][1] = p
    BY <1>1, <2>1 DEF TasksInv, InOrder
  <2>3. waiting[w][p][1] = <<waiting[w][p][1][1], waiting[w][p][1][2]>>
    BY <1>2 DEF Tasks
  <2>4. QED
    BY <1>2, <1>4, <1>6, <2>1, <2>2, <2>3
<1>11. QED
  BY <1>1, <1>3, <1>6, <1>9, <1>10 DEF Numbers

(* A task waits at one worker or is in the hands of one, and those of one   *)
(* producer wait in the order of its calls: TasksInv is inductive.          *)
THEOREM Invariance == TasksSpec => []TasksInv
BY TasksInvInit, TasksInvStep, PTL DEF TasksSpec

===============================================================================

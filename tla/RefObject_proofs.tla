--------------------------- MODULE RefObject_proofs ---------------------------
(***************************************************************************)
(* Proofs about RefObject, for any structure, values and bounds.  What the *)
(* code makes of a request, its key and its text, is not looked into: the  *)
(* theorem about statements has as hypotheses that requests which share a  *)
(* key share a text, and that no text has more places than values.         *)
(***************************************************************************)
EXTENDS RefObject, FiniteSetTheorems, SequenceTheorems, WellFoundedInduction, TLAPS

-----------------------------------------------------------------------------
(* Sequences                                                               *)

LEMMA FunctionIsSeq ==
  ASSUME NEW n \in Nat, NEW T, NEW f \in [1..n -> T]
  PROVE  f \in Seq(T) /\ Len(f) = n
OBVIOUS

\* A set of numbers has a least one.
LEMMA NatMin ==
  ASSUME NEW T, T \subseteq Nat, T # {}
  PROVE  \E x \in T : \A y \in T : x <= y
<1>1. PICK R : R = OpToRel(<, Nat)
  OBVIOUS
<1>2. IsWellFoundedOn(R, Nat)
  BY <1>1, NatLessThanWellFounded
<1>3. \A x, y \in Nat : <<x, y>> \in R <=> x < y
  BY <1>1 DEF OpToRel
<1>4. PICK x \in T : \A y \in T : ~ (<<y, x>> \in R)
  BY <1>2, WFMin
<1>5. \A y \in T : x \in Nat /\ y \in Nat /\ ~ (y < x)
  BY <1>3, <1>4
<1>6. \A y \in T : x <= y
  BY <1>5
<1>7. QED
  BY <1>6

IsFlatten(f, n, s) == f = [i \in 1..n |-> IF i = 1 THEN s[i] ELSE f[i - 1] \o s[i]]

\* There is such a function.
LEMMA FlattenExists ==
  ASSUME NEW n \in Nat, NEW s
  PROVE  \E f : IsFlatten(f, n, s)
<1> DEFINE Bad == {m \in Nat : ~ \E f : IsFlatten(f, m, s)}
<1> SUFFICES ASSUME Bad # {} PROVE FALSE
  OBVIOUS
<1>1. PICK m \in Bad : \A k \in Bad : m <= k
  BY NatMin
<1>2. CASE m = 0
  <2>1. IsFlatten([i \in 1..0 |-> <<>>], 0, s)
    BY DEF IsFlatten
  <2>2. QED
    BY <1>1, <1>2, <2>1
<1>3. CASE m # 0
  <2>1. m \in Nat /\ m - 1 \in Nat /\ ~ (m <= m - 1) /\ m \notin 1..m - 1
    BY <1>1, <1>3
  <2>2. PICK f : IsFlatten(f, m - 1, s)
    <3>1. m - 1 \notin Bad
      BY <1>1, <2>1
    <3>2. QED
      BY <2>1, <3>1, Zenon
  <2>3. \A k \in 1..m - 1 : f[k] = IF k = 1 THEN s[k] ELSE f[k - 1] \o s[k]
    BY <2>2 DEF IsFlatten
  <2>4. PICK g : g = [k \in 1..m |-> IF k = m THEN IF m = 1 THEN s[m] ELSE f[m - 1] \o s[m] ELSE f[k]]
    OBVIOUS
  <2>5. /\ \A k \in 1..m - 1 : g[k] = f[k]
        /\ g[m] = IF m = 1 THEN s[m] ELSE f[m - 1] \o s[m]
    <3>1. m \in 1..m /\ \A k \in 1..m - 1 : k \in 1..m /\ k # m
      BY <1>3, <2>1
    <3>2. QED
      BY <2>4, <3>1
  <2>6. \A k \in 1..m : g[k] = IF k = 1 THEN s[k] ELSE g[k - 1] \o s[k]
    <3> SUFFICES ASSUME NEW k \in 1..m PROVE g[k] = IF k = 1 THEN s[k] ELSE g[k - 1] \o s[k]
      OBVIOUS
    <3>1. CASE k = 1
      <4>1. k = m \/ k \in 1..m - 1
        BY <2>1
      <4>2. QED
        BY <2>3, <2>5, <3>1, <4>1
    <3>2. CASE k # 1
      <4>1. k - 1 \in 1..m - 1 /\ (k = m \/ k \in 1..m - 1)
        BY <2>1, <3>2
      <4>2. g[k - 1] = f[k - 1]
        BY <2>5, <4>1
      <4>3. g[k] = f[k - 1] \o s[k]
        BY <2>3, <2>5, <3>2, <4>1
      <4>4. QED
        BY <3>2, <4>2, <4>3
    <3>3. QED
      BY <3>1, <3>2
  <2>7. g = [k \in 1..m |-> g[k]]
    BY <2>4
  <2>8. IsFlatten(g, m, s)
    BY <2>6, <2>7 DEF IsFlatten
  <2>9. QED
    BY <1>1, <2>8
<1>4. QED
  BY <1>2, <1>3

LEMMA FlattenFunction ==
  ASSUME NEW T, NEW s \in Seq(T), Len(s) # 0
  PROVE  \E f : /\ FlattenSeq(s) = f[Len(s)]
                /\ \A k \in 1..Len(s) : f[k] = IF k = 1 THEN s[k] ELSE f[k - 1] \o s[k]
<1>1. PICK n \in Nat : n = Len(s)
  BY LenProperties
<1>2. FlattenSeq(s) = (CHOOSE f : IsFlatten(f, Len(s), s))[Len(s)]
  BY DEF FlattenSeq, IsFlatten
<1>3. PICK f : f = CHOOSE g : IsFlatten(g, n, s)
  OBVIOUS
<1>4. IsFlatten(f, n, s)
  BY <1>3, FlattenExists, Zenon
<1>5. \A k \in 1..n : f[k] = IF k = 1 THEN s[k] ELSE f[k - 1] \o s[k]
  BY <1>4 DEF IsFlatten
<1>6. FlattenSeq(s) = f[Len(s)] /\ \A k \in 1..Len(s) : f[k] = IF k = 1 THEN s[k] ELSE f[k - 1] \o s[k]
  BY <1>1, <1>2, <1>3, <1>5
<1>7. QED
  BY <1>6, Zenon

\* The sequences of s, one behind another, are a sequence of the same type.
LEMMA FlattenIs ==
  ASSUME NEW T, NEW s \in Seq(Seq(T))
  PROVE  FlattenSeq(s) \in Seq(T)
<1>1. PICK n \in Nat : n = Len(s)
  BY LenProperties
<1>2. CASE n = 0
  <2>1. s = <<>>
    BY <1>1, <1>2, EmptySeq
  <2>2. FlattenSeq(<<>>) = <<>>
    BY EmptySeq DEF FlattenSeq
  <2>3. QED
    BY <2>1, <2>2, EmptySeq
<1>3. CASE n # 0
  <2>1. PICK f : /\ FlattenSeq(s) = f[n]
                 /\ \A k \in 1..n : f[k] = IF k = 1 THEN s[k] ELSE f[k - 1] \o s[k]
    <3>1. Len(s) # 0 /\ Len(s) = n
      BY <1>1, <1>3
    <3>2. \E h : /\ FlattenSeq(s) = h[Len(s)]
                 /\ \A k \in 1..Len(s) : h[k] = IF k = 1 THEN s[k] ELSE h[k - 1] \o s[k]
      BY <3>1, FlattenFunction
    <3>3. QED
      BY <3>1, <3>2
  <2>2. \A i \in 1..n : s[i] \in Seq(T)
    BY <1>1, ElementOfSeq
  <2> DEFINE Good(k) == f[k] \in Seq(T)
             Bad == {k \in 1..n : ~Good(k)}
  <2>3. Bad = {}
    <3> SUFFICES ASSUME Bad # {} PROVE FALSE
      OBVIOUS
    <3>1. Bad \subseteq Nat
      OBVIOUS
    <3>2. PICK k \in Bad : \A m \in Bad : k <= m
      BY <3>1, NatMin
    <3>3. k \in 1..n /\ ~Good(k)
      BY <3>2
    <3>4. CASE k = 1
      BY <2>1, <2>2, <3>3, <3>4
    <3>5. CASE k # 1
      <4>1. k - 1 \in 1..n /\ ~ (k <= k - 1)
        BY <3>3, <3>5
      <4>2. Good(k - 1)
        BY <3>2, <4>1
      <4>3. f[k - 1] \o s[k] \in Seq(T)
        BY <2>2, <3>3, <4>2, ConcatProperties
      <4>4. QED
        BY <2>1, <3>3, <3>5, <4>3
    <3>6. QED
      BY <3>4, <3>5
  <2>4. n \in 1..n
    BY <1>1, <1>3
  <2>5. Good(n)
    BY <2>3, <2>4, Zenon
  <2>6. QED
    BY <2>1, <2>5
<1>4. QED
  BY <1>2, <1>3

\* As many numbers as the set has
LEMMA AscendingLen ==
  ASSUME NEW S, S \subseteq Members
  PROVE  Len(Ascending(S)) \in Nat /\ Ascending(S) = [k \in 1..Len(Ascending(S)) |-> Ascending(S)[k]]
<1>1. PICK n \in Nat : n = Cardinality(S)
  BY MembersAssumption, FS_Subset, FS_CardinalityType
<1>2. PICK f : f = [k \in 1..n |-> CHOOSE x \in S : Cardinality({m \in S : m <= x}) = k]
  OBVIOUS
<1>3. Ascending(S) = f
  BY <1>1, <1>2 DEF Ascending
<1>4. f \in [1..n -> {f[k] : k \in 1..n}]
  BY <1>2
<1>5. Len(f) = n
  BY <1>4, FunctionIsSeq
<1>6. QED
  BY <1>2, <1>3, <1>5

-----------------------------------------------------------------------------
(* What every client's steps keep                                          *)

Appended == [mem : Members, kind : Kinds \cup {"ORDER_ASC"}, op : {"=="}]
Lists == Seq(ConditionTypes)
Froms == {Tables(n) : n \in Nat}
Assignments == UNION {[seqs -> Values] : seqs \in SUBSET Members}

PartTypes == [hash : Seq(Appended), params : Nat, asked : Lists]
BuilderTypes == [op : {"union", "join", "copy"}, froms : Froms, parts : Seq(PartTypes)]
RequestTypes == [op : {"read", "del", "update", "union", "join", "copy"}, builder : Nat, parts : Seq(PartTypes),
                 seqs : SUBSET Members, values : Assignments, asked : Seq(Lists), froms : Froms,
                 wanted : Assignments]

\* The client's object: beside its list the hash of it, and a value of each
\* member it assigned.
ObjInv == /\ obj \in [cond_ : [Members -> Kinds \cup {None}], value_ : [Members -> Values \cup {Null}],
                      seqset_ : SUBSET Members, hashv_ : Seq(Appended), conds_ : Nat]
          /\ obj.conds_ <= Len(lists)
          /\ obj.hashv_ = Entries(ListAt(obj.conds_))
          /\ \A m \in obj.seqset_ : obj.value_[m] \in Values
          /\ objects \in 1..MaxObjects

\* No list is empty.
ListsInv == /\ lists \in Seq(Lists)
            /\ \A l \in 1..Len(lists) : lists[l] # <<>>

\* The lists of these parts there are.
Listed(parts) == \A i \in 1..Len(parts) : parts[i].params <= Len(lists)

BuilderInv(b) == /\ Listed(b.parts)
                 /\ b.op = "union" => b.froms = <<>> /\ b.parts # <<>>
                 /\ b.op # "union" => /\ b.froms # <<>>
                                      /\ \A i \in 1..Len(b.parts) : b.parts[i].asked # <<>>

BuildersInv == /\ builders \in Seq(BuilderTypes)
               /\ Len(builders) <= MaxBuilders
               /\ \A b \in 1..Len(builders) : BuilderInv(builders[b])

\* A request is one a client can ask, and has what the client wanted.
RequestInv(q) == /\ q.builder <= Len(builders)
                 /\ Listed(q.parts)
                 /\ q.wanted \in [q.seqs -> Values]
                 /\ q.values = q.wanted
                 /\ q.asked = [i \in 1..Len(q.parts) |-> q.parts[i].asked]
                 /\ CanAsk(q)

RequestsInv == /\ queue \in Seq(RequestTypes)
               /\ cur \in RequestTypes \cup {NoRequest}
               /\ \A q \in Pending : RequestInv(q)
               /\ requests \in 0..MaxRequests
               /\ pc \in {"idle", "find", "bind", "step"}
               /\ pc = "idle" <=> cur = NoRequest

TypeInv == ObjInv /\ ListsInv /\ BuildersInv /\ RequestsInv

LEMMA InitInv == Init => TypeInv
<1> SUFFICES ASSUME Init PROVE TypeInv
  OBVIOUS
<1> USE DEF Init
<1>1. ObjInv
  <2>1. Entries(<<>>) = <<>>
    BY EmptySeq DEF Entries, MapSeq
  <2>2. <<>> \in Seq(Appended) /\ Len(<<>>) = 0
    BY EmptySeq
  <2>3. QED
    BY <2>1, <2>2, BoundsAssumption DEF ObjInv, Blank, ListAt, NoList
<1>2. ListsInv
  BY EmptySeq DEF ListsInv
<1>3. BuildersInv
  BY EmptySeq, BoundsAssumption DEF BuildersInv
<1>4. RequestsInv
  <2>1. Pending = {}
    BY EmptySeq DEF Pending
  <2>2. QED
    BY <2>1, EmptySeq, BoundsAssumption DEF RequestsInv
<1>5. QED
  BY <1>1, <1>2, <1>3, <1>4 DEF TypeInv

\* The client's object as a request or a builder takes it
LEMMA SnapshotIs ==
  ASSUME ObjInv, ListsInv
  PROVE  /\ Snapshot \in PartTypes
         /\ Snapshot.params <= Len(lists)
         /\ Snapshot.asked = ListAt(Snapshot.params)
         /\ Snapshot.hash = Entries(Snapshot.asked)
         /\ obj.conds_ # NoList => Snapshot.asked # <<>>
<1>1. obj.hashv_ \in Seq(Appended) /\ obj.conds_ \in Nat
  BY DEF ObjInv
<1>2. ListAt(obj.conds_) \in Lists /\ (obj.conds_ # NoList => ListAt(obj.conds_) # <<>>)
  <2>1. CASE obj.conds_ = NoList
    BY <2>1, EmptySeq DEF ListAt, Lists
  <2>2. CASE obj.conds_ # NoList
    <3>1. obj.conds_ \in 1..Len(lists)
      BY <1>1, <2>2 DEF ObjInv, NoList
    <3>2. lists[obj.conds_] \in Lists
      BY <3>1, ElementOfSeq DEF ListsInv
    <3>3. QED
      BY <2>2, <3>1, <3>2 DEF ListAt, ListsInv
  <2>3. QED
    BY <2>1, <2>2
<1>3. QED
  BY <1>1, <1>2 DEF Snapshot, PartTypes, ObjInv

LEMMA WithoutIs ==
  /\ Without \in PartTypes
  /\ Without.params = NoList
  /\ Without.asked = ListAt(Without.params)
  /\ Without.hash = Entries(Without.asked)
<1>1. Entries(<<>>) = <<>>
  BY EmptySeq DEF Entries, MapSeq
<1>2. <<>> \in Seq(Appended) /\ <<>> \in Lists
  BY EmptySeq DEF Lists
<1>3. QED
  BY <1>1, <1>2 DEF Without, PartTypes, NoList, ListAt

LEMMA PassedAre ==
  ASSUME ObjInv, ListsInv, NEW part \in Passed
  PROVE  /\ part \in PartTypes
         /\ part.params <= Len(lists)
         /\ part.asked = ListAt(part.params)
         /\ part.hash = Entries(part.asked)
<1>1. Len(lists) \in Nat
  BY LenProperties DEF ListsInv
<1>2. CASE part = Without
  BY <1>1, <1>2, WithoutIs DEF NoList
<1>3. CASE part = Snapshot
  BY <1>3, SnapshotIs
<1>4. QED
  BY <1>2, <1>3 DEF Passed

LEMMA ParamsAre == \A parts \in Seq(PartTypes) : \A i \in 1..Len(parts) : parts[i].params \in Nat
<1> SUFFICES ASSUME NEW parts \in Seq(PartTypes), NEW i \in 1..Len(parts) PROVE parts[i].params \in Nat
  OBVIOUS
<1>1. parts[i] \in PartTypes
  BY ElementOfSeq
<1>2. QED
  BY <1>1 DEF PartTypes

\* What was handed in stays sound while lists and builders grow.
LEMMA RequestsStay ==
  ASSUME TypeInv, Len(lists') \in Nat, Len(lists) <= Len(lists'),
         Len(builders') \in Nat, Len(builders) <= Len(builders'), NEW q \in RequestTypes, RequestInv(q)
  PROVE  RequestInv(q)'
<1>1. Len(lists) \in Nat /\ Len(builders) \in Nat
  BY LenProperties DEF TypeInv, ListsInv, BuildersInv
<1>2. q.builder \in Nat /\ q.parts \in Seq(PartTypes)
  BY DEF RequestTypes
<1>3. \A i \in 1..Len(q.parts) : q.parts[i].params \in Nat
  BY <1>2, ParamsAre
<1>4. Listed(q.parts)'
  BY <1>1, <1>3 DEF RequestInv, Listed
<1>5. QED
  BY <1>1, <1>2, <1>4 DEF RequestInv

LEMMA PendingTyped == RequestsInv => \A q \in Pending : q \in RequestTypes /\ q # NoRequest
<1> SUFFICES ASSUME RequestsInv, NEW q \in Pending PROVE q \in RequestTypes /\ q # NoRequest
  OBVIOUS
<1>1. q \in RequestTypes
  <2>1. \A i \in 1..Len(queue) : queue[i] \in RequestTypes
    BY ElementOfSeq DEF RequestsInv
  <2>2. QED
    BY <2>1 DEF RequestsInv, Pending
<1>2. q.op # "none" /\ NoRequest.op = "none"
  BY <1>1 DEF RequestTypes, NoRequest
<1>3. QED
  BY <1>1, <1>2

\* The steps that leave the requests alone
LEMMA RequestsFrame ==
  ASSUME TypeInv, Len(lists') \in Nat, Len(lists) <= Len(lists'),
         Len(builders') \in Nat, Len(builders) <= Len(builders'), UNCHANGED <<queue, requests, pc, cur>>
  PROVE  RequestsInv'
<1>1. Pending' = Pending
  BY DEF Pending
<1>2. \A q \in Pending : RequestInv(q)'
  BY RequestsStay, PendingTyped DEF TypeInv, RequestsInv
<1>3. QED
  BY <1>1, <1>2 DEF TypeInv, RequestsInv

LEMMA ObjectFrame ==
  ASSUME TypeInv, Len(lists') \in Nat, Len(lists) <= Len(lists'), UNCHANGED <<builders, queue, requests, pc, cur>>
  PROVE  BuildersInv' /\ RequestsInv'
<1>1. Len(lists) \in Nat /\ Len(builders) \in Nat
  BY LenProperties DEF TypeInv, ListsInv, BuildersInv
<1>2. RequestsInv'
  BY <1>1, RequestsFrame
<1>3. ASSUME NEW b \in 1..Len(builders) PROVE BuilderInv(builders[b])'
  <2>1. PICK x \in BuilderTypes : x = builders[b]
    BY ElementOfSeq DEF TypeInv, BuildersInv
  <2>2. \A i \in 1..Len(x.parts) : x.parts[i].params \in Nat
    BY ParamsAre DEF BuilderTypes
  <2>3. BuilderInv(x)
    BY <2>1 DEF TypeInv, BuildersInv
  <2>4. BuilderInv(x)'
    BY <1>1, <2>2, <2>3 DEF BuilderInv, Listed
  <2>5. QED
    BY <2>1, <2>4
<1>4. BuildersInv'
  BY <1>3 DEF TypeInv, BuildersInv
<1>5. QED
  BY <1>2, <1>4

LEMMA NewObjectKeeps == TypeInv /\ NewObject => TypeInv'
<1> SUFFICES ASSUME TypeInv, NewObject PROVE TypeInv'
  OBVIOUS
<1>1. UNCHANGED <<lists, builders, queue, requests, pc, cur>> /\ Len(lists) \in Nat
  BY LenProperties DEF NewObject, workerVars, TypeInv, ListsInv
<1>2. BuildersInv' /\ RequestsInv'
  BY <1>1, ObjectFrame
<1>3. ListsInv'
  BY <1>1 DEF TypeInv, ListsInv
<1>4. ObjInv'
  <2>1. Entries(<<>>) = <<>>
    BY EmptySeq DEF Entries, MapSeq
  <2>2. <<>> \in Seq(Appended)
    BY EmptySeq
  <2>3. QED
    BY <1>1, <2>1, <2>2, BoundsAssumption DEF NewObject, TypeInv, ObjInv, Blank, ListAt, NoList
<1>5. QED
  BY <1>2, <1>3, <1>4 DEF TypeInv

LEMMA NameKeeps ==
  ASSUME TypeInv, NEW m \in Members, NEW kind \in Kinds, Name(m, kind)
  PROVE  TypeInv'
<1>1. UNCHANGED <<objects, lists, builders, queue, requests, pc, cur>> /\ Len(lists) \in Nat
  BY LenProperties DEF Name, workerVars, TypeInv, ListsInv
<1>2. BuildersInv' /\ RequestsInv'
  BY <1>1, ObjectFrame
<1>3. ListsInv'
  BY <1>1 DEF TypeInv, ListsInv
<1>4. ObjInv'
  BY <1>1 DEF Name, TypeInv, ObjInv, ListAt
<1>5. QED
  BY <1>2, <1>3, <1>4 DEF TypeInv

LEMMA AssignKeeps ==
  ASSUME TypeInv, NEW m \in Members, NEW value \in Values, Assign(m, value)
  PROVE  TypeInv'
<1>1. UNCHANGED <<objects, lists, builders, queue, requests, pc, cur>> /\ Len(lists) \in Nat
  BY LenProperties DEF Assign, workerVars, TypeInv, ListsInv
<1>2. BuildersInv' /\ RequestsInv'
  BY <1>1, ObjectFrame
<1>3. ListsInv'
  BY <1>1 DEF TypeInv, ListsInv
<1>4. PICK values, seqs : /\ values = [obj.value_ EXCEPT ![m] = value] /\ seqs = obj.seqset_ \cup {m}
                          /\ obj' = [obj EXCEPT !.value_ = values, !.seqset_ = seqs]
  BY DEF Assign, TypeInv, ObjInv
<1>5. /\ values \in [Members -> Values \cup {Null}] /\ seqs \in SUBSET Members
      /\ \A k \in seqs : values[k] \in Values
  BY <1>4 DEF TypeInv, ObjInv
<1>6. ObjInv'
  BY <1>1, <1>4, <1>5 DEF TypeInv, ObjInv, ListAt
<1>7. QED
  BY <1>2, <1>3, <1>6 DEF TypeInv

LEMMA EntriesAre ==
  ASSUME NEW list \in Lists
  PROVE  /\ Entries(list) \in Seq(Appended)
         /\ Len(Entries(list)) = Len(list)
         /\ \A i \in 1..Len(list) : Entries(list)[i] = list[i].entry
<1>1. PICK n \in Nat : n = Len(list)
  BY LenProperties DEF Lists
<1>2. \A i \in 1..n : list[i].entry \in Appended
  <2>1. \A i \in 1..n : list[i] \in ConditionTypes
    BY <1>1, ElementOfSeq DEF Lists
  <2>2. QED
    BY <2>1 DEF ConditionTypes, Appended
<1>3. PICK f : f = [i \in 1..n |-> list[i].entry]
  OBVIOUS
<1>4. f = Entries(list)
  BY <1>1, <1>3 DEF Entries, MapSeq
<1>5. f \in [1..n -> Appended]
  BY <1>2, <1>3
<1>6. QED
  BY <1>1, <1>3, <1>4, <1>5, FunctionIsSeq

LEMMA EntriesAppend ==
  ASSUME NEW list \in Lists, NEW c \in ConditionTypes
  PROVE  Entries(Append(list, c)) = Append(Entries(list), c.entry)
<1>1. PICK more : more = Append(list, c)
  OBVIOUS
<1>2. /\ more \in Lists /\ Len(more) = Len(list) + 1 /\ more[Len(list) + 1] = c
      /\ \A i \in 1..Len(list) : more[i] = list[i]
  BY <1>1, AppendProperties DEF Lists
<1>3. PICK e : e = Entries(list)
  OBVIOUS
<1>4. PICK n \in Nat : n = Len(list)
  BY LenProperties DEF Lists
<1>5. e \in Seq(Appended) /\ Len(e) = n /\ \A i \in 1..n : e[i] = list[i].entry
  BY <1>3, <1>4, EntriesAre
<1>6. PICK f : f = Entries(more)
  OBVIOUS
<1>7. f \in Seq(Appended) /\ Len(f) = n + 1 /\ \A i \in 1..n + 1 : f[i] = more[i].entry
  BY <1>2, <1>4, <1>6, EntriesAre
<1>8. PICK g : g = Append(e, c.entry)
  OBVIOUS
<1>9. c.entry \in Appended
  BY DEF ConditionTypes, Appended
<1>10. g \in Seq(Appended) /\ Len(g) = n + 1 /\ g[n + 1] = c.entry /\ \A i \in 1..n : g[i] = e[i]
  BY <1>5, <1>8, <1>9, AppendProperties
<1>11. \A i \in 1..n + 1 : f[i] = g[i]
  <2> SUFFICES ASSUME NEW i \in 1..n + 1 PROVE f[i] = g[i]
    OBVIOUS
  <2>1. CASE i = n + 1
    BY <1>2, <1>4, <1>7, <1>10, <2>1
  <2>2. CASE i # n + 1
    <3>1. i \in 1..n
      BY <2>2
    <3>2. QED
      BY <1>2, <1>4, <1>5, <1>7, <1>10, <3>1
  <2>3. QED
    BY <2>1, <2>2
<1>12. f = g
  BY <1>7, <1>10, <1>11, SeqEqual
<1>13. QED
  BY <1>1, <1>3, <1>6, <1>8, <1>12

\* The list the condition comes to is the object's own, and longer by it.
LEMMA AppendIs ==
  ASSUME TypeInv, NEW entry \in Appended, NEW value \in Values \cup {Null}, AppendCond(entry, value)
  PROVE  \E at \in 1..Len(lists') :
            /\ lists' \in Seq(Lists) /\ Len(lists') \in Nat /\ Len(lists) <= Len(lists')
            /\ lists'[at] = Append(ListAt(obj.conds_), [entry |-> entry, value |-> value])
            /\ \A l \in 1..Len(lists') : l # at => l <= Len(lists) /\ lists'[l] = lists[l]
            /\ obj' = [obj EXCEPT !.conds_ = at, !.hashv_ = Append(@, entry), !.cond_[entry.mem] = None]
            /\ CondsFrozen => \A part \in PartsInUse : part.params # at
<1>1. PICK n \in Nat : n = Len(lists)
  BY LenProperties DEF TypeInv, ListsInv
<1>2. PICK c : c = [entry |-> entry, value |-> value]
  OBVIOUS
<1>3. c \in ConditionTypes
  BY <1>2 DEF ConditionTypes, Appended
<1>4. lists \in Seq(Lists) /\ obj.conds_ \in Nat /\ obj.conds_ <= n
  BY <1>1 DEF TypeInv, ListsInv, ObjInv
<1>5. CASE obj.conds_ = NoList
  <2>1. /\ lists' = Append(lists, <<c>>)
        /\ obj' = [obj EXCEPT !.conds_ = n + 1, !.hashv_ = Append(@, entry), !.cond_[entry.mem] = None]
        /\ CondsFrozen => \A part \in PartsInUse : part.params # n + 1
    BY <1>1, <1>2, <1>5 DEF AppendCond
  <2>2. <<c>> = Append(<<>>, c) /\ Append(<<>>, c) \in Lists
    BY <1>3 DEF Lists
  <2>3. /\ lists' \in Seq(Lists) /\ Len(lists') = n + 1
        /\ lists'[n + 1] = Append(<<>>, c) /\ \A l \in 1..n : lists'[l] = lists[l]
    BY <1>1, <1>4, <2>1, <2>2, AppendProperties
  <2>4. ListAt(obj.conds_) = <<>>
    BY <1>5 DEF ListAt
  <2>5. /\ n + 1 \in 1..Len(lists')
        /\ Len(lists') \in Nat /\ Len(lists) <= Len(lists')
        /\ \A l \in 1..Len(lists') : l # n + 1 => l <= Len(lists) /\ lists'[l] = lists[l]
    BY <1>1, <2>3
  <2>6. QED
    BY <1>2, <2>1, <2>3, <2>4, <2>5
<1>6. CASE obj.conds_ # NoList
  <2>1. PICK at \in 1..n : at = obj.conds_
    BY <1>4, <1>6 DEF NoList
  <2>2. PICK more : more = Append(lists[at], c)
    OBVIOUS
  <2>3. /\ lists' = [lists EXCEPT ![at] = more]
        /\ obj' = [obj EXCEPT !.conds_ = at, !.hashv_ = Append(@, entry), !.cond_[entry.mem] = None]
        /\ CondsFrozen => \A part \in PartsInUse : part.params # at
    BY <1>2, <1>6, <2>1, <2>2 DEF AppendCond
  <2>4. lists[at] \in Lists
    BY <1>1, <1>4, <2>1, ElementOfSeq
  <2>5. more \in Lists
    BY <1>3, <2>2, <2>4, AppendProperties DEF Lists
  <2>6. /\ lists' \in Seq(Lists) /\ Len(lists') = n /\ lists'[at] = more
        /\ \A l \in 1..n : l # at => lists'[l] = lists[l]
    BY <1>1, <1>4, <2>1, <2>3, <2>5, ExceptSeq
  <2>7. ListAt(obj.conds_) = lists[at]
    BY <1>6, <2>1 DEF ListAt
  <2>8. at \in 1..Len(lists') /\ Len(lists') \in Nat /\ Len(lists) <= Len(lists')
        /\ \A l \in 1..Len(lists') : l # at => l <= Len(lists) /\ lists'[l] = lists[l]
    BY <1>1, <2>6
  <2>9. QED
    BY <1>2, <2>2, <2>3, <2>6, <2>7, <2>8
<1>7. QED
  BY <1>5, <1>6

LEMMA AppendCondKeeps ==
  ASSUME TypeInv, NEW entry \in Appended, NEW value \in Values \cup {Null}, AppendCond(entry, value)
  PROVE  TypeInv'
<1>1. PICK c : c = [entry |-> entry, value |-> value]
  OBVIOUS
<1>2. PICK at \in 1..Len(lists') :
            /\ lists' \in Seq(Lists) /\ Len(lists') \in Nat /\ Len(lists) <= Len(lists')
            /\ lists'[at] = Append(ListAt(obj.conds_), [entry |-> entry, value |-> value])
            /\ \A l \in 1..Len(lists') : l # at => l <= Len(lists) /\ lists'[l] = lists[l]
            /\ obj' = [obj EXCEPT !.conds_ = at, !.hashv_ = Append(@, entry), !.cond_[entry.mem] = None]
            /\ CondsFrozen => \A part \in PartsInUse : part.params # at
  BY AppendIs
<1>3. UNCHANGED <<objects, builders, queue, requests, pc, cur>>
  BY DEF AppendCond, workerVars
<1>4. BuildersInv' /\ RequestsInv'
  BY <1>2, <1>3, ObjectFrame
<1>5. PICK list : list = ListAt(obj.conds_)
  OBVIOUS
<1>6. list \in Lists
  BY <1>5, SnapshotIs DEF TypeInv, Snapshot, PartTypes
<1>7. c \in ConditionTypes /\ c.entry = entry
  BY <1>1 DEF ConditionTypes, Appended
<1>8. lists'[at] = Append(list, c) /\ lists'[at] # <<>>
  <2>1. lists'[at] = Append(list, c)
    BY <1>1, <1>2, <1>5
  <2>2. Append(list, c) # <<>>
    BY <1>6, <1>7, AppendProperties DEF Lists
  <2>3. QED
    BY <2>1, <2>2
<1>9. ListsInv'
  <2>1. \A l \in 1..Len(lists') : l # at => l \in 1..Len(lists)
    BY <1>2, LenProperties DEF TypeInv, ListsInv
  <2>2. QED
    BY <1>2, <1>8, <2>1 DEF TypeInv, ListsInv
<1>10. ObjInv'
  <2>1. at \in Nat \ {0} /\ at <= Len(lists')
    BY <1>2
  <2>2. PICK hash : hash = Append(obj.hashv_, entry)
    OBVIOUS
  <2>3. hash \in Seq(Appended) /\ hash = Entries(lists'[at])
    <3>1. hash \in Seq(Appended)
      BY <2>2, AppendProperties DEF TypeInv, ObjInv
    <3>2. obj.hashv_ = Entries(list)
      BY <1>5 DEF TypeInv, ObjInv
    <3>3. Entries(lists'[at]) = Append(Entries(list), entry)
      BY <1>6, <1>7, <1>8, EntriesAppend
    <3>4. QED
      BY <2>2, <3>1, <3>2, <3>3
  <2>4. PICK conds : conds = [obj.cond_ EXCEPT ![entry.mem] = None]
    OBVIOUS
  <2>5. conds \in [Members -> Kinds \cup {None}]
    BY <2>4 DEF TypeInv, ObjInv
  <2>6. obj' = [obj EXCEPT !.conds_ = at, !.hashv_ = hash, !.cond_ = conds]
    BY <1>2, <2>2, <2>4 DEF TypeInv, ObjInv
  <2>7. /\ obj'.conds_ = at /\ obj'.hashv_ = hash
        /\ obj'.value_ = obj.value_ /\ obj'.seqset_ = obj.seqset_
        /\ obj' \in [cond_ : [Members -> Kinds \cup {None}], value_ : [Members -> Values \cup {Null}],
                     seqset_ : SUBSET Members, hashv_ : Seq(Appended), conds_ : Nat]
    BY <2>1, <2>3, <2>5, <2>6 DEF TypeInv, ObjInv
  <2>8. ListAt(obj.conds_)' = lists'[at]
    BY <2>1, <2>7 DEF ListAt, NoList
  <2>9. QED
    BY <1>3, <2>1, <2>3, <2>7, <2>8 DEF TypeInv, ObjInv
<1>11. QED
  BY <1>4, <1>9, <1>10 DEF TypeInv

\* The conditions of these parts
AskedOf(parts) == [i \in 1..Len(parts) |-> parts[i].asked]

LEMMA AskedIs ==
  ASSUME NEW parts \in Seq(PartTypes)
  PROVE  /\ AskedOf(parts) \in Seq(Lists)
         /\ Len(AskedOf(parts)) = Len(parts)
         /\ \A i \in 1..Len(parts) : AskedOf(parts)[i] = parts[i].asked
<1>1. PICK n \in Nat : n = Len(parts)
  BY LenProperties
<1>2. \A i \in 1..n : parts[i].asked \in Lists
  <2>1. \A i \in 1..n : parts[i] \in PartTypes
    BY <1>1, ElementOfSeq
  <2>2. QED
    BY <2>1 DEF PartTypes
<1>3. PICK f : f = [i \in 1..n |-> parts[i].asked]
  OBVIOUS
<1>4. f = AskedOf(parts)
  BY <1>1, <1>3 DEF AskedOf
<1>5. f \in [1..n -> Lists]
  BY <1>2, <1>3
<1>6. QED
  BY <1>1, <1>3, <1>4, <1>5, FunctionIsSeq

\* The request that was handed in
Handed(q, op, builder, parts, froms, seqs, values) ==
    /\ q \in RequestTypes
    /\ q.op = op /\ q.builder = builder /\ q.parts = parts /\ q.froms = froms /\ q.seqs = seqs
    /\ q.values = values /\ q.wanted = values /\ q.asked = AskedOf(parts)
    /\ queue' \in Seq(RequestTypes)
    /\ Pending' = Pending \cup {q}
    /\ requests' \in 0..MaxRequests
    /\ UNCHANGED workerVars

LEMMA HandInIs ==
  ASSUME TypeInv, NEW op \in {"read", "del", "update", "union", "join", "copy"}, NEW builder \in Nat,
         NEW parts \in Seq(PartTypes), NEW froms \in Froms, NEW seqs \in SUBSET Members, NEW values,
         HandIn(op, builder, parts, froms, seqs, values),
         values = [m \in seqs |-> obj.value_[m]], \A m \in seqs : obj.value_[m] \in Values
  PROVE  \E q : Handed(q, op, builder, parts, froms, seqs, values)
<1>1. PICK asked : asked = AskedOf(parts)
  OBVIOUS
<1>2. asked \in Seq(Lists)
  BY <1>1, AskedIs
<1>3. values \in Assignments /\ values \in [seqs -> Values]
  BY DEF Assignments
<1>4. PICK q : q = [op |-> op, builder |-> builder, parts |-> parts, seqs |-> seqs, values |-> values,
                    asked |-> asked, froms |-> froms, wanted |-> values]
  OBVIOUS
<1>5. q \in RequestTypes
  BY <1>2, <1>3, <1>4 DEF RequestTypes
<1>6. queue' = Append(queue, q)
  BY <1>1, <1>4 DEF HandIn, AskedOf, MapSeq
<1>7. /\ queue \in Seq(RequestTypes) /\ Len(queue) \in Nat
  BY LenProperties DEF TypeInv, RequestsInv
<1>8. /\ queue' \in Seq(RequestTypes) /\ Len(queue') = Len(queue) + 1
      /\ queue'[Len(queue) + 1] = q /\ \A i \in 1..Len(queue) : queue'[i] = queue[i]
  BY <1>5, <1>6, <1>7, AppendProperties
<1>9. UNCHANGED workerVars /\ requests' \in 0..MaxRequests
  BY BoundsAssumption DEF HandIn, TypeInv, RequestsInv
<1>10. Pending' = Pending \cup {q}
  <2>1. {queue'[i] : i \in 1..Len(queue')} = {queue[i] : i \in 1..Len(queue)} \cup {q}
    <3>1. ASSUME NEW i \in 1..Len(queue')
          PROVE  queue'[i] \in {queue[j] : j \in 1..Len(queue)} \cup {q}
      <4>1. i = Len(queue) + 1 \/ i \in 1..Len(queue)
        BY <1>7, <1>8
      <4>2. QED
        BY <1>8, <4>1
    <3>2. ASSUME NEW i \in 1..Len(queue)
          PROVE  queue[i] \in {queue'[j] : j \in 1..Len(queue')}
      <4>1. i \in 1..Len(queue') /\ queue'[i] = queue[i]
        BY <1>7, <1>8
      <4>2. QED
        BY <4>1
    <3>3. q \in {queue'[j] : j \in 1..Len(queue')}
      <4>1. Len(queue) + 1 \in 1..Len(queue')
        BY <1>7, <1>8
      <4>2. QED
        BY <1>8, <4>1
    <3>4. QED
      BY <3>1, <3>2, <3>3
  <2>2. cur' = cur
    BY <1>9 DEF workerVars
  <2>3. QED
    BY <2>1, <2>2 DEF Pending
<1>11. QED
  BY <1>1, <1>4, <1>5, <1>8, <1>9, <1>10 DEF Handed

LEMMA HandInKeeps ==
  ASSUME TypeInv, UNCHANGED lists, Len(builders') \in Nat, Len(builders) <= Len(builders'),
         NEW q \in RequestTypes, RequestInv(q)', queue' \in Seq(RequestTypes), Pending' = Pending \cup {q},
         requests' \in 0..MaxRequests, UNCHANGED workerVars
  PROVE  RequestsInv'
<1>1. Len(lists') \in Nat /\ Len(lists) <= Len(lists')
  BY LenProperties DEF TypeInv, ListsInv
<1>2. \A r \in Pending : RequestInv(r)'
  BY <1>1, RequestsStay, PendingTyped DEF TypeInv, RequestsInv
<1>3. UNCHANGED <<pc, cur>>
  BY DEF workerVars
<1>4. QED
  BY <1>2, <1>3 DEF TypeInv, RequestsInv

LEMMA ClientFrame == ObjInv /\ ListsInv /\ UNCHANGED <<obj, objects, lists>> => ObjInv' /\ ListsInv'
BY DEF ObjInv, ListsInv, ListAt

LEMMA TablesAre ==
  /\ <<>> \in Froms
  /\ <<Table(1)>> \in Froms /\ <<Table(1)>> # <<>>
  /\ \A froms \in Froms : /\ Len(froms) \in Nat
                          /\ Append(froms, Table(Len(froms) + 1)) \in Froms
                          /\ Append(froms, Table(Len(froms) + 1)) # <<>>
<1>1. \A n \in Nat : Len(Tables(n)) = n /\ Tables(n) = [i \in 1..n |-> Table(i)]
  BY DEF Tables
<1>2. <<>> = Tables(0) /\ <<Table(1)>> = Tables(1)
  BY DEF Tables
<1>3. ASSUME NEW n \in Nat
      PROVE  Append(Tables(n), Table(n + 1)) = Tables(n + 1) /\ Tables(n + 1) # <<>>
  <2>1. PICK T : T = {Table(i) : i \in Nat}
    OBVIOUS
  <2>2. \A k \in Nat : Tables(k) \in Seq(T) /\ Len(Tables(k)) = k /\ \A i \in 1..k : Tables(k)[i] = Table(i)
    <3> SUFFICES ASSUME NEW k \in Nat
                 PROVE  Tables(k) \in Seq(T) /\ Len(Tables(k)) = k /\ \A i \in 1..k : Tables(k)[i] = Table(i)
      OBVIOUS
    <3>1. PICK f : f = [i \in 1..k |-> Table(i)]
      OBVIOUS
    <3>2. f \in [1..k -> T]
      BY <2>1, <3>1
    <3>3. QED
      BY <3>1, <3>2, FunctionIsSeq DEF Tables
  <2>3. PICK s, t : s = Tables(n) /\ t = Tables(n + 1)
    OBVIOUS
  <2>4. PICK u : u = Append(s, Table(n + 1))
    OBVIOUS
  <2>5. Table(n + 1) \in T
    BY <2>1
  <2>6. u \in Seq(T) /\ Len(u) = n + 1 /\ u[n + 1] = Table(n + 1) /\ u # <<>> /\ \A i \in 1..n : u[i] = s[i]
    BY <2>2, <2>3, <2>4, <2>5, AppendProperties
  <2>7. t \in Seq(T) /\ Len(t) = n + 1 /\ \A i \in 1..n + 1 : t[i] = u[i]
    <3>1. \A i \in 1..n + 1 : i = n + 1 \/ i \in 1..n
      OBVIOUS
    <3>2. QED
      BY <2>2, <2>3, <2>6, <3>1
  <2>8. u = t
    BY <2>6, <2>7, SeqEqual
  <2>9. QED
    BY <2>3, <2>4, <2>6, <2>8
<1>4. ASSUME NEW froms \in Froms
      PROVE  /\ Len(froms) \in Nat
             /\ Append(froms, Table(Len(froms) + 1)) \in Froms
             /\ Append(froms, Table(Len(froms) + 1)) # <<>>
  <2>1. PICK n \in Nat : froms = Tables(n)
    BY DEF Froms
  <2>2. Len(froms) = n /\ n + 1 \in Nat
    BY <1>1, <2>1
  <2>3. Append(froms, Table(Len(froms) + 1)) = Tables(n + 1)
    BY <1>3, <2>1, <2>2
  <2>4. QED
    BY <1>3, <2>2, <2>3 DEF Froms
<1>5. Tables(0) \in Froms /\ Tables(1) \in Froms
  BY DEF Froms
<1>6. <<Table(1)>> # <<>>
  OBVIOUS
<1>7. QED
  BY <1>2, <1>4, <1>5, <1>6

LEMMA NothingAssigned == <<>> = [m \in {} |-> obj.value_[m]]
<1>1. <<>> = [m \in 1..0 |-> obj.value_[m]] /\ 1..0 = {}
  OBVIOUS
<1>2. QED
  BY <1>1

\* Requests made at once take the object as it is.
LEMMA ReadIs ==
  ASSUME TypeInv, NEW op \in {"read", "del"}, Read(op)
  PROVE  /\ UNCHANGED <<obj, objects, lists, builders>> /\ obj.conds_ # NoList
         /\ \E q, part : part = Snapshot /\ Handed(q, op, NoBuilder, <<part>>, <<>>, {}, <<>>)
<1>1. UNCHANGED <<obj, objects, lists, builders>> /\ obj.conds_ # NoList
      /\ HandIn(op, NoBuilder, <<Snapshot>>, <<>>, {}, <<>>)
  BY DEF Read, clientVars
<1>2. PICK part \in PartTypes : part = Snapshot
  BY SnapshotIs DEF TypeInv
<1>3. PICK parts, froms, values, seqs : parts = <<part>> /\ froms = <<>> /\ values = <<>> /\ seqs = {}
  OBVIOUS
<1>4. HandIn(op, 0, parts, froms, seqs, values)
  BY <1>1, <1>2, <1>3 DEF NoBuilder
<1>5. /\ op \in {"read", "del", "update", "union", "join", "copy"} /\ 0 \in Nat
      /\ parts \in Seq(PartTypes) /\ froms \in Froms /\ seqs \in SUBSET Members
  BY <1>3, TablesAre
<1>6. values = [m \in seqs |-> obj.value_[m]] /\ \A m \in seqs : obj.value_[m] \in Values
  BY <1>3, NothingAssigned
<1>7. \E q : Handed(q, op, 0, parts, froms, seqs, values)
  BY <1>4, <1>5, <1>6, HandInIs
<1>8. QED
  BY <1>1, <1>2, <1>3, <1>7 DEF NoBuilder

LEMMA UpdateIs ==
  ASSUME TypeInv, Update
  PROVE  /\ UNCHANGED <<obj, objects, lists, builders>>
         /\ \E q, part, seqs, values : /\ part = Snapshot /\ values \in [seqs -> Values]
                                       /\ Handed(q, "update", NoBuilder, <<part>>, <<>>, seqs, values)
<1>1. PICK seqs, values : /\ seqs = obj.seqset_ /\ values = [m \in seqs |-> obj.value_[m]]
                          /\ HandIn("update", NoBuilder, <<Snapshot>>, <<>>, seqs, values)
  BY DEF Update
<1>2. UNCHANGED <<obj, objects, lists, builders>>
  BY DEF Update, clientVars
<1>3. seqs \in SUBSET Members /\ \A m \in seqs : obj.value_[m] \in Values
  BY <1>1 DEF TypeInv, ObjInv
<1>4. PICK part \in PartTypes : part = Snapshot
  BY SnapshotIs DEF TypeInv
<1>5. PICK op, parts, froms : op = "update" /\ parts = <<part>> /\ froms = <<>>
  OBVIOUS
<1>6. HandIn(op, 0, parts, froms, seqs, values)
  BY <1>1, <1>4, <1>5 DEF NoBuilder
<1>7. /\ op \in {"read", "del", "update", "union", "join", "copy"} /\ 0 \in Nat
      /\ parts \in Seq(PartTypes) /\ froms \in Froms
  BY <1>5, TablesAre
<1>8. \E q : Handed(q, op, 0, parts, froms, seqs, values)
  BY <1>1, <1>3, <1>6, <1>7, HandInIs
<1>9. values \in [seqs -> Values]
  BY <1>1, <1>3
<1>10. QED
  BY <1>2, <1>4, <1>5, <1>8, <1>9 DEF NoBuilder

\* A request of one part and no builder is one a client can ask.
LEMMA SingleKeeps ==
  ASSUME TypeInv, UNCHANGED <<obj, objects, lists, builders>>, NEW op \in {"read", "del", "update"},
         NEW q, NEW part, NEW seqs, NEW values, part = Snapshot, op # "update" => obj.conds_ # NoList /\ seqs = {},
         values \in [seqs -> Values], Handed(q, op, NoBuilder, <<part>>, <<>>, seqs, values)
  PROVE  TypeInv'
<1>1. /\ part \in PartTypes /\ part.params <= Len(lists)
      /\ obj.conds_ # NoList => part.asked # <<>>
  BY SnapshotIs DEF TypeInv
<1>2. PICK parts : parts = <<part>>
  OBVIOUS
<1>3. parts \in Seq(PartTypes) /\ Len(parts) = 1 /\ parts[1] = part
  BY <1>1, <1>2
<1>4. /\ q \in RequestTypes /\ q.op = op /\ q.builder = 0 /\ q.parts = parts /\ q.froms = <<>> /\ q.seqs = seqs
      /\ q.values = values /\ q.wanted = values /\ q.asked = AskedOf(parts)
      /\ queue' \in Seq(RequestTypes) /\ Pending' = Pending \cup {q}
      /\ requests' \in 0..MaxRequests /\ UNCHANGED workerVars
  BY <1>2 DEF Handed, NoBuilder
<1>5. Len(builders) \in Nat
  BY LenProperties DEF TypeInv, BuildersInv
<1>6. RequestInv(q)'
  <2>1. Listed(parts)'
    BY <1>1, <1>3 DEF Listed
  <2>2. AskedOf(parts) = [i \in 1..Len(parts) |-> parts[i].asked]
        /\ Len(AskedOf(parts)) = 1 /\ AskedOf(parts)[1] = part.asked
    BY <1>3, AskedIs DEF AskedOf
  <2>3. CanAsk(q)
    BY <1>1, <1>4, <2>2 DEF CanAsk
  <2>4. QED
    BY <1>4, <1>5, <2>1, <2>2, <2>3 DEF RequestInv
<1>7. RequestsInv'
  BY <1>4, <1>5, <1>6, HandInKeeps
<1>8. ObjInv' /\ ListsInv'
  BY ClientFrame DEF TypeInv
<1>9. BuildersInv'
  BY DEF TypeInv, BuildersInv, BuilderInv, Listed
<1>10. QED
  BY <1>7, <1>8, <1>9 DEF TypeInv

LEMMA ReadKeeps ==
  ASSUME TypeInv, NEW op \in {"read", "del"}, Read(op)
  PROVE  TypeInv'
<1>1. UNCHANGED <<obj, objects, lists, builders>> /\ obj.conds_ # NoList
  BY ReadIs
<1>2. PICK q, part : part = Snapshot /\ Handed(q, op, NoBuilder, <<part>>, <<>>, {}, <<>>)
  BY ReadIs
<1>3. PICK seqs, values : seqs = {} /\ values = <<>>
  OBVIOUS
<1>4. values \in [seqs -> Values] /\ Handed(q, op, NoBuilder, <<part>>, <<>>, seqs, values)
  BY <1>2, <1>3, NothingAssigned
<1>5. op \in {"read", "del", "update"} /\ (op # "update" => obj.conds_ # NoList /\ seqs = {})
  BY <1>1, <1>3
<1>6. QED
  BY <1>1, <1>2, <1>4, <1>5, SingleKeeps

LEMMA UpdateKeeps == TypeInv /\ Update => TypeInv'
<1> SUFFICES ASSUME TypeInv, Update PROVE TypeInv'
  OBVIOUS
<1>1. UNCHANGED <<obj, objects, lists, builders>>
  BY UpdateIs
<1>2. PICK q, part, seqs, values : /\ part = Snapshot /\ values \in [seqs -> Values]
                                   /\ Handed(q, "update", NoBuilder, <<part>>, <<>>, seqs, values)
  BY UpdateIs
<1>3. PICK op \in {"read", "del", "update"} : op = "update"
  OBVIOUS
<1>4. QED
  BY <1>1, <1>2, <1>3, SingleKeeps

\* A builder that collects stays sound.
LEMMA BuilderChanges ==
  ASSUME BuildersInv, UNCHANGED lists, NEW b \in 1..Len(builders), NEW x \in BuilderTypes, BuilderInv(x),
         builders' = [builders EXCEPT ![b] = x]
  PROVE  /\ BuildersInv' /\ Len(builders') = Len(builders)
         /\ builders'[b] = x
         /\ \A d \in 1..Len(builders) : d # b => builders'[d] = builders[d]
<1>1. /\ builders' \in Seq(BuilderTypes) /\ Len(builders') = Len(builders)
      /\ builders'[b] = x /\ \A d \in 1..Len(builders) : d # b => builders'[d] = builders[d]
  BY ExceptSeq DEF BuildersInv
<1>2. \A y : BuilderInv(y) => BuilderInv(y)'
  BY DEF BuilderInv, Listed
<1>3. \A d \in 1..Len(builders) : BuilderInv(builders'[d])
  BY <1>1 DEF BuildersInv
<1>4. BuildersInv'
  BY <1>1, <1>2, <1>3 DEF BuildersInv
<1>5. QED
  BY <1>1, <1>4

LEMMA CollectIs ==
  ASSUME BuildersInv, UNCHANGED lists, NEW b \in 1..Len(builders), NEW part \in PartTypes,
         part.params <= Len(lists), builders[b].op # "union" => part.asked # <<>>,
         builders' = [builders EXCEPT ![b].parts = Append(@, part)]
  PROVE  /\ BuildersInv' /\ Len(builders') = Len(builders)
         /\ builders'[b].op = builders[b].op /\ builders'[b].froms = builders[b].froms
         /\ builders'[b].parts = Append(builders[b].parts, part)
         /\ \A d \in 1..Len(builders) : d # b => builders'[d] = builders[d]
<1>1. PICK y \in BuilderTypes : y = builders[b]
  BY ElementOfSeq DEF BuildersInv
<1>2. PICK parts, more : parts = y.parts /\ more = Append(parts, part)
  OBVIOUS
<1>3. parts \in Seq(PartTypes) /\ Len(parts) \in Nat
  BY <1>1, <1>2, LenProperties DEF BuilderTypes
<1>4. /\ more \in Seq(PartTypes) /\ Len(more) = Len(parts) + 1 /\ more # <<>>
      /\ more[Len(parts) + 1] = part /\ \A i \in 1..Len(parts) : more[i] = parts[i]
  BY <1>2, <1>3, AppendProperties
<1>5. \A i \in 1..Len(more) : i = Len(parts) + 1 \/ i \in 1..Len(parts)
  BY <1>3, <1>4
<1>6. PICK x : x = [y EXCEPT !.parts = more]
  OBVIOUS
<1>7. x \in BuilderTypes /\ x.op = y.op /\ x.froms = y.froms /\ x.parts = more
  BY <1>1, <1>4, <1>6 DEF BuilderTypes
<1>8. BuilderInv(y)
  BY <1>1 DEF BuildersInv
<1>9. Listed(more)
  BY <1>2, <1>4, <1>5, <1>8 DEF BuilderInv, Listed
<1>10. y.op # "union" => \A i \in 1..Len(more) : more[i].asked # <<>>
  BY <1>1, <1>2, <1>4, <1>5, <1>8 DEF BuilderInv
<1>11. BuilderInv(x)
  BY <1>4, <1>7, <1>8, <1>9, <1>10 DEF BuilderInv
<1>12. builders' = [builders EXCEPT ![b] = x]
  BY <1>1, <1>2, <1>6 DEF BuildersInv
<1>13. /\ BuildersInv' /\ Len(builders') = Len(builders) /\ builders'[b] = x
       /\ \A d \in 1..Len(builders) : d # b => builders'[d] = builders[d]
  BY <1>7, <1>11, <1>12, BuilderChanges
<1>14. QED
  BY <1>1, <1>2, <1>7, <1>13

\* Builders
LEMMA BeginKeeps ==
  ASSUME TypeInv,
         \/ \E part \in Passed : Begin("union", <<>>, <<part>>)
         \/ \E op \in {"join", "copy"} : Begin(op, <<Table(1)>>, <<>>)
  PROVE  TypeInv'
<1>1. Len(builders) \in Nat /\ builders \in Seq(BuilderTypes) /\ Len(builders) <= MaxBuilders
  BY LenProperties DEF TypeInv, BuildersInv
<1>2. PICK b \in BuilderTypes : /\ BuilderInv(b) /\ Len(builders) < MaxBuilders
                                /\ builders' = Append(builders, b) /\ Idle
  <2>1. CASE \E part \in Passed : Begin("union", <<>>, <<part>>)
    <3>1. PICK part \in Passed : Begin("union", <<>>, <<part>>)
      BY <2>1
    <3>2. part \in PartTypes /\ part.params <= Len(lists)
      BY PassedAre DEF TypeInv
    <3>3. PICK b : b = [op |-> "union", froms |-> <<>>, parts |-> <<part>>]
      OBVIOUS
    <3>4. <<part>> \in Seq(PartTypes) /\ Len(<<part>>) = 1 /\ <<part>>[1] = part /\ <<part>> # <<>>
      BY <3>2
    <3>5. b \in BuilderTypes
      BY <3>3, <3>4, TablesAre DEF BuilderTypes
    <3>6. BuilderInv(b)
      BY <3>2, <3>3, <3>4 DEF BuilderInv, Listed
    <3>7. Len(builders) < MaxBuilders /\ builders' = Append(builders, b) /\ Idle
      BY <3>1, <3>3 DEF Begin
    <3>8. QED
      BY <3>5, <3>6, <3>7
  <2>2. CASE \E op \in {"join", "copy"} : Begin(op, <<Table(1)>>, <<>>)
    <3>1. PICK op \in {"join", "copy"} : Begin(op, <<Table(1)>>, <<>>)
      BY <2>2
    <3>2. PICK b : b = [op |-> op, froms |-> <<Table(1)>>, parts |-> <<>>]
      OBVIOUS
    <3>3. <<>> \in Seq(PartTypes) /\ Len(<<>>) = 0
      BY EmptySeq
    <3>4. b \in BuilderTypes
      BY <3>2, <3>3, TablesAre DEF BuilderTypes
    <3>5. BuilderInv(b)
      BY <3>2, <3>3, TablesAre DEF BuilderInv, Listed
    <3>6. Len(builders) < MaxBuilders /\ builders' = Append(builders, b) /\ Idle
      BY <3>1, <3>2 DEF Begin
    <3>7. QED
      BY <3>4, <3>5, <3>6
  <2>3. QED
    BY <2>1, <2>2
<1>3. UNCHANGED <<obj, objects, lists, queue, requests, pc, cur>>
  BY <1>2 DEF Idle, workerVars
<1>4. /\ builders' \in Seq(BuilderTypes) /\ Len(builders') = Len(builders) + 1
      /\ builders'[Len(builders) + 1] = b /\ \A d \in 1..Len(builders) : builders'[d] = builders[d]
  BY <1>1, <1>2, AppendProperties
<1>5. BuildersInv'
  <2>1. \A y : BuilderInv(y) => BuilderInv(y)'
    BY <1>3 DEF BuilderInv, Listed
  <2>2. \A d \in 1..Len(builders') : BuilderInv(builders'[d])
    <3>1. \A d \in 1..Len(builders') : d = Len(builders) + 1 \/ d \in 1..Len(builders)
      BY <1>1, <1>4
    <3>2. QED
      BY <1>2, <1>4, <3>1 DEF TypeInv, BuildersInv
  <2>3. Len(builders') <= MaxBuilders
    BY <1>1, <1>2, <1>4, BoundsAssumption
  <2>4. QED
    BY <1>4, <2>1, <2>2, <2>3 DEF BuildersInv
<1>6. RequestsInv'
  <2>1. Len(lists) \in Nat
    BY LenProperties DEF TypeInv, ListsInv
  <2>2. Len(lists') \in Nat /\ Len(lists) <= Len(lists')
    BY <1>3, <2>1
  <2>3. Len(builders') \in Nat /\ Len(builders) <= Len(builders')
    BY <1>1, <1>4
  <2>4. QED
    BY <1>3, <2>2, <2>3, RequestsFrame
<1>7. QED
  BY <1>3, <1>5, <1>6, ClientFrame DEF TypeInv

\* What is left when the builders are sound.
LEMMA BuilderFrame ==
  ASSUME TypeInv, UNCHANGED <<obj, objects, lists, queue, requests, pc, cur>>,
         BuildersInv', Len(builders') = Len(builders)
  PROVE  TypeInv'
<1>1. Len(lists) \in Nat /\ Len(builders) \in Nat
  BY LenProperties DEF TypeInv, ListsInv, BuildersInv
<1>2. RequestsInv'
  BY <1>1, RequestsFrame
<1>3. QED
  BY <1>2, ClientFrame DEF TypeInv

LEMMA UnionReadKeeps ==
  ASSUME TypeInv, NEW b \in 1..Len(builders), UnionRead(b)
  PROVE  TypeInv'
<1>1. PICK part \in Passed : builders' = [builders EXCEPT ![b].parts = Append(@, part)]
  BY DEF UnionRead
<1>2. UNCHANGED <<obj, objects, lists, queue, requests, pc, cur>> /\ builders[b].op = "union"
  BY DEF UnionRead, Idle, workerVars
<1>3. part \in PartTypes /\ part.params <= Len(lists)
  BY PassedAre DEF TypeInv
<1>4. BuildersInv' /\ Len(builders') = Len(builders)
  BY <1>1, <1>2, <1>3, CollectIs DEF TypeInv
<1>5. QED
  BY <1>2, <1>4, BuilderFrame

LEMMA JoinIs ==
  ASSUME TypeInv, NEW b \in 1..Len(builders), Join(b)
  PROVE  /\ BuildersInv' /\ Len(builders') = Len(builders)
         /\ builders'[b].parts = builders[b].parts
         /\ \A d \in 1..Len(builders) : d # b => builders'[d] = builders[d]
         /\ UNCHANGED <<obj, objects, lists, queue, requests, pc, cur>>
<1>1. PICK y \in BuilderTypes : y = builders[b]
  BY ElementOfSeq DEF TypeInv, BuildersInv
<1>2. PICK froms \in Froms : froms = Append(y.froms, Table(Len(y.froms) + 1)) /\ froms # <<>>
  BY TablesAre DEF BuilderTypes
<1>3. PICK x : x = [y EXCEPT !.froms = froms]
  OBVIOUS
<1>4. x \in BuilderTypes /\ x.op = y.op /\ x.parts = y.parts /\ x.froms = froms
  BY <1>3 DEF BuilderTypes
<1>5. builders' = [builders EXCEPT ![b] = x]
  BY <1>1, <1>2, <1>3 DEF Join, TypeInv, BuildersInv
<1>6. BuilderInv(x)
  <2>1. BuilderInv(y) /\ y.op # "union"
    BY <1>1 DEF TypeInv, BuildersInv, Join
  <2>2. QED
    BY <1>2, <1>4, <2>1 DEF BuilderInv
<1>7. UNCHANGED <<obj, objects, lists, queue, requests, pc, cur>>
  BY DEF Join, Idle, workerVars
<1>8. QED
  BY <1>1, <1>4, <1>5, <1>6, <1>7, BuilderChanges DEF TypeInv

LEMMA SetCondIs ==
  ASSUME ObjInv, ListsInv, BuildersInv, NEW b \in 1..Len(builders), obj.conds_ # NoList, SetCond(b)
  PROVE  /\ UNCHANGED <<obj, objects, lists>>
         /\ BuildersInv' /\ Len(builders') = Len(builders)
         /\ builders'[b].op = builders[b].op /\ builders'[b].froms = builders[b].froms
         /\ builders'[b].parts = Append(builders[b].parts, Snapshot)
         /\ \A d \in 1..Len(builders) : d # b => builders'[d] = builders[d]
<1>1. PICK part : part = Snapshot
  OBVIOUS
<1>2. part \in PartTypes /\ part.params <= Len(lists) /\ part.asked # <<>>
  BY <1>1, SnapshotIs
<1>3. builders' = [builders EXCEPT ![b].parts = Append(@, part)] /\ UNCHANGED <<obj, objects, lists>>
  BY <1>1 DEF SetCond
<1>4. QED
  BY <1>1, <1>2, <1>3, CollectIs

LEMMA CommitRefusedKeeps ==
  ASSUME TypeInv, NEW b \in 1..Len(builders), CommitRefused(b)
  PROVE  TypeInv'
<1>1. BuildersInv' /\ Len(builders') = Len(builders) /\ UNCHANGED <<obj, objects, lists, queue, requests, pc, cur>>
  BY SetCondIs DEF CommitRefused, TypeInv, workerVars
<1>2. QED
  BY <1>1, BuilderFrame

\* What commit hands in are the builder's parts and tables.
LEMMA CommitIs ==
  ASSUME TypeInv, NEW b \in 1..Len(builders), Commit(b)
  PROVE  /\ UNCHANGED <<obj, objects, lists>>
         /\ BuildersInv' /\ Len(builders') = Len(builders)
         /\ \A d \in 1..Len(builders) : d # b => builders'[d] = builders[d]
         /\ \E q : Handed(q, builders'[b].op, b, builders'[b].parts, builders'[b].froms, {}, <<>>)
<1>1. /\ UNCHANGED <<obj, objects, lists>>
      /\ BuildersInv' /\ Len(builders') = Len(builders)
      /\ builders'[b].op = builders[b].op /\ builders'[b].froms = builders[b].froms
      /\ \A d \in 1..Len(builders) : d # b => builders'[d] = builders[d]
  <2>1. CASE UNCHANGED clientVars
    <3>1. UNCHANGED <<obj, objects, lists, builders>>
      BY <2>1 DEF clientVars
    <3>2. BuildersInv'
      BY <3>1 DEF TypeInv, BuildersInv, BuilderInv, Listed
    <3>3. QED
      BY <3>1, <3>2
  <2>2. CASE obj.conds_ # NoList /\ SetCond(b)
    BY <2>2, SetCondIs DEF TypeInv
  <2>3. QED
    BY <2>1, <2>2 DEF Commit
<1>2. PICK y : y = builders'[b]
  OBVIOUS
<1>3. y \in BuilderTypes
  BY <1>1, <1>2, ElementOfSeq DEF BuildersInv
<1>4. PICK op, parts, froms : op = y.op /\ parts = y.parts /\ froms = y.froms
  OBVIOUS
<1>5. op \in {"read", "del", "update", "union", "join", "copy"} /\ parts \in Seq(PartTypes) /\ froms \in Froms
  BY <1>3, <1>4 DEF BuilderTypes
<1>6. PICK seqs, values : seqs = {} /\ values = <<>>
  OBVIOUS
<1>7. HandIn(op, b, parts, froms, seqs, values)
  BY <1>1, <1>2, <1>4, <1>6 DEF Commit
<1>8. seqs \in SUBSET Members /\ values = [m \in seqs |-> obj.value_[m]] /\ \A m \in seqs : obj.value_[m] \in Values
  BY <1>6, NothingAssigned
<1>9. b \in Nat
  OBVIOUS
<1>10. \E q : Handed(q, op, b, parts, froms, seqs, values)
  BY <1>5, <1>7, <1>8, <1>9, HandInIs
<1>11. QED
  BY <1>1, <1>2, <1>4, <1>6, <1>10

LEMMA CommitKeeps ==
  ASSUME TypeInv, NEW b \in 1..Len(builders), Commit(b)
  PROVE  TypeInv'
<1>1. UNCHANGED <<obj, objects, lists>> /\ BuildersInv' /\ Len(builders') = Len(builders)
  BY CommitIs
<1>2. PICK y : y = builders'[b]
  OBVIOUS
<1>3. PICK q : Handed(q, y.op, b, y.parts, y.froms, {}, <<>>)
  BY <1>2, CommitIs
<1>4. q \in RequestTypes /\ queue' \in Seq(RequestTypes) /\ Pending' = Pending \cup {q}
      /\ requests' \in 0..MaxRequests /\ UNCHANGED workerVars
  BY <1>3 DEF Handed
<1>5. Len(builders') \in Nat /\ Len(builders) <= Len(builders') /\ b \in 1..Len(builders')
  BY <1>1, LenProperties DEF BuildersInv
<1>6. y \in BuilderTypes /\ BuilderInv(y)'
  BY <1>1, <1>2, <1>5, ElementOfSeq DEF BuildersInv
<1>7. PICK parts \in Seq(PartTypes) : parts = y.parts
  BY <1>6 DEF BuilderTypes
<1>8. PICK asked : asked = AskedOf(parts)
  OBVIOUS
<1>9. /\ asked = [i \in 1..Len(parts) |-> parts[i].asked]
      /\ Len(asked) = Len(parts) /\ \A i \in 1..Len(parts) : asked[i] = parts[i].asked
      /\ parts # <<>> => asked # <<>>
  <2>1. asked = [i \in 1..Len(parts) |-> parts[i].asked]
    BY <1>8 DEF AskedOf
  <2>2. asked \in Seq(Lists) /\ Len(asked) = Len(parts) /\ \A i \in 1..Len(parts) : asked[i] = parts[i].asked
    BY <1>8, AskedIs
  <2>3. parts # <<>> => asked # <<>>
    BY <2>2, EmptySeq
  <2>4. QED
    BY <2>1, <2>2, <2>3
<1>10. CanAsk(q)
  <2>1. q.op = y.op /\ q.froms = y.froms /\ q.seqs = {} /\ q.asked = asked
    BY <1>3, <1>7, <1>8 DEF Handed
  <2>2. y.op \in {"union", "join", "copy"}
    BY <1>6 DEF BuilderTypes
  <2>3. y.op = "join" => Len(y.froms) >= 2
    <3>1. y.op = builders[b].op /\ y.froms = builders[b].froms
      BY <1>2, SetCondIs DEF TypeInv, Commit, clientVars
    <3>2. Len(y.froms) \in Nat
      BY <1>6, TablesAre DEF BuilderTypes
    <3>3. QED
      BY <3>1, <3>2 DEF Commit, TooFewTables
  <2>4. QED
    BY <1>6, <1>7, <1>9, <2>1, <2>2, <2>3 DEF CanAsk, BuilderInv
<1>11. RequestInv(q)'
  <2>1. q.builder = b /\ q.parts = parts /\ q.asked = asked /\ q.seqs = {} /\ q.wanted = <<>> /\ q.values = <<>>
    BY <1>3, <1>7, <1>8 DEF Handed
  <2>2. <<>> \in [{} -> Values]
    BY NothingAssigned
  <2>3. Listed(parts)'
    BY <1>6, <1>7 DEF BuilderInv
  <2>4. QED
    BY <1>5, <1>9, <1>10, <2>1, <2>2, <2>3 DEF RequestInv
<1>12. RequestsInv'
  BY <1>1, <1>4, <1>5, <1>11, HandInKeeps
<1>13. QED
  BY <1>1, <1>12, ClientFrame DEF TypeInv

\* Steps of the worker
LEMMA WorkerKeeps ==
  ASSUME TypeInv, UNCHANGED <<clientVars, requests>>, queue' \in Seq(RequestTypes),
         cur' \in RequestTypes \cup {NoRequest}, Pending' \subseteq Pending,
         pc' \in {"idle", "find", "bind", "step"}, pc' = "idle" <=> cur' = NoRequest
  PROVE  TypeInv'
<1>1. UNCHANGED <<obj, objects, lists, builders>>
  BY DEF clientVars
<1>2. Len(lists) \in Nat /\ Len(builders) \in Nat
  BY LenProperties DEF TypeInv, ListsInv, BuildersInv
<1>3. \A q \in Pending : RequestInv(q)'
  BY <1>1, <1>2, RequestsStay, PendingTyped DEF TypeInv, RequestsInv
<1>4. RequestsInv'
  BY <1>3 DEF TypeInv, RequestsInv
<1>5. BuildersInv'
  BY <1>1 DEF TypeInv, BuildersInv, BuilderInv, Listed
<1>6. QED
  BY <1>1, <1>4, <1>5, ClientFrame DEF TypeInv

\* The request taken is pending before and after.
LEMMA TakeIs ==
  ASSUME RequestsInv, Take
  PROVE  /\ cur' \in RequestTypes /\ cur' \in Pending /\ cur' = Head(queue)
         /\ queue' \in Seq(RequestTypes) /\ Pending' = Pending
         /\ UNCHANGED <<obj, objects, lists, builders, requests, read_stmts_>>
<1>1. PICK r, rest : r = Head(queue) /\ rest = Tail(queue) /\ cur' = r /\ queue' = rest
  BY DEF Take
<1>2. queue \in Seq(RequestTypes) /\ queue # <<>> /\ cur = NoRequest
  BY DEF RequestsInv, Take
<1>3. PICK n \in Nat : n = Len(queue)
  BY <1>2, LenProperties
<1>4. /\ r \in RequestTypes /\ rest \in Seq(RequestTypes) /\ Len(rest) = n - 1
      /\ r = queue[1] /\ \A i \in 1..n - 1 : rest[i] = queue[i + 1]
  BY <1>1, <1>2, <1>3, HeadTailProperties
<1>5. n # 0
  BY <1>2, <1>3, EmptySeq
<1>6. r # NoRequest
  <2>1. r.op # "none" /\ NoRequest.op = "none"
    BY <1>4 DEF RequestTypes, NoRequest
  <2>2. QED
    BY <2>1
<1>7. {queue[i] : i \in 1..n} = {rest[i] : i \in 1..n - 1} \cup {r}
  <2>1. ASSUME NEW i \in 1..n PROVE queue[i] \in {rest[j] : j \in 1..n - 1} \cup {r}
    <3>1. CASE i = 1
      BY <1>4, <3>1
    <3>2. CASE i # 1
      <4>1. i - 1 \in 1..n - 1 /\ i - 1 + 1 = i
        BY <3>2
      <4>2. rest[i - 1] = queue[i]
        BY <1>4, <4>1
      <4>3. QED
        BY <4>1, <4>2
    <3>3. QED
      BY <3>1, <3>2
  <2>2. ASSUME NEW j \in 1..n - 1 PROVE rest[j] \in {queue[i] : i \in 1..n}
    <3>1. j + 1 \in 1..n
      OBVIOUS
    <3>2. QED
      BY <1>4, <3>1
  <2>3. 1 \in 1..n
    BY <1>5
  <2>4. QED
    BY <1>4, <2>1, <2>2, <2>3
<1>8. Pending = {queue[i] : i \in 1..n}
  BY <1>2, <1>3 DEF Pending
<1>9. Pending' = {rest[i] : i \in 1..n - 1} \cup {r}
  BY <1>1, <1>4, <1>6 DEF Pending
<1>10. r \in Pending
  BY <1>7, <1>8
<1>11. QED
  BY <1>1, <1>4, <1>7, <1>8, <1>9, <1>10 DEF Take, clientVars

\* The other steps of the worker keep its request or answer it.
LEMMA WorkIs ==
  ASSUME RequestsInv, Find \/ Create \/ Bind \/ Step
  PROVE  /\ UNCHANGED <<clientVars, queue, requests>>
         /\ \/ UNCHANGED <<cur, key>> /\ pc' \in {"bind", "step"}
            \/ Answer
         /\ pc # "idle"
BY DEF Find, Create, Bind, Step, Quiet, Answer

LEMMA TakeKeeps == TypeInv /\ Take => TypeInv'
<1> SUFFICES ASSUME TypeInv, Take PROVE TypeInv'
  OBVIOUS
<1>1. /\ cur' \in RequestTypes /\ cur' \in Pending /\ queue' \in Seq(RequestTypes) /\ Pending' = Pending
      /\ UNCHANGED <<obj, objects, lists, builders, requests>>
  BY TakeIs DEF TypeInv
<1>2. cur' # NoRequest
  BY <1>1, PendingTyped DEF TypeInv
<1>3. pc' = "find"
  BY DEF Take
<1>4. QED
  BY <1>1, <1>2, <1>3, WorkerKeeps DEF clientVars

LEMMA WorkKeeps == TypeInv /\ (Find \/ Create \/ Bind \/ Step) => TypeInv'
<1> SUFFICES ASSUME TypeInv, Find \/ Create \/ Bind \/ Step PROVE TypeInv'
  OBVIOUS
<1>1. UNCHANGED <<clientVars, requests>> /\ queue' = queue /\ pc # "idle"
      /\ (\/ cur' = cur /\ pc' \in {"bind", "step"}
          \/ cur' = NoRequest /\ pc' = "idle")
  BY WorkIs DEF TypeInv, Answer
<1>2. cur # NoRequest
  BY <1>1 DEF TypeInv, RequestsInv
<1>3. Pending' \subseteq Pending
  BY <1>1 DEF Pending
<1>4. pc' \in {"idle", "find", "bind", "step"} /\ (pc' = "idle" <=> cur' = NoRequest)
  BY <1>1, <1>2
<1>5. queue' \in Seq(RequestTypes) /\ cur' \in RequestTypes \cup {NoRequest}
  BY <1>1 DEF TypeInv, RequestsInv
<1>6. QED
  BY <1>1, <1>3, <1>4, <1>5, WorkerKeeps

\* The steps, by what they do
OfTheObject == \/ NewObject
               \/ \E m \in Members, kind \in Kinds : Name(m, kind)
               \/ \E m \in Members, value \in Values : Assign(m, value)
Conditions == \E entry \in Appended, value \in Values \cup {Null} : AppendCond(entry, value)
Begins == \/ \E part \in Passed : Begin("union", <<>>, <<part>>)
          \/ \E op \in {"join", "copy"} : Begin(op, <<Table(1)>>, <<>>)
Builds(b) == UnionRead(b) \/ Join(b) \/ Commit(b) \/ CommitRefused(b)
Works == Find \/ Create \/ Bind \/ Step

\* The entries of comparisons and of orders
LEMMA ConditionsAre ==
  ASSUME ObjInv, \/ \E m \in Members, value \in Values : Compare(m, "==", value)
                 \/ \E m \in Members : Order(m, "ORDER_ASC")
  PROVE  Conditions
<1>1. ASSUME NEW m \in Members, NEW value \in Values, Compare(m, "==", value) PROVE Conditions
  <2>1. PICK entry : entry = Entry(m, obj.cond_[m], "==")
    OBVIOUS
  <2>2. obj.cond_[m] \in Kinds
    BY <1>1 DEF Compare, ObjInv
  <2>3. entry \in Appended
    BY <2>1, <2>2 DEF Entry, Appended
  <2>4. AppendCond(entry, value)
    BY <1>1, <2>1 DEF Compare
  <2>5. QED
    BY <2>3, <2>4 DEF Conditions
<1>2. ASSUME NEW m \in Members, Order(m, "ORDER_ASC") PROVE Conditions
  <2>1. PICK entry : entry = Entry(m, "ORDER_ASC", "==")
    OBVIOUS
  <2>2. entry \in Appended
    BY <2>1 DEF Entry, Appended
  <2>3. AppendCond(entry, Null)
    BY <1>2, <2>1 DEF Order
  <2>4. QED
    BY <2>2, <2>3 DEF Conditions
<1>3. QED
  BY <1>1, <1>2

LEMMA NextIs ==
  ASSUME ObjInv, Next
  PROVE  \/ OfTheObject
         \/ Conditions
         \/ \E op \in {"read", "del"} : Read(op)
         \/ Update
         \/ Begins
         \/ \E b \in 1..Len(builders) : Builds(b)
         \/ Take
         \/ Works
<1>1. CASE \/ \E m \in Members, value \in Values : Compare(m, "==", value)
           \/ \E m \in Members : Order(m, "ORDER_ASC")
  BY <1>1, ConditionsAre
<1>2. CASE OfTheObject
  BY <1>2
<1>3. CASE Begins
  BY <1>3
<1>4. CASE \E b \in 1..Len(builders) : UnionRead(b) \/ Join(b) \/ Commit(b) \/ CommitRefused(b)
  BY <1>4 DEF Builds
<1>5. CASE \/ \E op \in {"read", "del"} : Read(op)
           \/ Update \/ Take \/ Find \/ Create \/ Bind \/ Step
  BY <1>5 DEF Works
<1>6. QED
  BY <1>1, <1>2, <1>3, <1>4, <1>5 DEF Next, OfTheObject, Begins

LEMMA TypeStep == TypeInv /\ [Next]_vars => TypeInv'
<1> SUFFICES ASSUME TypeInv, [Next]_vars PROVE TypeInv'
  OBVIOUS
<1>1. CASE OfTheObject
  BY <1>1, NewObjectKeeps, NameKeeps, AssignKeeps DEF OfTheObject
<1>2. CASE Conditions
  BY <1>2, AppendCondKeeps DEF Conditions
<1>3. CASE \E op \in {"read", "del"} : Read(op)
  BY <1>3, ReadKeeps
<1>4. CASE Update
  BY <1>4, UpdateKeeps
<1>5. CASE Begins
  BY <1>5, BeginKeeps DEF Begins
<1>6. ASSUME NEW b \in 1..Len(builders), Builds(b)
      PROVE  TypeInv'
  <2>1. CASE UnionRead(b)
    BY <2>1, UnionReadKeeps
  <2>2. CASE Join(b)
    BY <2>2, JoinIs, BuilderFrame
  <2>3. CASE Commit(b)
    BY <2>3, CommitKeeps
  <2>4. CASE CommitRefused(b)
    BY <2>4, CommitRefusedKeeps
  <2>5. QED
    BY <1>6, <2>1, <2>2, <2>3, <2>4 DEF Builds
<1>7. CASE Take
  BY <1>7, TakeKeeps
<1>8. CASE Works
  BY <1>8, WorkKeeps DEF Works
<1>9. CASE UNCHANGED vars
  <2>1. UNCHANGED <<clientVars, requests, queue, cur, pc>>
    BY <1>9 DEF vars, workerVars
  <2>2. Pending' = Pending
    BY <2>1 DEF Pending
  <2>3. QED
    BY <2>1, <2>2, WorkerKeeps DEF TypeInv, RequestsInv
<1>10. QED
  BY <1>1, <1>2, <1>3, <1>4, <1>5, <1>6, <1>7, <1>8, <1>9, NextIs DEF TypeInv

LEMMA PartsTyped ==
  ASSUME TypeInv, NEW part \in PartsInUse
  PROVE  part \in PartTypes /\ part.params <= Len(lists)
<1>1. PICK parts : parts \in Seq(PartTypes) /\ Listed(parts) /\ part \in Range(parts)
  <2>1. CASE \E q \in Pending : part \in Range(q.parts)
    <3>1. PICK q \in Pending : part \in Range(q.parts)
      BY <2>1
    <3>2. q \in RequestTypes /\ RequestInv(q)
      BY PendingTyped DEF TypeInv, RequestsInv
    <3>3. QED
      BY <3>1, <3>2 DEF RequestTypes, RequestInv
  <2>2. CASE \E b \in Range(builders) : part \in Range(b.parts)
    <3>1. PICK b \in Range(builders) : part \in Range(b.parts)
      BY <2>2
    <3>2. PICK i \in DOMAIN builders : b = builders[i]
      BY DEF Range
    <3>3. i \in 1..Len(builders) /\ builders \in Seq(BuilderTypes)
      BY LenProperties DEF TypeInv, BuildersInv
    <3>4. b \in BuilderTypes /\ BuilderInv(b)
      BY <3>2, <3>3, ElementOfSeq DEF TypeInv, BuildersInv
    <3>5. b.parts \in Seq(PartTypes) /\ Listed(b.parts)
      BY <3>4 DEF BuilderTypes, BuilderInv
    <3>6. QED
      BY <3>1, <3>5, Zenon
  <2>3. QED
    BY <2>1, <2>2 DEF PartsInUse
<1>2. PICK i \in 1..Len(parts) : part = parts[i]
  BY <1>1, LenProperties DEF Range
<1>3. QED
  BY <1>1, <1>2, ElementOfSeq DEF Listed

(* Every object, builder and request stays well formed whatever the client *)
(* does: the hash beside an object's list is the hash of that list         *)
(* (ref.h:57-82), a request refers to a list and a builder there are, and  *)
(* has a value of each member it assigns (ref_ops.h:53-72, 223-266).       *)
THEOREM TypeCorrect == Spec => []TypeOK
<1>1. Init => TypeInv
  BY InitInv
<1>2. TypeInv /\ [Next]_vars => TypeInv'
  BY TypeStep
<1>3. TypeInv => TypeOK
  <2> SUFFICES ASSUME TypeInv PROVE TypeOK
    OBVIOUS
  <2>1. Len(lists) \in Nat /\ Len(builders) \in Nat
    BY LenProperties DEF TypeInv, ListsInv, BuildersInv
  <2>2. \A part \in PartsInUse : part.params \in 0..Len(lists)
    BY <2>1, PartsTyped DEF PartTypes
  <2>3. ASSUME NEW q \in Pending
        PROVE  q.builder \in 0..Len(builders) /\ q.seqs \subseteq Members /\ q.wanted \in [q.seqs -> Values]
    <3>1. q \in RequestTypes /\ RequestInv(q)
      BY PendingTyped DEF TypeInv, RequestsInv
    <3>2. QED
      BY <2>1, <3>1 DEF RequestTypes, RequestInv
  <2>4. QED
    BY <2>1, <2>2, <2>3 DEF TypeOK, TypeInv, ObjInv, BuildersInv, RequestsInv
<1>4. QED
  BY <1>1, <1>2, <1>3, PTL DEF Spec

-----------------------------------------------------------------------------
(* What a client that freezes its conditions keeps                         *)

\* The list is as it was when the part was taken, and the hash is of it.
Faithful(part) == part.asked = ListAt(part.params) /\ part.hash = Entries(part.asked)
FaithfulParts(parts) == \A i \in 1..Len(parts) : Faithful(parts[i])

\* The builder has what it had when the request was handed in.
Kept(q) == IF q.builder = NoBuilder THEN q.froms = <<>>
           ELSE q.parts = builders[q.builder].parts /\ q.froms = builders[q.builder].froms

FrozenInv == /\ \A b \in 1..Len(builders) : FaithfulParts(builders[b].parts)
             /\ \A q \in Pending : FaithfulParts(q.parts) /\ Kept(q)

LEMMA BuilderOf ==
  ASSUME TypeInv, NEW q \in Pending, q.builder # NoBuilder
  PROVE  q.builder \in 1..Len(builders)
<1>1. Len(builders) \in Nat
  BY LenProperties DEF TypeInv, BuildersInv
<1>2. q \in RequestTypes /\ RequestInv(q)
  BY PendingTyped DEF TypeInv, RequestsInv
<1>3. q.builder \in Nat /\ q.builder <= Len(builders) /\ q.builder # 0
  BY <1>2 DEF RequestTypes, RequestInv, NoBuilder
<1>4. QED
  BY <1>1, <1>3

LEMMA InitFrozen == Init => FrozenInv
<1> SUFFICES ASSUME Init PROVE FrozenInv
  OBVIOUS
<1>1. Len(builders) = 0 /\ Pending = {}
  BY EmptySeq DEF Init, Pending
<1>2. QED
  BY <1>1 DEF FrozenInv

LEMMA FrozenFrame ==
  ASSUME TypeInv, FrozenInv, UNCHANGED lists,
         \A b \in 1..Len(builders') : FaithfulParts(builders'[b].parts),
         \A q \in Pending : q.builder # NoBuilder => builders'[q.builder] = builders[q.builder],
         \A q \in Pending' : q \in Pending \/ (FaithfulParts(q.parts) /\ Kept(q)')
  PROVE  FrozenInv'
<1>1. \A parts : FaithfulParts(parts) => FaithfulParts(parts)'
  BY DEF FaithfulParts, Faithful, ListAt
<1>2. ASSUME NEW q \in Pending' PROVE FaithfulParts(q.parts)' /\ Kept(q)'
  <2>1. CASE q \in Pending
    <3>1. FaithfulParts(q.parts) /\ Kept(q)
      BY <2>1 DEF FrozenInv
    <3>2. Kept(q)'
      BY <2>1, <3>1 DEF Kept
    <3>3. QED
      BY <1>1, <3>1, <3>2
  <2>2. CASE FaithfulParts(q.parts) /\ Kept(q)'
    BY <1>1, <2>2
  <2>3. QED
    BY <2>1, <2>2
<1>3. ASSUME NEW b \in 1..Len(builders') PROVE FaithfulParts(builders[b].parts)'
  <2>1. PICK parts : parts = builders'[b].parts
    OBVIOUS
  <2>2. FaithfulParts(parts)
    BY <2>1
  <2>3. FaithfulParts(parts)'
    BY <1>1, <2>2
  <2>4. QED
    BY <2>1, <2>3 DEF FaithfulParts
<1>4. QED
  BY <1>2, <1>3 DEF FrozenInv

LEMMA ObjectFrozen ==
  ASSUME TypeInv, FrozenInv, OfTheObject
  PROVE  FrozenInv'
<1>1. UNCHANGED <<lists, builders, queue, cur>>
  BY DEF OfTheObject, NewObject, Name, Assign, workerVars
<1>2. Pending' = Pending
  BY <1>1 DEF Pending
<1>3. QED
  BY <1>1, <1>2, FrozenFrame DEF FrozenInv

LEMMA ConditionsFrozen ==
  ASSUME CondsFrozen, TypeInv, FrozenInv, Conditions
  PROVE  FrozenInv'
<1>1. PICK entry \in Appended, value \in Values \cup {Null} : AppendCond(entry, value)
  BY DEF Conditions
<1>2. PICK at \in 1..Len(lists') :
            /\ lists' \in Seq(Lists) /\ Len(lists') \in Nat /\ Len(lists) <= Len(lists')
            /\ lists'[at] = Append(ListAt(obj.conds_), [entry |-> entry, value |-> value])
            /\ \A l \in 1..Len(lists') : l # at => l <= Len(lists) /\ lists'[l] = lists[l]
            /\ obj' = [obj EXCEPT !.conds_ = at, !.hashv_ = Append(@, entry), !.cond_[entry.mem] = None]
            /\ CondsFrozen => \A part \in PartsInUse : part.params # at
  BY <1>1, AppendIs
<1>3. UNCHANGED <<builders, queue, cur>>
  BY <1>1 DEF AppendCond, workerVars
<1>4. Pending' = Pending
  BY <1>3 DEF Pending
<1>5. ASSUME NEW part \in PartsInUse, Faithful(part) PROVE Faithful(part)'
  <2>1. part.params \in Nat /\ part.params <= Len(lists) /\ part.params # at
    BY <1>2, PartsTyped DEF PartTypes
  <2>2. ListAt(part.params)' = ListAt(part.params)
    <3>1. CASE part.params = NoList
      BY <3>1 DEF ListAt
    <3>2. CASE part.params # NoList
      <4>1. Len(lists) \in Nat
        BY LenProperties DEF TypeInv, ListsInv
      <4>2. part.params \in 1..Len(lists')
        BY <1>2, <2>1, <3>2, <4>1 DEF NoList
      <4>3. QED
        BY <1>2, <2>1, <3>2, <4>2 DEF ListAt
    <3>3. QED
      BY <3>1, <3>2
  <2>3. QED
    BY <1>5, <2>2 DEF Faithful
<1>6. ASSUME NEW b \in 1..Len(builders) PROVE FaithfulParts(builders[b].parts)'
  <2>1. PICK x \in BuilderTypes : x = builders[b]
    BY ElementOfSeq DEF TypeInv, BuildersInv
  <2>2. x \in Range(builders)
    BY <2>1, LenProperties DEF TypeInv, BuildersInv, Range
  <2>3. x.parts \in Seq(PartTypes)
    BY <2>1 DEF BuilderTypes
  <2>4. Range(x.parts) \subseteq PartsInUse
    BY <2>2 DEF PartsInUse
  <2>5. \A i \in 1..Len(x.parts) : x.parts[i] \in PartsInUse
    BY <2>3, <2>4, LenProperties DEF Range
  <2>6. FaithfulParts(x.parts)
    BY <2>1 DEF FrozenInv
  <2>7. FaithfulParts(x.parts)'
    BY <1>5, <2>5, <2>6 DEF FaithfulParts
  <2>8. QED
    BY <1>3, <2>1, <2>7
<1>7. ASSUME NEW q \in Pending PROVE FaithfulParts(q.parts)' /\ Kept(q)'
  <2>1. q.parts \in Seq(PartTypes)
    BY PendingTyped DEF TypeInv, RequestTypes
  <2>2. Range(q.parts) \subseteq PartsInUse
    BY DEF PartsInUse
  <2>3. \A i \in 1..Len(q.parts) : q.parts[i] \in PartsInUse
    BY <2>1, <2>2, LenProperties DEF Range
  <2>4. FaithfulParts(q.parts) /\ Kept(q)
    BY DEF FrozenInv
  <2>5. FaithfulParts(q.parts)'
    BY <1>5, <2>3, <2>4 DEF FaithfulParts
  <2>6. Kept(q)'
    BY <1>3, <2>4 DEF Kept
  <2>7. QED
    BY <2>5, <2>6
<1>8. QED
  BY <1>3, <1>4, <1>6, <1>7 DEF FrozenInv


\* A part just taken is faithful.
LEMMA SnapshotFaithful ==
  ASSUME ObjInv, ListsInv
  PROVE  Faithful(Snapshot) /\ \A part \in Passed : Faithful(part)
BY SnapshotIs, PassedAre DEF Faithful

LEMMA SingleFrozen ==
  ASSUME TypeInv, FrozenInv, UNCHANGED <<lists, builders>>, NEW op, NEW q, NEW part, NEW seqs, NEW values,
         part = Snapshot, Handed(q, op, NoBuilder, <<part>>, <<>>, seqs, values)
  PROVE  FrozenInv'
<1>1. q.parts = <<part>> /\ q.builder = NoBuilder /\ q.froms = <<>> /\ Pending' = Pending \cup {q}
  BY DEF Handed
<1>2. FaithfulParts(q.parts)
  <2>1. Faithful(part)
    BY SnapshotFaithful DEF TypeInv
  <2>2. PICK parts : parts = <<part>>
    OBVIOUS
  <2>3. \A i \in 1..Len(parts) : parts[i] = part
    BY <2>2
  <2>4. FaithfulParts(parts)
    BY <2>1, <2>3 DEF FaithfulParts
  <2>5. QED
    BY <1>1, <2>2, <2>4
<1>3. Kept(q)'
  BY <1>1 DEF Kept
<1>4. QED
  BY <1>1, <1>2, <1>3, FrozenFrame DEF FrozenInv

LEMMA AppendFaithful ==
  ASSUME NEW parts \in Seq(PartTypes), FaithfulParts(parts), NEW part \in PartTypes, Faithful(part)
  PROVE  FaithfulParts(Append(parts, part))
<1>1. PICK more : more = Append(parts, part)
  OBVIOUS
<1>2. Len(more) = Len(parts) + 1 /\ more[Len(parts) + 1] = part /\ \A i \in 1..Len(parts) : more[i] = parts[i]
  BY <1>1, AppendProperties
<1>3. \A i \in 1..Len(more) : i = Len(parts) + 1 \/ i \in 1..Len(parts)
  BY <1>2, LenProperties
<1>4. FaithfulParts(more)
  BY <1>2, <1>3 DEF FaithfulParts
<1>5. QED
  BY <1>1, <1>4

LEMMA BeginFrozen ==
  ASSUME TypeInv, FrozenInv, Begins
  PROVE  FrozenInv'
<1>1. PICK y : FaithfulParts(y.parts) /\ builders' = Append(builders, y) /\ Idle /\ y \in BuilderTypes
  <2>1. CASE \E part \in Passed : Begin("union", <<>>, <<part>>)
    <3>1. PICK part \in Passed : Begin("union", <<>>, <<part>>)
      BY <2>1
    <3>2. part \in PartTypes /\ Faithful(part)
      BY PassedAre, SnapshotFaithful DEF TypeInv
    <3>3. PICK parts : parts = <<part>>
      OBVIOUS
    <3>4. parts \in Seq(PartTypes) /\ \A i \in 1..Len(parts) : parts[i] = part
      BY <3>2, <3>3
    <3>5. PICK y : y = [op |-> "union", froms |-> <<>>, parts |-> parts]
      OBVIOUS
    <3>6. y \in BuilderTypes /\ y.parts = parts
      BY <3>4, <3>5, TablesAre DEF BuilderTypes
    <3>7. FaithfulParts(parts)
      BY <3>2, <3>4 DEF FaithfulParts
    <3>8. QED
      BY <3>1, <3>3, <3>5, <3>6, <3>7 DEF Begin
  <2>2. CASE \E op \in {"join", "copy"} : Begin(op, <<Table(1)>>, <<>>)
    <3>1. PICK op \in {"join", "copy"} : Begin(op, <<Table(1)>>, <<>>)
      BY <2>2
    <3>2. PICK parts : parts = <<>>
      OBVIOUS
    <3>3. parts \in Seq(PartTypes) /\ Len(parts) = 0
      BY <3>2, EmptySeq
    <3>4. PICK y : y = [op |-> op, froms |-> <<Table(1)>>, parts |-> parts]
      OBVIOUS
    <3>5. y \in BuilderTypes /\ y.parts = parts
      BY <3>3, <3>4, TablesAre DEF BuilderTypes
    <3>6. FaithfulParts(parts)
      BY <3>3 DEF FaithfulParts
    <3>7. QED
      BY <3>1, <3>2, <3>4, <3>5, <3>6 DEF Begin
  <2>3. QED
    BY <2>1, <2>2 DEF Begins
<1>2. UNCHANGED <<lists, queue, cur>>
  BY <1>1 DEF Idle, workerVars
<1>3. /\ Len(builders') = Len(builders) + 1 /\ Len(builders) \in Nat
      /\ builders'[Len(builders) + 1] = y /\ \A d \in 1..Len(builders) : builders'[d] = builders[d]
  BY <1>1, AppendProperties, LenProperties DEF TypeInv, BuildersInv
<1>4. \A b \in 1..Len(builders') : FaithfulParts(builders'[b].parts)
  <2>1. \A b \in 1..Len(builders') : b = Len(builders) + 1 \/ b \in 1..Len(builders)
    BY <1>3
  <2>2. \A b \in 1..Len(builders) : FaithfulParts(builders[b].parts)
    BY DEF FrozenInv
  <2>3. QED
    BY <1>1, <1>3, <2>1, <2>2
<1>5. \A q \in Pending : q.builder # NoBuilder => builders'[q.builder] = builders[q.builder]
  BY <1>3, BuilderOf
<1>6. Pending' = Pending
  BY <1>2 DEF Pending
<1>7. QED
  BY <1>2, <1>4, <1>5, <1>6, FrozenFrame

\* A builder with a request pending does not collect.
LEMMA CollectFrozen ==
  ASSUME CondsFrozen, TypeInv, FrozenInv, UNCHANGED lists, NEW b \in 1..Len(builders), Collects(b),
         Len(builders') = Len(builders), FaithfulParts(builders'[b].parts),
         \A d \in 1..Len(builders) : d # b => builders'[d] = builders[d],
         \A q \in Pending' : q \in Pending \/ (FaithfulParts(q.parts) /\ Kept(q)')
  PROVE  FrozenInv'
<1>1. \A d \in 1..Len(builders') : FaithfulParts(builders'[d].parts)
  <2>1. \A d \in 1..Len(builders) : FaithfulParts(builders[d].parts)
    BY DEF FrozenInv
  <2>2. QED
    BY <2>1
<1>2. ASSUME NEW q \in Pending, q.builder # NoBuilder PROVE builders'[q.builder] = builders[q.builder]
  <2>1. q.builder \in 1..Len(builders)
    BY <1>2, BuilderOf
  <2>2. q.builder # b
    BY DEF Collects
  <2>3. QED
    BY <2>1, <2>2
<1>3. QED
  BY <1>1, <1>2, FrozenFrame

LEMMA PartsOfBuilder ==
  ASSUME TypeInv, NEW b \in 1..Len(builders)
  PROVE  builders[b].parts \in Seq(PartTypes)
<1>1. builders[b] \in BuilderTypes
  BY ElementOfSeq DEF TypeInv, BuildersInv
<1>2. QED
  BY <1>1 DEF BuilderTypes

LEMMA BuildFrozen ==
  ASSUME CondsFrozen, TypeInv, FrozenInv, NEW b \in 1..Len(builders), Builds(b)
  PROVE  FrozenInv'
<1>1. builders[b].parts \in Seq(PartTypes) /\ FaithfulParts(builders[b].parts)
  BY PartsOfBuilder DEF FrozenInv
<1>2. Snapshot \in PartTypes /\ Faithful(Snapshot) /\ \A part \in Passed : part \in PartTypes /\ Faithful(part)
  BY SnapshotIs, PassedAre, SnapshotFaithful DEF TypeInv
<1>3. CASE UnionRead(b)
  <2>1. PICK part \in Passed : builders' = [builders EXCEPT ![b].parts = Append(@, part)]
    BY <1>3 DEF UnionRead
  <2>2. UNCHANGED <<lists, queue, cur>> /\ builders[b].op = "union" /\ Collects(b)
    BY <1>3 DEF UnionRead, Idle, workerVars
  <2>3. part \in PartTypes /\ part.params <= Len(lists)
    BY PassedAre DEF TypeInv
  <2>4. /\ Len(builders') = Len(builders) /\ builders'[b].parts = Append(builders[b].parts, part)
        /\ \A d \in 1..Len(builders) : d # b => builders'[d] = builders[d]
    BY <2>1, <2>2, <2>3, CollectIs DEF TypeInv
  <2>5. FaithfulParts(builders'[b].parts)
    BY <1>1, <1>2, <2>4, AppendFaithful
  <2>6. Pending' = Pending
    BY <2>2 DEF Pending
  <2>7. QED
    BY <2>2, <2>4, <2>5, <2>6, CollectFrozen
<1>4. CASE Join(b)
  <2>1. /\ UNCHANGED <<lists, queue, cur>> /\ Len(builders') = Len(builders)
        /\ builders'[b].parts = builders[b].parts
        /\ \A d \in 1..Len(builders) : d # b => builders'[d] = builders[d]
    BY <1>4, JoinIs
  <2>2. Collects(b)
    BY <1>4 DEF Join
  <2>3. FaithfulParts(builders'[b].parts)
    BY <1>1, <2>1
  <2>4. Pending' = Pending
    BY <2>1 DEF Pending
  <2>5. QED
    BY <2>1, <2>2, <2>3, <2>4, CollectFrozen
<1>5. CASE CommitRefused(b)
  <2>1. SetCond(b) /\ obj.conds_ # NoList /\ UNCHANGED <<queue, cur>> /\ Collects(b)
    BY <1>5 DEF CommitRefused, workerVars, SetCond
  <2>2. /\ UNCHANGED lists /\ Len(builders') = Len(builders)
        /\ builders'[b].parts = Append(builders[b].parts, Snapshot)
        /\ \A d \in 1..Len(builders) : d # b => builders'[d] = builders[d]
    BY <2>1, SetCondIs DEF TypeInv
  <2>3. FaithfulParts(builders'[b].parts)
    BY <1>1, <1>2, <2>2, AppendFaithful
  <2>4. Pending' = Pending
    BY <2>1 DEF Pending
  <2>5. QED
    BY <2>1, <2>2, <2>3, <2>4, CollectFrozen
<1>6. CASE Commit(b)
  <2>1. /\ UNCHANGED lists /\ Len(builders') = Len(builders)
        /\ \A d \in 1..Len(builders) : d # b => builders'[d] = builders[d]
    BY <1>6, CommitIs
  <2>2. PICK y : y = builders'[b]
    OBVIOUS
  <2>3. PICK q : Handed(q, y.op, b, y.parts, y.froms, {}, <<>>)
    BY <1>6, <2>2, CommitIs
  <2>4. Pending' = Pending \cup {q} /\ q.builder = b /\ q.parts = y.parts /\ q.froms = y.froms
    BY <2>3 DEF Handed
  <2>5. Kept(q)'
    BY <2>2, <2>4 DEF Kept, NoBuilder
  <2>6. CASE UNCHANGED clientVars
    <3>1. UNCHANGED builders
      BY <2>6 DEF clientVars
    <3>2. FaithfulParts(q.parts)
      BY <1>1, <2>2, <2>4, <3>1
    <3>3. \A d \in 1..Len(builders') : FaithfulParts(builders'[d].parts)
      BY <3>1 DEF FrozenInv
    <3>4. QED
      BY <2>1, <2>4, <2>5, <3>1, <3>2, <3>3, FrozenFrame
  <2>7. CASE obj.conds_ # NoList /\ SetCond(b)
    <3>1. builders'[b].parts = Append(builders[b].parts, Snapshot) /\ Collects(b)
      BY <2>7, SetCondIs DEF TypeInv, SetCond
    <3>2. FaithfulParts(builders'[b].parts)
      BY <1>1, <1>2, <3>1, AppendFaithful
    <3>3. FaithfulParts(q.parts)
      BY <2>2, <2>4, <3>2
    <3>4. QED
      BY <2>1, <2>4, <2>5, <3>1, <3>2, <3>3, CollectFrozen
  <2>8. QED
    BY <1>6, <2>6, <2>7 DEF Commit
<1>7. QED
  BY <1>3, <1>4, <1>5, <1>6 DEF Builds

LEMMA WorkerFrozen ==
  ASSUME TypeInv, FrozenInv, Take \/ Works \/ UNCHANGED vars
  PROVE  FrozenInv'
<1>1. CASE Take
  <2>1. UNCHANGED <<lists, builders>> /\ Pending' = Pending
    BY <1>1, TakeIs DEF TypeInv
  <2>2. QED
    BY <2>1, FrozenFrame DEF FrozenInv
<1>2. CASE Works
  <2>1. UNCHANGED <<lists, builders, queue>> /\ (cur' = cur \/ cur' = NoRequest)
    BY <1>2, WorkIs DEF TypeInv, Works, clientVars, Answer
  <2>2. Pending' \subseteq Pending
    BY <2>1 DEF Pending
  <2>3. QED
    BY <2>1, <2>2, FrozenFrame DEF FrozenInv
<1>3. CASE UNCHANGED vars
  <2>1. UNCHANGED <<lists, builders, queue, cur>>
    BY <1>3 DEF vars, clientVars, workerVars
  <2>2. Pending' = Pending
    BY <2>1 DEF Pending
  <2>3. QED
    BY <2>1, <2>2, FrozenFrame DEF FrozenInv
<1>4. QED
  BY <1>1, <1>2, <1>3

LEMMA FrozenStep == CondsFrozen /\ TypeInv /\ FrozenInv /\ [Next]_vars => FrozenInv'
<1> SUFFICES ASSUME CondsFrozen, TypeInv, FrozenInv, [Next]_vars PROVE FrozenInv'
  OBVIOUS
<1>1. CASE OfTheObject
  BY <1>1, ObjectFrozen
<1>2. CASE Conditions
  BY <1>2, ConditionsFrozen
<1>3. ASSUME NEW op \in {"read", "del"}, Read(op) PROVE FrozenInv'
  <2>1. UNCHANGED <<lists, builders>>
    BY <1>3, ReadIs
  <2>2. PICK q, part : part = Snapshot /\ Handed(q, op, NoBuilder, <<part>>, <<>>, {}, <<>>)
    BY <1>3, ReadIs
  <2>3. QED
    BY <2>1, <2>2, SingleFrozen
<1>4. CASE Update
  <2>1. UNCHANGED <<lists, builders>>
    BY <1>4, UpdateIs
  <2>2. PICK q, part, seqs, values : /\ part = Snapshot
                                     /\ Handed(q, "update", NoBuilder, <<part>>, <<>>, seqs, values)
    BY <1>4, UpdateIs
  <2>3. QED
    BY <2>1, <2>2, SingleFrozen
<1>5. CASE Begins
  BY <1>5, BeginFrozen
<1>6. CASE \E b \in 1..Len(builders) : Builds(b)
  BY <1>6, BuildFrozen
<1>7. CASE Take \/ Works \/ UNCHANGED vars
  BY <1>7, WorkerFrozen
<1>8. QED
  BY <1>1, <1>2, <1>3, <1>4, <1>5, <1>6, <1>7, NextIs DEF TypeInv


-----------------------------------------------------------------------------
(* The statement the worker runs                                           *)

\* What a client can ask, with any conditions of the structure
AllAskings == Askings(Froms, Seq(Lists))

\* The values a request was handed in with, for every parameter
Given(q) == MapSeq(LAMBDA m : q.wanted[m], Ascending(q.seqs)) \o Flat(ValuesOf, q.asked)

WorkerInv ==
    /\ \A k \in DOMAIN read_stmts_ : \E q \in AllAskings : Key(Meant(q)) = k /\ read_stmts_[k] = Sql(Meant(q))
    /\ pc # "idle" => key = Key(Meant(cur))
    /\ pc \in {"bind", "step"} => text = Sql(Meant(cur))
    /\ pc = "step" => bound = Given(cur)

\* What the worker reads of a pending request is what was asked.
LEMMA NowIs ==
  ASSUME TypeInv, FrozenInv, NEW q \in Pending
  PROVE  /\ PartsNow(q) = q.parts /\ FromsNow(q) = q.froms
         /\ Len(q.parts) = Len(q.asked)
         /\ \A i \in 1..Len(q.parts) : /\ q.parts[i].hash = Entries(q.asked[i])
                                       /\ ListAt(q.parts[i].params) = q.asked[i]
<1>1. q \in RequestTypes /\ RequestInv(q)
  BY PendingTyped DEF TypeInv, RequestsInv
<1>2. FaithfulParts(q.parts) /\ Kept(q)
  BY DEF FrozenInv
<1>3. PICK parts \in Seq(PartTypes) : parts = q.parts
  BY <1>1 DEF RequestTypes
<1>4. q.asked = AskedOf(parts)
  BY <1>1, <1>3 DEF RequestInv, AskedOf
<1>5. Len(q.asked) = Len(parts) /\ \A i \in 1..Len(parts) : q.asked[i] = parts[i].asked
  BY <1>4, AskedIs
<1>6. PartsNow(q) = q.parts /\ FromsNow(q) = q.froms
  BY <1>2 DEF Kept, PartsNow, FromsNow
<1>7. QED
  BY <1>2, <1>3, <1>5, <1>6 DEF FaithfulParts, Faithful

LEMMA KeyIs ==
  ASSUME TypeInv, FrozenInv, NEW q \in Pending
  PROVE  KeyOf(q) = Key(Meant(q))
<1>1. PICK conds : conds = [i \in 1..Len(q.parts) |-> q.parts[i].hash]
  OBVIOUS
<1>2. conds = [i \in 1..Len(q.asked) |-> Entries(q.asked[i])]
  BY <1>1, NowIs
<1>3. KeyOf(q) = Key(Asked(q, q.froms, conds))
  BY <1>1, NowIs DEF KeyOf, MapSeq
<1>4. Meant(q) = Asked(q, q.froms, conds)
  BY <1>2 DEF Meant, MapSeq
<1>5. QED
  BY <1>3, <1>4

LEMMA TextIs ==
  ASSUME TypeInv, FrozenInv, NEW q \in Pending
  PROVE  Asked(q, FromsNow(q), MapSeq(LAMBDA part : Entries(ListAt(part.params)), PartsNow(q))) = Meant(q)
<1>1. PICK conds : conds = [i \in 1..Len(q.parts) |-> Entries(ListAt(q.parts[i].params))]
  OBVIOUS
<1>2. conds = [i \in 1..Len(q.asked) |-> Entries(q.asked[i])]
  BY <1>1, NowIs
<1>3. Asked(q, FromsNow(q), MapSeq(LAMBDA part : Entries(ListAt(part.params)), PartsNow(q)))
         = Asked(q, q.froms, conds)
  BY <1>1, NowIs DEF MapSeq
<1>4. Meant(q) = Asked(q, q.froms, conds)
  BY <1>2 DEF Meant, MapSeq
<1>5. QED
  BY <1>3, <1>4

\* A pending request is one of those a client can ask.
LEMMA MeantIs ==
  ASSUME TypeInv, NEW q \in Pending
  PROVE  \E a \in AllAskings : Meant(a) = Meant(q) /\ a.seqs = q.seqs /\ a.asked = q.asked
<1>1. q \in RequestTypes /\ CanAsk(q)
  BY PendingTyped DEF TypeInv, RequestsInv, RequestInv
<1>2. PICK a : a = [op |-> q.op, seqs |-> q.seqs, froms |-> q.froms, asked |-> q.asked]
  OBVIOUS
<1>3. a.op = q.op /\ a.seqs = q.seqs /\ a.froms = q.froms /\ a.asked = q.asked
  BY <1>2
<1>4. CanAsk(a)
  BY <1>1, <1>3 DEF CanAsk
<1>5. a \in AllAskings
  BY <1>1, <1>2, <1>4 DEF AllAskings, Askings, RequestTypes
<1>6. \A froms, conds : Asked(a, froms, conds) = Asked(q, froms, conds)
  BY <1>3 DEF Asked, MapSeq
<1>7. Meant(a) = Meant(q)
  BY <1>3, <1>6 DEF Meant
<1>8. QED
  BY <1>3, <1>5, <1>7

LEMMA ValuesAre ==
  ASSUME NEW list \in Lists
  PROVE  ValuesOf(list) \in Seq(Values \cup {Null})
<1>1. PICK n \in Nat : n = Len(list)
  BY LenProperties DEF Lists
<1>2. \A i \in 1..n : list[i].value \in Values \cup {Null}
  <2>1. \A i \in 1..n : list[i] \in ConditionTypes
    BY <1>1, ElementOfSeq DEF Lists
  <2>2. QED
    BY <2>1 DEF ConditionTypes
<1>3. PICK f : f = [i \in 1..n |-> list[i].value]
  OBVIOUS
<1>4. f = ValuesOf(list)
  BY <1>1, <1>3 DEF ValuesOf, MapSeq
<1>5. f \in [1..n -> Values \cup {Null}]
  BY <1>2, <1>3
<1>6. QED
  BY <1>4, <1>5, FunctionIsSeq

LEMMA GivenIs ==
  ASSUME NEW q, q.seqs \in SUBSET Members, q.asked \in Seq(Lists)
  PROVE  /\ Len(Given(q)) = Len(Ascending(q.seqs)) + Len(Flat(ValuesOf, q.asked))
         /\ Len(Given(q)) \in Nat
         /\ Given(q) = [i \in 1..Len(Given(q)) |-> Given(q)[i]]
<1>1. PICK k \in Nat : k = Len(Ascending(q.seqs))
  BY AscendingLen
<1>2. PICK first : first = [i \in 1..k |-> q.wanted[Ascending(q.seqs)[i]]]
  OBVIOUS
<1>3. PICK T : T = Values \cup {Null} \cup {first[i] : i \in 1..k}
  OBVIOUS
<1>4. first \in Seq(T) /\ Len(first) = k
  <2>1. first \in [1..k -> T]
    BY <1>2, <1>3
  <2>2. QED
    BY <2>1, FunctionIsSeq
<1>5. PICK n \in Nat : n = Len(q.asked)
  BY LenProperties
<1>6. PICK s : s = [i \in 1..n |-> ValuesOf(q.asked[i])]
  OBVIOUS
<1>7. s \in Seq(Seq(T))
  <2>1. \A i \in 1..n : q.asked[i] \in Lists
    BY <1>5, ElementOfSeq
  <2>2. \A i \in 1..n : ValuesOf(q.asked[i]) \in Seq(Values \cup {Null})
    BY <2>1, ValuesAre
  <2>3. \A x \in Seq(Values \cup {Null}) : x \in Seq(T)
    BY <1>3
  <2>4. s \in [1..n -> Seq(T)]
    BY <1>6, <2>2, <2>3
  <2>5. QED
    BY <2>4, FunctionIsSeq
<1>8. PICK second : second = FlattenSeq(s)
  OBVIOUS
<1>9. second \in Seq(T)
  BY <1>7, <1>8, FlattenIs
<1>10. Flat(ValuesOf, q.asked) = second
  BY <1>5, <1>6, <1>8 DEF Flat, MapSeq
<1>11. MapSeq(LAMBDA m : q.wanted[m], Ascending(q.seqs)) = first
  BY <1>1, <1>2 DEF MapSeq
<1>12. PICK given : given = first \o second
  OBVIOUS
<1>13. given \in Seq(T) /\ Len(given) = Len(first) + Len(second) /\ Len(given) \in Nat
  BY <1>4, <1>9, <1>12, ConcatProperties, LenProperties
<1>14. given = [i \in 1..Len(given) |-> given[i]]
  BY <1>13
<1>15. Given(q) = given
  BY <1>10, <1>11, <1>12 DEF Given
<1>16. QED
  BY <1>1, <1>4, <1>10, <1>13, <1>14, <1>15


LEMMA BindsGiven ==
  ASSUME TypeInv, FrozenInv, NEW q \in Pending
  PROVE  MapSeq(LAMBDA m : Assigned(q, m), Ascending(q.seqs))
            \o Flat(LAMBDA part : ValuesOf(ListAt(part.params)), PartsNow(q)) = Given(q)
<1>1. q \in RequestTypes /\ RequestInv(q)
  BY PendingTyped DEF TypeInv, RequestsInv
<1>2. q.values = q.wanted /\ q.values # Null
  BY <1>1, NullAssumption DEF RequestInv, RequestTypes
<1>3. \A m : Assigned(q, m) = q.wanted[m]
  BY <1>2 DEF Assigned
<1>4. MapSeq(LAMBDA m : Assigned(q, m), Ascending(q.seqs)) = MapSeq(LAMBDA m : q.wanted[m], Ascending(q.seqs))
  BY <1>3 DEF MapSeq
<1>5. PICK s : s = [i \in 1..Len(q.parts) |-> ValuesOf(ListAt(q.parts[i].params))]
  OBVIOUS
<1>6. s = [i \in 1..Len(q.asked) |-> ValuesOf(q.asked[i])]
  BY <1>5, NowIs
<1>7. Flat(LAMBDA part : ValuesOf(ListAt(part.params)), PartsNow(q)) = FlattenSeq(s)
  BY <1>5, NowIs DEF Flat, MapSeq
<1>8. Flat(ValuesOf, q.asked) = FlattenSeq(s)
  BY <1>6 DEF Flat, MapSeq
<1>9. QED
  BY <1>4, <1>7, <1>8 DEF Given

LEMMA InitWorker == Init => WorkerInv
<1> SUFFICES ASSUME Init PROVE WorkerInv
  OBVIOUS
<1>1. DOMAIN read_stmts_ = {} /\ pc = "idle"
  BY DEF Init
<1>2. QED
  BY <1>1 DEF WorkerInv

\* Nothing the client does disturbs the worker.
LEMMA ClientWorker ==
  ASSUME WorkerInv, UNCHANGED workerVars
  PROVE  WorkerInv'
BY DEF workerVars, WorkerInv

LEMMA CurIs == TypeInv /\ pc # "idle" => cur \in Pending
BY DEF TypeInv, RequestsInv, Pending

LEMMA TakeWorker ==
  ASSUME TypeInv, FrozenInv, WorkerInv, Take
  PROVE  WorkerInv'
<1>1. PICK q \in Pending : q = cur' /\ q = Head(queue)
  BY TakeIs DEF TypeInv
<1>2. key' = Key(Meant(q)) /\ pc' = "find" /\ read_stmts_' = read_stmts_
  BY <1>1, KeyIs DEF Take
<1>3. QED
  BY <1>1, <1>2 DEF WorkerInv

LEMMA FindWorker ==
  ASSUME KeysFaithful(AllAskings), TypeInv, WorkerInv, Find
  PROVE  WorkerInv'
<1>1. PICK q \in Pending : q = cur
  BY CurIs DEF Find
<1>2. PICK a \in AllAskings : Meant(a) = Meant(q)
  BY MeantIs
<1>3. PICK r \in AllAskings : Key(Meant(r)) = key /\ read_stmts_[key] = Sql(Meant(r))
  BY DEF Find, WorkerInv
<1>4. key = Key(Meant(a))
  BY <1>1, <1>2 DEF Find, WorkerInv
<1>5. Sql(Meant(r)) = Sql(Meant(a))
  BY <1>3, <1>4 DEF KeysFaithful
<1>6. text' = Sql(Meant(q))
  BY <1>2, <1>3, <1>5 DEF Find
<1>7. UNCHANGED <<cur, key, read_stmts_>> /\ pc' = "bind" /\ key = Key(Meant(q))
  BY <1>1 DEF Find, WorkerInv
<1>8. QED
  BY <1>1, <1>6, <1>7 DEF WorkerInv

LEMMA CreateWorker ==
  ASSUME TypeInv, FrozenInv, WorkerInv, Create
  PROVE  WorkerInv'
<1>1. PICK q \in Pending : q = cur
  BY CurIs DEF Create
<1>2. PICK now : now = Meant(q)
  OBVIOUS
<1>3. PICK a \in AllAskings : Meant(a) = now
  BY <1>2, MeantIs
<1>4. key = Key(now)
  BY <1>1, <1>2 DEF Create, WorkerInv
<1>5. Asked(cur, FromsNow(cur), MapSeq(LAMBDA part : Entries(ListAt(part.params)), PartsNow(cur))) = now
  BY <1>1, <1>2, TextIs
<1>6. CASE MakeThrows(now)
  <2>1. Answer /\ UNCHANGED read_stmts_
    BY <1>5, <1>6 DEF Create
  <2>2. QED
    BY <2>1 DEF Answer, WorkerInv
<1>7. CASE ~MakeThrows(now)
  <2>1. PICK sql : sql = Sql(now)
    OBVIOUS
  <2>2. /\ text' = sql /\ pc' = "bind" /\ UNCHANGED <<cur, key>>
        /\ read_stmts_' = [k \in DOMAIN read_stmts_ \cup {key} |-> IF k = key THEN sql ELSE read_stmts_[k]]
    BY <1>5, <1>7, <2>1 DEF Create
  <2>3. ASSUME NEW k \in DOMAIN read_stmts_'
        PROVE  \E r \in AllAskings : Key(Meant(r)) = k /\ read_stmts_'[k] = Sql(Meant(r))
    <3>1. CASE k = key
      BY <1>3, <1>4, <2>1, <2>2, <3>1
    <3>2. CASE k # key
      <4>1. k \in DOMAIN read_stmts_ /\ read_stmts_'[k] = read_stmts_[k]
        BY <2>2, <2>3, <3>2
      <4>2. QED
        BY <4>1 DEF WorkerInv
    <3>3. QED
      BY <3>1, <3>2
  <2>4. QED
    BY <1>1, <1>2, <1>4, <2>1, <2>2, <2>3 DEF WorkerInv
<1>8. QED
  BY <1>6, <1>7

LEMMA BindWorker ==
  ASSUME PlacesFit(AllAskings), TypeInv, FrozenInv, WorkerInv, Bind
  PROVE  WorkerInv'
<1>1. PICK q \in Pending : q = cur
  BY CurIs DEF Bind
<1>2. PICK given : given = Given(q)
  OBVIOUS
<1>3. MapSeq(LAMBDA m : Assigned(cur, m), Ascending(cur.seqs))
         \o Flat(LAMBDA part : ValuesOf(ListAt(part.params)), PartsNow(cur)) = given
  BY <1>1, <1>2, BindsGiven
<1>4. text = Sql(Meant(q)) /\ key = Key(Meant(q))
  BY <1>1 DEF Bind, WorkerInv
<1>5. PICK n : n = Len(Slots(text))
  OBVIOUS
<1>6. n \in 0..Len(given) /\ Len(given) \in Nat /\ given = [i \in 1..Len(given) |-> given[i]]
  <2>1. PICK a \in AllAskings : Meant(a) = Meant(q) /\ a.seqs = q.seqs /\ a.asked = q.asked
    BY MeantIs
  <2>2. n \in 0..Len(Ascending(q.seqs)) + Len(Flat(ValuesOf, q.asked))
    BY <1>4, <1>5, <2>1 DEF PlacesFit
  <2>3. q.seqs \in SUBSET Members /\ q.asked \in Seq(Lists)
    BY PendingTyped DEF TypeInv, RequestTypes
  <2>4. QED
    BY <1>2, <2>2, <2>3, GivenIs
<1>7. CASE Len(given) > n
  <2>1. /\ read_stmts_' = [k \in DOMAIN read_stmts_ \ {key} |-> read_stmts_[k]]
        /\ Answer
    BY <1>3, <1>5, <1>7 DEF Bind
  <2>2. \A k \in DOMAIN read_stmts_' : k \in DOMAIN read_stmts_ /\ read_stmts_'[k] = read_stmts_[k]
    BY <2>1
  <2>3. QED
    BY <2>1, <2>2 DEF Answer, WorkerInv
<1>8. CASE ~ (Len(given) > n)
  <2>1. /\ bound' = [i \in 1..n |-> IF i <= Len(given) THEN given[i] ELSE Null]
        /\ pc' = "step" /\ UNCHANGED <<cur, key, read_stmts_, text>>
    BY <1>3, <1>5, <1>8 DEF Bind
  <2>2. n = Len(given)
    BY <1>6, <1>8
  <2>3. bound' = given
    BY <1>6, <2>1, <2>2
  <2>4. QED
    BY <1>1, <1>2, <1>4, <2>1, <2>3 DEF WorkerInv
<1>9. QED
  BY <1>7, <1>8

LEMMA WorkerStep ==
  ASSUME KeysFaithful(AllAskings), PlacesFit(AllAskings), TypeInv, FrozenInv, WorkerInv, [Next]_vars
  PROVE  WorkerInv'
<1>1. CASE UNCHANGED workerVars
  BY <1>1, ClientWorker
<1>2. CASE Take
  BY <1>2, TakeWorker
<1>3. CASE Find
  BY <1>3, FindWorker
<1>4. CASE Create
  BY <1>4, CreateWorker
<1>5. CASE Bind
  BY <1>5, BindWorker
<1>6. CASE Step
  BY <1>6 DEF Step, Answer, WorkerInv
<1>7. CASE \/ OfTheObject \/ Conditions \/ Begins
           \/ \E op \in {"read", "del"} : Read(op)
           \/ Update
           \/ \E b \in 1..Len(builders) : Builds(b)
  <2>1. UNCHANGED workerVars
    BY <1>7 DEF OfTheObject, NewObject, Name, Assign, Conditions, AppendCond, Begins, Begin, Idle,
                Read, Update, HandIn, Builds, UnionRead, Join, Commit, CommitRefused
  <2>2. QED
    BY <2>1, <1>1
<1>8. CASE UNCHANGED vars
  BY <1>1, <1>8 DEF vars
<1>9. QED
  BY <1>2, <1>3, <1>4, <1>5, <1>6, <1>7, <1>8, NextIs DEF TypeInv, Works

(* A client that adds no condition to a list a request shares, nor a part  *)
(* to a builder with a request pending, gets the statement it asked for,   *)
(* with the conditions and the values its object had, although requests    *)
(* copy the hash and the assigned values only (sqlite_event.h:85-88,       *)
(* ref_ops.h:58-63).  The hypotheses are those of the texts: requests that *)
(* share a key share a text, and no text has more places than values.      *)
THEOREM RequestCorrect ==
  ASSUME CondsFrozen, KeysFaithful(AllAskings), PlacesFit(AllAskings)
  PROVE  Spec => []RequestAsHandedIn
<1>1. Init => TypeInv /\ FrozenInv /\ WorkerInv
  BY InitInv, InitFrozen, InitWorker
<1>2. TypeInv /\ FrozenInv /\ WorkerInv /\ [Next]_vars => (TypeInv /\ FrozenInv /\ WorkerInv)'
  BY TypeStep, FrozenStep, WorkerStep
<1>3. TypeInv /\ FrozenInv /\ WorkerInv => RequestAsHandedIn
  BY DEF WorkerInv, RequestAsHandedIn, Given
<1>4. QED
  BY <1>1, <1>2, <1>3, PTL DEF Spec

==============================================================================

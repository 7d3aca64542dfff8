------------------------------ MODULE Rows_proofs ------------------------------
(***************************************************************************)
(* Proofs about Rows, for any structure, results and values, and a client  *)
(* that assigns no new members in copies of objects.                       *)
(***************************************************************************)
EXTENDS Rows, FiniteSetTheorems, SequenceTheorems, WellFoundedInduction, TLAPS

-----------------------------------------------------------------------------
(* Members in their order                                                  *)

(* Each number of S has its place in Ascending(S): its rank, which is       *)
(* another for another number.                                              *)
LEMMA AscendingIs ==
  ASSUME NEW n \in Nat, NEW S, S \subseteq 1..n
  PROVE  /\ IsFiniteSet(S) /\ Cardinality(S) \in Nat
         /\ Ascending(S) \in [1..Cardinality(S) -> S]
         /\ \A x \in S : \E k \in 1..Cardinality(S) : Ascending(S)[k] = x
         /\ \A j, k \in 1..Cardinality(S) : Ascending(S)[j] = Ascending(S)[k] => j = k
<1>1. IsFiniteSet(S) /\ Cardinality(S) \in Nat
  <2>1. IsFiniteSet(1..n)
    BY FS_Interval
  <2>2. IsFiniteSet(S)
    BY <2>1, FS_Subset
  <2>3. QED
    BY <2>2, FS_CardinalityType
<1>2. \A x \in S : x \in Nat
  OBVIOUS
<1>3. PICK c \in Nat : c = Cardinality(S)
  BY <1>1
<1> DEFINE upto(x) == {m \in S : m <= x}
           rank == [x \in S |-> Cardinality(upto(x))]
<1>4. \A x \in S : IsFiniteSet(upto(x)) /\ Cardinality(upto(x)) \in 1..c
  <2> SUFFICES ASSUME NEW x \in S PROVE IsFiniteSet(upto(x)) /\ Cardinality(upto(x)) \in 1..c
    OBVIOUS
  <2>1. upto(x) \in SUBSET S /\ upto(x) # {}
    BY <1>2
  <2>2. IsFiniteSet(upto(x)) /\ Cardinality(upto(x)) <= c
    BY <1>1, <1>3, <2>1, FS_Subset
  <2>3. Cardinality(upto(x)) \in Nat /\ Cardinality(upto(x)) # 0
    BY <2>1, <2>2, FS_CardinalityType, FS_EmptySet
  <2>4. QED
    BY <2>2, <2>3
<1>5. \A x, y \in S : x < y => Cardinality(upto(x)) # Cardinality(upto(y))
  <2> SUFFICES ASSUME NEW x \in S, NEW y \in S, x < y, Cardinality(upto(y)) = Cardinality(upto(x)) PROVE FALSE
    OBVIOUS
  <2>1. upto(x) \in SUBSET upto(y) /\ y \in upto(y) /\ y \notin upto(x)
    <3>1. x \in Nat /\ y \in Nat /\ y <= y /\ ~ (y <= x)
      BY <1>2
    <3>2. \A m \in S : m <= x => m <= y
      BY <1>2, <3>1
    <3>3. QED
      BY <3>1, <3>2
  <2>2. upto(y) = upto(x)
    BY <1>4, <2>1, FS_Subset
  <2>3. QED
    BY <2>1, <2>2
<1>6. rank \in [S -> 1..c] /\ \A x, y \in S : rank[x] = rank[y] => x = y
  <2>1. rank \in [S -> 1..c]
    BY <1>4
  <2>2. \A x, y \in S : x < y \/ y < x \/ x = y
    BY <1>2
  <2>3. QED
    BY <1>5, <2>1, <2>2
<1>7. \A k \in 1..c : \E x \in S : rank[x] = k
  <2>1. rank \in Injection(S, 1..c)
    BY <1>6 DEF Injection, IsInjective
  <2>2. IsFiniteSet(1..c) /\ Cardinality(1..c) = c
    BY FS_Interval
  <2>3. rank \in Surjection(S, 1..c)
    BY <1>3, <2>1, <2>2, FS_Injection
  <2>4. QED
    BY <2>3 DEF Surjection
<1>8. \A x \in S : rank[x] = Cardinality({m \in S : m <= x})
  OBVIOUS
<1> HIDE DEF rank
<1>9. /\ Ascending(S) \in [1..c -> S]
      /\ \A k \in 1..c : rank[Ascending(S)[k]] = k
  <2>1. \A k \in 1..c : /\ (CHOOSE x \in S : Cardinality({m \in S : m <= x}) = k) \in S
                        /\ rank[CHOOSE x \in S : Cardinality({m \in S : m <= x}) = k] = k
    <3> TAKE k \in 1..c
    <3>1. \E x \in S : Cardinality({m \in S : m <= x}) = k
      BY <1>7, <1>8
    <3>2. PICK x : x = CHOOSE y \in S : Cardinality({m \in S : m <= y}) = k
      OBVIOUS
    <3>3. x \in S /\ Cardinality({m \in S : m <= x}) = k
      BY <3>1, <3>2
    <3>4. QED
      BY <1>8, <3>2, <3>3
  <2>2. Ascending(S) = [k \in 1..c |-> CHOOSE x \in S : Cardinality({m \in S : m <= x}) = k]
    BY <1>3 DEF Ascending
  <2>3. QED
    BY <2>1, <2>2
<1>10. \A x \in S : \E k \in 1..c : Ascending(S)[k] = x
  <2> TAKE x \in S
  <2>1. rank[x] \in 1..c
    BY <1>6
  <2>2. Ascending(S)[rank[x]] \in S /\ rank[Ascending(S)[rank[x]]] = rank[x]
    BY <1>9, <2>1
  <2>3. Ascending(S)[rank[x]] = x
    BY <1>6, <2>2
  <2>4. QED
    BY <2>1, <2>3
<1>11. QED
  BY <1>1, <1>3, <1>9, <1>10

(* The members of a set, each once.                                         *)
LEMMA InOrderIs ==
  ASSUME NEW T, T \subseteq Members
  PROVE  /\ IsFiniteSet(T) /\ Cardinality(T) \in Nat
         /\ InOrder(T) \in Seq(T) /\ Len(InOrder(T)) = Cardinality(T)
         /\ \A m \in T : \E k \in 1..Cardinality(T) : InOrder(T)[k] = m
         /\ \A j, k \in 1..Cardinality(T) : InOrder(T)[j] = InOrder(T)[k] => j = k
<1>1. PICK n \in Nat : n = Len(Order) /\ Order \in [1..n -> Members]
  BY OrderAssumption, LenProperties
<1>2. PICK P : P = {i \in 1..n : Order[i] \in T}
  OBVIOUS
<1>3. P \subseteq 1..n
  BY <1>2
<1>4. PICK c, at : c = Cardinality(P) /\ at = Ascending(P)
  OBVIOUS
<1>5. /\ IsFiniteSet(P) /\ c \in Nat /\ at \in [1..c -> P]
      /\ \A x \in P : \E k \in 1..c : at[k] = x
      /\ \A j, k \in 1..c : at[j] = at[k] => j = k
  BY <1>3, <1>4, AscendingIs
<1>6. Len(at) = c
  BY <1>5
<1>7. InOrder(T) = [k \in 1..c |-> Order[at[k]]]
  BY <1>1, <1>2, <1>4, <1>6 DEF InOrder
<1>8. \A i, j \in 1..n : Order[i] = Order[j] => i = j
  BY <1>1, OrderAssumption DEF IsInjective
<1>9. \A m \in T : \E i \in P : Order[i] = m
  BY <1>1, <1>2 DEF Members, Range
<1>10. IsFiniteSet(T) /\ Cardinality(T) = c
  <2>1. PICK f : f = [i \in P |-> Order[i]]
    OBVIOUS
  <2>2. f \in [P -> T] /\ (\A i, j \in P : f[i] = f[j] => i = j) /\ \A m \in T : \E i \in P : f[i] = m
    BY <1>2, <1>3, <1>8, <1>9, <2>1
  <2>3. f \in Bijection(P, T)
    BY <2>2 DEF Bijection, Injection, Surjection, IsInjective
  <2>4. QED
    BY <1>4, <1>5, <2>3, FS_Bijection DEF ExistsBijection
<1>11. InOrder(T) \in [1..c -> T]
  BY <1>2, <1>5, <1>7
<1>12. InOrder(T) \in Seq(T) /\ Len(InOrder(T)) = c
  BY <1>5, <1>11
<1>13. \A m \in T : \E k \in 1..c : InOrder(T)[k] = m
  BY <1>5, <1>7, <1>9
<1>14. \A j, k \in 1..c : InOrder(T)[j] = InOrder(T)[k] => j = k
  BY <1>2, <1>3, <1>5, <1>7, <1>8
<1>15. QED
  BY <1>5, <1>10, <1>12, <1>13, <1>14

-----------------------------------------------------------------------------
(* Sequences of sequences.  FlattenSeq is a recursive function of the       *)
(* number of sequences; what is said of it for all numbers is said of the   *)
(* least number it is not true of.                                          *)

\* A set of numbers has a least one.
LEMMA NatMin ==
  ASSUME NEW T, T \subseteq Nat, T # {}
  PROVE  \E x \in T : \A y \in T : x <= y
<1>1. PICK R : R = OpToRel(<, Nat)
  OBVIOUS
<1>2. IsWellFoundedOn(R, Nat)
  BY <1>1, NatLessThanWellFounded
<1>3. \A x, y \in Nat : <<x, y>> \in R <=> x < y
  BY <1>1 DEF OpToRel
<1>4. PICK x \in T : \A y \in T : ~ (<<y, x>> \in R)
  BY <1>2, WFMin
<1>5. \A y \in T : x \in Nat /\ y \in Nat /\ ~ (y < x)
  BY <1>3, <1>4
<1>6. \A y \in T : x <= y
  BY <1>5
<1>7. QED
  BY <1>6

IsFlatten(f, n, s) == f = [i \in 1..n |-> IF i = 1 THEN s[i] ELSE f[i - 1] \o s[i]]

\* There is such a function.
LEMMA FlattenExists ==
  ASSUME NEW n \in Nat, NEW s
  PROVE  \E f : IsFlatten(f, n, s)
<1> DEFINE Bad == {m \in Nat : ~ \E f : IsFlatten(f, m, s)}
<1> SUFFICES ASSUME Bad # {} PROVE FALSE
  OBVIOUS
<1>1. PICK m \in Bad : \A k \in Bad : m <= k
  BY NatMin
<1>2. CASE m = 0
  <2>1. IsFlatten([i \in 1..0 |-> <<>>], 0, s)
    BY DEF IsFlatten
  <2>2. QED
    BY <1>1, <1>2, <2>1
<1>3. CASE m # 0
  <2>1. m \in Nat /\ m - 1 \in Nat /\ ~ (m <= m - 1) /\ m \notin 1..m - 1
    BY <1>1, <1>3
  <2>2. PICK f : IsFlatten(f, m - 1, s)
    <3>1. m - 1 \notin Bad
      BY <1>1, <2>1
    <3>2. QED
      BY <2>1, <3>1, Zenon
  <2>3. \A k \in 1..m - 1 : f[k] = IF k = 1 THEN s[k] ELSE f[k - 1] \o s[k]
    BY <2>2 DEF IsFlatten
  <2>4. PICK g : g = [k \in 1..m |-> IF k = m THEN IF m = 1 THEN s[m] ELSE f[m - 1] \o s[m] ELSE f[k]]
    OBVIOUS
  <2>5. /\ \A k \in 1..m - 1 : g[k] = f[k]
        /\ g[m] = IF m = 1 THEN s[m] ELSE f[m - 1] \o s[m]
    <3>1. m \in 1..m /\ \A k \in 1..m - 1 : k \in 1..m /\ k # m
      BY <1>3, <2>1
    <3>2. QED
      BY <2>4, <3>1
  <2>6. \A k \in 1..m : g[k] = IF k = 1 THEN s[k] ELSE g[k - 1] \o s[k]
    <3> SUFFICES ASSUME NEW k \in 1..m PROVE g[k] = IF k = 1 THEN s[k] ELSE g[k - 1] \o s[k]
      OBVIOUS
    <3>1. CASE k = 1
      <4>1. k = m \/ k \in 1..m - 1
        BY <2>1
      <4>2. QED
        BY <2>3, <2>5, <3>1, <4>1
    <3>2. CASE k # 1
      <4>1. k - 1 \in 1..m - 1 /\ (k = m \/ k \in 1..m - 1)
        BY <2>1, <3>2
      <4>2. g[k - 1] = f[k - 1]
        BY <2>5, <4>1
      <4>3. g[k] = f[k - 1] \o s[k]
        BY <2>3, <2>5, <3>2, <4>1
      <4>4. QED
        BY <3>2, <4>2, <4>3
    <3>3. QED
      BY <3>1, <3>2
  <2>7. g = [k \in 1..m |-> g[k]]
    BY <2>4
  <2>8. IsFlatten(g, m, s)
    BY <2>6, <2>7 DEF IsFlatten
  <2>9. QED
    BY <1>1, <2>8
<1>4. QED
  BY <1>2, <1>3

LEMMA FlattenFunction ==
  ASSUME NEW T, NEW s \in Seq(T), Len(s) # 0
  PROVE  \E f : /\ FlattenSeq(s) = f[Len(s)]
                /\ \A k \in 1..Len(s) : f[k] = IF k = 1 THEN s[k] ELSE f[k - 1] \o s[k]
<1>1. PICK n \in Nat : n = Len(s)
  BY LenProperties
<1>2. FlattenSeq(s) = (CHOOSE f : IsFlatten(f, Len(s), s))[Len(s)]
  BY DEF FlattenSeq, IsFlatten
<1>3. PICK f : f = CHOOSE g : IsFlatten(g, n, s)
  OBVIOUS
<1>4. IsFlatten(f, n, s)
  BY <1>3, FlattenExists, Zenon
<1>5. \A k \in 1..n : f[k] = IF k = 1 THEN s[k] ELSE f[k - 1] \o s[k]
  BY <1>4 DEF IsFlatten
<1>6. FlattenSeq(s) = f[Len(s)] /\ \A k \in 1..Len(s) : f[k] = IF k = 1 THEN s[k] ELSE f[k - 1] \o s[k]
  BY <1>1, <1>2, <1>3, <1>5
<1>7. QED
  BY <1>6, Zenon

\* The sequences of s, one behind another: of what they are made, and how long
\* that is depends only on how long they are.
LEMMA FlattenIs ==
  ASSUME NEW T, NEW s \in Seq(Seq(T)), NEW U, NEW u \in Seq(Seq(U)),
         Len(u) = Len(s), \A i \in 1..Len(s) : Len(u[i]) = Len(s[i])
  PROVE  /\ FlattenSeq(s) \in Seq(T) /\ FlattenSeq(u) \in Seq(U)
         /\ Len(FlattenSeq(u)) = Len(FlattenSeq(s))
<1>1. PICK n \in Nat : n = Len(s)
  BY LenProperties
<1>2. CASE n = 0
  <2>1. s = <<>> /\ u = <<>>
    BY <1>1, <1>2, EmptySeq
  <2>2. FlattenSeq(<<>>) = <<>>
    BY EmptySeq DEF FlattenSeq
  <2>3. QED
    BY <2>1, <2>2, EmptySeq
<1>3. CASE n # 0
  <2>1. PICK f : /\ FlattenSeq(s) = f[n]
                 /\ \A k \in 1..n : f[k] = IF k = 1 THEN s[k] ELSE f[k - 1] \o s[k]
    <3>1. Len(s) # 0 /\ Len(s) = n
      BY <1>1, <1>3
    <3>2. \E h : /\ FlattenSeq(s) = h[Len(s)]
                 /\ \A k \in 1..Len(s) : h[k] = IF k = 1 THEN s[k] ELSE h[k - 1] \o s[k]
      BY <3>1, FlattenFunction
    <3>3. QED
      BY <3>1, <3>2
  <2>2. PICK g : /\ FlattenSeq(u) = g[n]
                 /\ \A k \in 1..n : g[k] = IF k = 1 THEN u[k] ELSE g[k - 1] \o u[k]
    <3>1. Len(u) # 0 /\ Len(u) = n
      BY <1>1, <1>3
    <3>2. \E h : /\ FlattenSeq(u) = h[Len(u)]
                 /\ \A k \in 1..Len(u) : h[k] = IF k = 1 THEN u[k] ELSE h[k - 1] \o u[k]
      BY <3>1, FlattenFunction
    <3>3. QED
      BY <3>1, <3>2
  <2>3. \A i \in 1..n : s[i] \in Seq(T) /\ u[i] \in Seq(U) /\ Len(u[i]) = Len(s[i])
    BY <1>1, ElementOfSeq
  <2> DEFINE Good(k) == f[k] \in Seq(T) /\ g[k] \in Seq(U) /\ Len(f[k]) = Len(g[k])
             Bad == {k \in 1..n : ~Good(k)}
  <2>4. Bad = {}
    <3> SUFFICES ASSUME Bad # {} PROVE FALSE
      OBVIOUS
    <3>1. Bad \subseteq Nat
      OBVIOUS
    <3>2. PICK k \in Bad : \A m \in Bad : k <= m
      BY <3>1, NatMin
    <3>3. k \in 1..n /\ ~Good(k)
      BY <3>2
    <3>4. CASE k = 1
      BY <2>1, <2>2, <2>3, <3>3, <3>4
    <3>5. CASE k # 1
      <4>1. k - 1 \in 1..n /\ ~ (k <= k - 1)
        BY <3>3, <3>5
      <4>2. Good(k - 1)
        BY <3>2, <4>1
      <4>3. PICK a, b, c, d : a = f[k - 1] /\ b = s[k] /\ c = g[k - 1] /\ d = u[k]
        OBVIOUS
      <4>4. a \in Seq(T) /\ b \in Seq(T) /\ c \in Seq(U) /\ d \in Seq(U) /\ Len(a) = Len(c) /\ Len(b) = Len(d)
        BY <2>3, <3>3, <4>2, <4>3
      <4>5. a \o b \in Seq(T) /\ c \o d \in Seq(U) /\ Len(a \o b) = Len(c \o d)
        <5>1. a \o b \in Seq(T) /\ Len(a \o b) = Len(a) + Len(b)
          BY <4>4, ConcatProperties
        <5>2. c \o d \in Seq(U) /\ Len(c \o d) = Len(c) + Len(d)
          BY <4>4, ConcatProperties
        <5>3. QED
          BY <4>4, <5>1, <5>2
      <4>6. f[k] = a \o b /\ g[k] = c \o d
        BY <2>1, <2>2, <3>3, <3>5, <4>3
      <4>7. QED
        BY <3>3, <4>5, <4>6
    <3>6. QED
      BY <3>4, <3>5
  <2>5. n \in 1..n
    BY <1>1, <1>3
  <2>6. Good(n)
    BY <2>4, <2>5, Zenon
  <2>7. QED
    BY <2>1, <2>2, <2>6
<1>4. QED
  BY <1>2, <1>3

-----------------------------------------------------------------------------
(* The invariant                                                           *)

\* The members whose columns are NOT NULL.
Own == Members \ AutoIncrement

RowTypes == [Members -> Values \cup {Null}]
EntityTypes == [Members -> Values \cup {Null, Zero}]

\* A row without NULL where none may be.
Whole == {row \in RowTypes : \A m \in Own : row[m] # Null}

ObjTypes == [value : EntityTypes, flag : SUBSET Members, seqset : SUBSET Members, home : Nat]

\* An object among n has noted the number of each member it has a value of, and
\* a fetched object has noted none.
Sound(x, n) == /\ x.home \in 0..n
               /\ x.seqset \subseteq Own
               /\ x.home = Gone => x.seqset = {}
               /\ x.home # Gone => x.seqset = x.flag
               /\ \A m \in x.seqset : x.value[m] \in Values

ObjInv == /\ objs \in Seq(ObjTypes)
          /\ \A o \in Objects : Sound(objs[o], Len(objs))

TableInv == /\ exists \in BOOLEAN
            /\ table \in Seq(Whole)
            /\ want = table

\* What of Executes the text alone decides.
Fits(text) ==
    text # NoText =>
       /\ \A i \in 1..Len(text.values) : Len(text.values[i]) = Len(text.fields)
       /\ \A m \in Members : m \in Range(text.fields) \/ CanBeNull(m)

\* The rows of a text that can execute are the entities handed in.
WriteInv ==
    request.op = "write" =>
       /\ request.entities \in Seq(Seq(EntityTypes))
       /\ Len(request.texts) = Len(request.entities)
       /\ request.count = Len(FlattenSeq(request.entities))
       /\ \A i \in 1..Len(request.entities) :
             Fits(request.texts[i]) => /\ request.entities[i] \in Seq(Whole)
                                       /\ RowsOf(request.texts[i]) = request.entities[i]

UpdateInv ==
    request.op = "update" =>
       /\ DOMAIN request.set \subseteq Own
       /\ \A m \in DOMAIN request.set : request.set[m] \in Values /\ request.entity[m] = request.set[m]
       /\ DOMAIN request.set # {} =>
             \A m \in Members \ DOMAIN request.set : request.entity[m] = Null

OtherInv == /\ request.op \in {"read", "read_one"} => request.fields \in Results
            /\ request.op \in {"count", "del"} => request.mem \in Own

RequestInv == WriteInv /\ UpdateInv /\ OtherInv

Inv == ObjInv /\ TableInv /\ RequestInv /\ AnswerCountsRows

-----------------------------------------------------------------------------
(* Objects                                                                 *)

LEMMA NullIs == Null \notin Values /\ Null # Zero
BY NullAssumption

LEMMA SetsOfMembers ==
  /\ Own \subseteq Members /\ AutoIncrement \subseteq Members
  /\ \A m \in Members : m \in Own <=> m \notin AutoIncrement
BY OrderAssumption DEF Own

LEMMA FieldsAre ==
  ASSUME NEW fields \in Results
  PROVE  /\ fields \in Seq(Members) /\ Range(fields) \subseteq Members
         /\ \A m \in Range(fields) :
               /\ (CHOOSE k \in 1..Len(fields) : fields[k] = m) \in 1..Len(fields)
               /\ fields[CHOOSE k \in 1..Len(fields) : fields[k] = m] = m
<1>1. fields \in Seq(Members) /\ DOMAIN fields = 1..Len(fields)
  BY ResultsAssumption, LenProperties
<1>2. \A k \in 1..Len(fields) : fields[k] \in Members
  BY <1>1, ElementOfSeq
<1>3. \A m \in Range(fields) : \E k \in 1..Len(fields) : fields[k] = m
  BY <1>1 DEF Range
<1>4. QED
  BY <1>1, <1>2, <1>3

LEMMA BlankIs ==
  ASSUME NEW h \in Nat
  PROVE  /\ Blank(h) \in ObjTypes
         /\ Blank(h).value = [m \in Members |-> Null] /\ Blank(h).flag = {}
         /\ Blank(h).seqset = {} /\ Blank(h).home = h
         /\ \A n \in Nat : h <= n => Sound(Blank(h), n)
BY DEF Blank, ObjTypes, EntityTypes, Sound

LEMMA FetchedIs ==
  ASSUME NEW fields \in Results, NEW row \in RowTypes
  PROVE  /\ Fetched(fields, row) \in ObjTypes
         /\ Fetched(fields, row).flag = Range(fields)
         /\ \A m \in Range(fields) :
               Fetched(fields, row).value[m] = IF row[m] = Null THEN Zero ELSE row[m]
         /\ \A n \in Nat : Sound(Fetched(fields, row), n)
<1>1. PICK value : value = [m \in Members |->
                      IF m \in Range(fields)
                      THEN Column(fields, row, CHOOSE k \in 1..Len(fields) : fields[k] = m) ELSE Null]
  OBVIOUS
<1>2. \A m \in Range(fields) : m \in Members /\ value[m] = IF row[m] = Null THEN Zero ELSE row[m]
  BY <1>1, FieldsAre DEF Column
<1>3. value \in EntityTypes
  <2>1. \A m \in Members : value[m] \in Values \cup {Null, Zero}
    <3>1. \A m \in Members : row[m] \in Values \cup {Null}
      BY DEF RowTypes
    <3>2. \A m \in Members : m \notin Range(fields) => value[m] = Null
      BY <1>1
    <3>3. QED
      BY <1>2, <3>1, <3>2
  <2>2. value = [m \in Members |-> value[m]]
    BY <1>1
  <2>3. QED
    BY <2>1, <2>2 DEF EntityTypes
<1>4. Range(fields) \subseteq Members
  BY FieldsAre
<1>5. Fetched(fields, row) = [Blank(Gone) EXCEPT !.flag = Range(fields), !.value = value]
  BY <1>1 DEF Fetched
<1>6. Fetched(fields, row) = [value |-> value, flag |-> Range(fields), seqset |-> {}, home |-> Gone]
  BY <1>5 DEF Blank
<1>7. QED
  BY <1>2, <1>3, <1>4, <1>6 DEF ObjTypes, Sound, Gone

LEMMA ObjectsAre ==
  ASSUME ObjInv
  PROVE  /\ Len(objs) \in Nat /\ Objects = 1..Len(objs)
         /\ \A o \in Objects : /\ objs[o] \in ObjTypes /\ Sound(objs[o], Len(objs))
                               /\ objs[o].value \in EntityTypes /\ objs[o].flag \subseteq Members
                               /\ objs[o].seqset \subseteq Own /\ objs[o].seqset \subseteq Members
                               /\ objs[o].home \in Nat
                               /\ objs[o].seqset \subseteq objs[o].flag
                               /\ objs[o].seqset # {} => objs[o].seqset = objs[o].flag
<1>1. objs \in Seq(ObjTypes) /\ Len(objs) \in Nat
  BY LenProperties DEF ObjInv
<1>2. \A o \in Objects : objs[o] \in ObjTypes /\ Sound(objs[o], Len(objs))
  BY <1>1, ElementOfSeq DEF ObjInv, Objects
<1>3. QED
  BY <1>1, <1>2 DEF ObjTypes, Sound, Objects

\* More objects do not make the others unsound.
LEMMA SoundAmongMore ==
  ASSUME NEW x, NEW n \in Nat, NEW k \in Nat, n <= k, Sound(x, n)
  PROVE  Sound(x, k)
BY DEF Sound

LEMMA EntityIs ==
  ASSUME ObjInv, NEW o \in Objects
  PROVE  /\ Entity(o) \in EntityTypes
         /\ \A m \in objs[o].seqset : Entity(o)[m] = objs[o].value[m] /\ Entity(o)[m] \in Values
         /\ objs[o].seqset # {} => \A m \in Members \ objs[o].seqset : Entity(o)[m] = Null
<1>1. PICK x : x = objs[o]
  OBVIOUS
<1>2. /\ x.value \in [Members -> Values \cup {Null, Zero}] /\ x.seqset \subseteq x.flag /\ x.seqset \subseteq Members
      /\ x.seqset # {} => x.seqset = x.flag
      /\ \A m \in x.seqset : x.value[m] \in Values
  BY <1>1, ObjectsAre DEF Sound, EntityTypes
<1>3. Entity(o) = [m \in Members |-> IF m \in x.flag THEN x.value[m] ELSE Null]
  BY <1>1 DEF Entity
<1>4. Entity(o) \in EntityTypes
  BY <1>2, <1>3 DEF EntityTypes
<1>5. QED
  BY <1>1, <1>2, <1>3, <1>4

-----------------------------------------------------------------------------
(* Texts                                                                   *)

LEMMA AssignedIs ==
  ASSUME ObjInv, NEW o \in Objects
  PROVE  Assigned(o) = InOrder(objs[o].seqset)
<1>1. objs[o].seqset \cap objs[o].flag = objs[o].seqset
  BY ObjectsAre
<1>2. QED
  BY <1>1 DEF Assigned

\* The fields of a text of objects, and how many values each row has.
LEMMA InsertTextIs ==
  ASSUME ObjInv, NEW list \in Seq(Objects), list # <<>>, Assigned(list[1]) # <<>>,
         Fits(InsertText(list))
  PROVE  Own # {} /\ \A i \in 1..Len(list) : objs[list[i]].seqset = Own
<1>1. PICK n \in Nat : n = Len(list) /\ n # 0
  BY LenProperties, EmptySeq
<1>2. \A i \in 1..n : list[i] \in Objects
  BY <1>1, ElementOfSeq
<1>3. \A i \in 1..n : /\ objs[list[i]].seqset \subseteq Own /\ objs[list[i]].seqset \subseteq Members
                      /\ Assigned(list[i]) = InOrder(objs[list[i]].seqset)
  BY <1>2, ObjectsAre, AssignedIs
<1>4. \A i \in 1..n : /\ IsFiniteSet(objs[list[i]].seqset)
                      /\ Len(Assigned(list[i])) = Cardinality(objs[list[i]].seqset)
                      /\ Len(Assigned(list[i])) \in Nat
  BY <1>3, InOrderIs
<1>5. PICK fields, values : /\ fields = Assigned(list[1])
                            /\ values = [i \in 1..n |->
                                 [k \in 1..Len(Assigned(list[i])) |-> objs[list[i]].value[Assigned(list[i])[k]]]]
  OBVIOUS
<1>6. InsertText(list) = [fields |-> fields, values |-> values]
  BY <1>1, <1>5 DEF InsertText
<1>7. InsertText(list) # NoText
  BY <1>5, <1>6 DEF NoText
<1>8. 1 \in 1..n
  BY <1>1
<1>9. Len(values) = n
  BY <1>1, <1>5
<1>10. \A i \in 1..n : Len(values[i]) = Len(Assigned(list[i]))
  BY <1>4, <1>5
<1>11. /\ \A i \in 1..n : Len(values[i]) = Len(fields)
       /\ \A m \in Members : m \in Range(fields) \/ m \in AutoIncrement
  BY <1>6, <1>7, <1>9 DEF Fits, CanBeNull
<1>12. Range(fields) \subseteq objs[list[1]].seqset
  <2>1. fields \in Seq(objs[list[1]].seqset)
    BY <1>3, <1>5, <1>8, InOrderIs
  <2>2. DOMAIN fields = 1..Len(fields) /\ \A k \in 1..Len(fields) : fields[k] \in objs[list[1]].seqset
    BY <2>1, LenProperties, ElementOfSeq
  <2>3. QED
    BY <2>2 DEF Range
<1>13. objs[list[1]].seqset = Own
  BY <1>3, <1>8, <1>11, <1>12, SetsOfMembers
<1>14. Own # {}
  <2>1. InOrder(Own) \in Seq(Own) /\ fields = InOrder(Own) /\ fields # <<>>
    BY <1>3, <1>5, <1>8, <1>13, SetsOfMembers, InOrderIs
  <2>2. QED
    BY <2>1, EmptySeq
<1> SUFFICES ASSUME NEW i \in 1..Len(list) PROVE objs[list[i]].seqset = Own
  BY <1>14
<1>15. i \in 1..n
  BY <1>1
<1>16. PICK T : T = objs[list[i]].seqset
  OBVIOUS
<1>17. T \in SUBSET Own /\ IsFiniteSet(Own)
  BY <1>3, <1>4, <1>8, <1>13, <1>15, <1>16
<1>18. Cardinality(T) = Cardinality(Own)
  <2>1. Cardinality(T) = Len(Assigned(list[i]))
    BY <1>4, <1>15, <1>16
  <2>2. Cardinality(Own) = Len(Assigned(list[1]))
    BY <1>4, <1>8, <1>13
  <2>3. Len(Assigned(list[i])) = Len(Assigned(list[1]))
    BY <1>5, <1>10, <1>11, <1>15
  <2>4. QED
    BY <2>1, <2>2, <2>3
<1>19. T = Own
  BY <1>17, <1>18, FS_Subset
<1>20. QED
  BY <1>16, <1>19

\* A text whose objects have all members assigned gives their entities.
LEMMA RowsAre ==
  ASSUME ObjInv, NEW list \in Seq(Objects), list # <<>>,
         Own # {}, \A i \in 1..Len(list) : objs[list[i]].seqset = Own
  PROVE  /\ RowsOf(InsertText(list)) = [k \in 1..Len(list) |-> Entity(list[k])]
         /\ [k \in 1..Len(list) |-> Entity(list[k])] \in Seq(Whole)
<1>1. PICK n \in Nat : n = Len(list) /\ n # 0
  BY LenProperties, EmptySeq
<1>2. \A i \in 1..n : list[i] \in Objects /\ objs[list[i]].seqset = Own
  BY <1>1, ElementOfSeq
<1>3. \A i \in 1..n : Assigned(list[i]) = InOrder(Own)
  BY <1>2, AssignedIs
<1>4. PICK fields, len : fields = InOrder(Own) /\ len = Len(fields)
  OBVIOUS
<1>5. len \in Nat /\ fields \in Seq(Own) /\ \A m \in Own : \E k \in 1..len : fields[k] = m
  BY <1>4, SetsOfMembers, InOrderIs
<1>6. Range(fields) = Own
  <2>1. DOMAIN fields = 1..len /\ \A k \in 1..len : fields[k] \in Own
    BY <1>4, <1>5, LenProperties, ElementOfSeq
  <2>2. QED
    BY <1>5, <2>1 DEF Range
<1>7. PICK values : values = [i \in 1..n |-> [k \in 1..len |-> objs[list[i]].value[fields[k]]]]
  OBVIOUS
<1>8. InsertText(list) = [fields |-> fields, values |-> values]
  <2>1. 1 \in 1..n
    BY <1>1
  <2>2. Assigned(list[1]) = fields /\ \A i \in 1..n : Assigned(list[i]) = fields
    BY <1>3, <1>4, <2>1
  <2>3. values = [i \in 1..n |->
                    [k \in 1..Len(Assigned(list[i])) |-> objs[list[i]].value[Assigned(list[i])[k]]]]
    BY <1>4, <1>7, <2>2
  <2>4. QED
    BY <1>1, <2>2, <2>3 DEF InsertText
<1>9. Len(values) = n
  BY <1>7
<1>10. RowsOf(InsertText(list)) = [i \in 1..n |-> [m \in Members |-> ValueAt(fields, values[i], m)]]
  BY <1>8, <1>9 DEF RowsOf
<1>11. \A i \in 1..n : /\ [m \in Members |-> ValueAt(fields, values[i], m)] = Entity(list[i])
                       /\ Entity(list[i]) \in Whole
  <2> TAKE i \in 1..n
  <2>1. PICK o \in Objects : o = list[i] /\ objs[o].seqset = Own
    BY <1>2
  <2>2. /\ Entity(o) \in EntityTypes
        /\ \A m \in Own : Entity(o)[m] = objs[o].value[m] /\ Entity(o)[m] \in Values
    BY <2>1, EntityIs
  <2>3. \A m \in Members \ Own : Entity(o)[m] = Null
    BY <2>1, EntityIs
  <2>4. \A m \in Own : ValueAt(fields, values[i], m) = Entity(o)[m]
    <3> TAKE m \in Own
    <3>1. PICK k : k = CHOOSE j \in 1..len : fields[j] = m
      OBVIOUS
    <3>2. k \in 1..len /\ fields[k] = m
      BY <1>5, <3>1
    <3>3. ValueAt(fields, values[i], m) = values[i][k]
      BY <1>4, <1>6, <3>1 DEF ValueAt
    <3>4. values[i][k] = objs[o].value[m]
      BY <1>7, <2>1, <3>2
    <3>5. QED
      BY <2>2, <3>3, <3>4
  <2>5. \A m \in Members \ Own : ValueAt(fields, values[i], m) = Null
    BY <1>6 DEF ValueAt
  <2>6. \A m \in Members : ValueAt(fields, values[i], m) = Entity(o)[m]
    BY <2>3, <2>4, <2>5
  <2>7. Entity(o) = [m \in Members |-> Entity(o)[m]]
    BY <2>2 DEF EntityTypes
  <2>8. [m \in Members |-> ValueAt(fields, values[i], m)] = Entity(o)
    BY <2>6, <2>7
  <2>9. Entity(o) \in Whole
    <3>1. \A m \in Members : Entity(o)[m] \in Values \cup {Null}
      BY <2>2, <2>3
    <3>2. \A m \in Own : Entity(o)[m] # Null
      BY <2>2, NullIs
    <3>3. QED
      BY <2>7, <3>1, <3>2 DEF Whole, RowTypes
  <2>10. QED
    BY <2>1, <2>8, <2>9
<1>12. RowsOf(InsertText(list)) = [i \in 1..n |-> Entity(list[i])]
  BY <1>10, <1>11
<1>13. [i \in 1..n |-> Entity(list[i])] \in Seq(Whole)
  <2>1. PICK g : g = [i \in 1..n |-> Entity(list[i])]
    OBVIOUS
  <2>2. \A i \in 1..n : g[i] \in Whole
    BY <1>11, <2>1
  <2>3. g = [i \in 1..n |-> g[i]]
    BY <2>1
  <2>4. g \in Seq(Whole)
    BY <2>2, <2>3
  <2>5. QED
    BY <2>1, <2>4
<1>14. QED
  BY <1>1, <1>12, <1>13

-----------------------------------------------------------------------------
(* The client's objects                                                    *)

LEMMA AddOne ==
  ASSUME ObjInv, NEW x \in ObjTypes, Sound(x, Len(objs) + 1), objs' = Append(objs, x)
  PROVE  ObjInv'
<1>1. PICK s : s = objs
  OBVIOUS
<1>2. PICK n \in Nat : n = Len(s)
  BY <1>1, LenProperties DEF ObjInv
<1>3. s \in Seq(ObjTypes) /\ \A o \in 1..n : Sound(s[o], n)
  BY <1>1, <1>2 DEF ObjInv, Objects
<1>4. PICK t : t = objs'
  OBVIOUS
<1>5. t \in Seq(ObjTypes) /\ Len(t) = n + 1 /\ t[n + 1] = x /\ \A o \in 1..n : t[o] = s[o]
  BY <1>1, <1>2, <1>3, <1>4, AppendProperties
<1>6. \A o \in 1..n + 1 : o \in 1..n \/ o = n + 1
  OBVIOUS
<1>7. n + 1 \in Nat /\ n <= n + 1
  OBVIOUS
<1>8. \A o \in 1..n : Sound(t[o], n + 1)
  BY <1>3, <1>5, <1>7, SoundAmongMore
<1>9. \A o \in 1..n + 1 : Sound(t[o], n + 1)
  BY <1>1, <1>2, <1>5, <1>6, <1>8
<1>10. QED
  BY <1>4, <1>5, <1>9 DEF ObjInv, Objects

LEMMA AddMany ==
  ASSUME ObjInv, NEW u \in Seq(ObjTypes), \A k \in 1..Len(u) : Sound(u[k], Len(objs) + Len(u)),
         objs' = objs \o u
  PROVE  ObjInv'
<1>1. PICK s : s = objs
  OBVIOUS
<1>2. PICK n \in Nat, j \in Nat : n = Len(s) /\ j = Len(u)
  BY <1>1, LenProperties DEF ObjInv
<1>3. s \in Seq(ObjTypes) /\ \A o \in 1..n : Sound(s[o], n)
  BY <1>1, <1>2 DEF ObjInv, Objects
<1>4. PICK t : t = objs'
  OBVIOUS
<1>5. t \in Seq(ObjTypes) /\ Len(t) = n + j
  BY <1>1, <1>2, <1>3, <1>4, ConcatProperties
<1>6. \A o \in 1..n + j : t[o] = IF o <= n THEN s[o] ELSE u[o - n]
  BY <1>1, <1>2, <1>3, <1>4, ConcatProperties
<1>7. n + j \in Nat /\ n <= n + j
  OBVIOUS
<1>8. \A o \in 1..n + j : Sound(t[o], n + j)
  <2> TAKE o \in 1..n + j
  <2>1. CASE o <= n
    <3>1. o \in 1..n
      BY <2>1
    <3>2. Sound(s[o], n + j)
      BY <1>3, <1>7, <3>1, SoundAmongMore
    <3>3. QED
      BY <1>6, <2>1, <3>2
  <2>2. CASE ~ (o <= n)
    <3>1. o - n \in 1..j
      BY <2>2
    <3>2. Sound(u[o - n], n + j)
      BY <1>1, <1>2, <3>1
    <3>3. QED
      BY <1>6, <2>2, <3>2
  <2>3. QED
    BY <2>1, <2>2
<1>9. QED
  BY <1>4, <1>5, <1>8 DEF ObjInv, Objects

LEMMA ReplaceOne ==
  ASSUME ObjInv, NEW o \in Objects, NEW x \in ObjTypes, Sound(x, Len(objs)),
         objs' = [objs EXCEPT ![o] = x]
  PROVE  ObjInv'
<1>1. PICK s, t : s = objs /\ t = objs'
  OBVIOUS
<1>2. s \in Seq(ObjTypes) /\ o \in 1..Len(s) /\ t = [s EXCEPT ![o] = x]
  BY <1>1 DEF ObjInv, Objects
<1>3. t \in Seq(ObjTypes) /\ Len(t) = Len(s) /\ \A i \in 1..Len(s) : t[i] = IF i = o THEN x ELSE s[i]
  BY <1>2, ExceptSeq
<1>4. \A i \in 1..Len(s) : Sound(t[i], Len(s))
  BY <1>1, <1>3 DEF ObjInv, Objects
<1>5. QED
  BY <1>1, <1>3, <1>4 DEF ObjInv, Objects

LEMMA AssignKeeps ==
  ASSUME ~AssignsToCopies, ObjInv, NEW o \in Objects, NEW m \in Members, NEW v \in Values,
         Assign(o, m, v)
  PROVE  ObjInv'
<1>1. PICK s, x : s = objs /\ x = objs[o]
  OBVIOUS
<1>2. PICK n \in Nat : n = Len(s)
  BY <1>1, ObjectsAre
<1>3. /\ x \in ObjTypes /\ Sound(x, n) /\ o \in 1..n
      /\ s \in Seq(ObjTypes) /\ DOMAIN s = 1..n
  BY <1>1, <1>2, ObjectsAre, LenProperties DEF ObjInv
<1>4. m \in Own
  BY SetsOfMembers DEF Assign
<1>5. PICK set : set = [s EXCEPT ![o].value[m] = v, ![o].flag = @ \cup {m}]
  OBVIOUS
<1>6. PICK y : y = [value |-> [x.value EXCEPT ![m] = v], flag |-> x.flag \cup {m},
                    seqset |-> x.seqset, home |-> x.home]
  OBVIOUS
<1>7. x = [value |-> x.value, flag |-> x.flag, seqset |-> x.seqset, home |-> x.home]
  BY <1>3 DEF ObjTypes
<1>8. set = [s EXCEPT ![o] = y]
  <2>1. set = [s EXCEPT ![o] = [x EXCEPT !.value = [x.value EXCEPT ![m] = v], !.flag = x.flag \cup {m}]]
    BY <1>1, <1>3, <1>5
  <2>2. [x EXCEPT !.value = [x.value EXCEPT ![m] = v], !.flag = x.flag \cup {m}] = y
    <3>1. PICK a, b, c, d : a = x.value /\ b = x.flag /\ c = x.seqset /\ d = x.home
      OBVIOUS
    <3>2. PICK e, f : e = [a EXCEPT ![m] = v] /\ f = b \cup {m}
      OBVIOUS
    <3>3. x = [value |-> a, flag |-> b, seqset |-> c, home |-> d]
      BY <1>7, <3>1
    <3>4. y = [value |-> e, flag |-> f, seqset |-> c, home |-> d]
      BY <1>6, <3>1, <3>2
    <3>5. [x EXCEPT !.value = e, !.flag = f] = y
      <4>1. PICK w : w = [x EXCEPT !.value = e]
        OBVIOUS
      <4>2. w = [value |-> e, flag |-> b, seqset |-> c, home |-> d]
        BY <3>3, <4>1
      <4>3. [x EXCEPT !.value = e, !.flag = f] = [[x EXCEPT !.value = e] EXCEPT !.flag = f]
        OBVIOUS
      <4>4. [w EXCEPT !.flag = f] = y
        BY <3>4, <4>2
      <4>5. QED
        BY <4>1, <4>3, <4>4
    <3>6. QED
      BY <3>1, <3>2, <3>5
  <2>3. QED
    BY <2>1, <2>2
<1>9. /\ x.value \in EntityTypes /\ [x.value EXCEPT ![m] = v] \in EntityTypes
      /\ x.flag \cup {m} \subseteq Members /\ x.seqset \cup {m} \subseteq Members
      /\ x.home \in Nat
  BY <1>3 DEF ObjTypes, EntityTypes
<1>10. \A k \in Members : [x.value EXCEPT ![m] = v][k] = IF k = m THEN v ELSE x.value[k]
  BY <1>9 DEF EntityTypes
<1>11. CASE m \in x.flag
  <2>1. objs' = [objs EXCEPT ![o] = y]
    BY <1>1, <1>5, <1>8, <1>11 DEF Assign
  <2>2. y \in ObjTypes
    BY <1>6, <1>9 DEF ObjTypes
  <2>3. x.flag \cup {m} = x.flag
    BY <1>11
  <2>4. Sound(y, n)
    BY <1>3, <1>6, <1>9, <1>10, <2>3 DEF Sound, ObjTypes
  <2>5. QED
    BY <1>1, <1>2, <2>1, <2>2, <2>4, ReplaceOne
<1>12. CASE m \notin x.flag
  <2>1. x.home = o
    BY <1>1, <1>12 DEF Assign
  <2>2. PICK z : z = [value |-> y.value, flag |-> y.flag, seqset |-> y.seqset \cup {m}, home |-> y.home]
    OBVIOUS
  <2>3. objs' = [set EXCEPT ![set[o].home].seqset = @ \cup {m}]
    BY <1>1, <1>5, <1>12 DEF Assign
  <2>4. set[o] = y /\ y.home = o
    BY <1>3, <1>6, <1>8, <2>1
  <2>5. objs' = [set EXCEPT ![o] = z]
    <3>1. objs' = [set EXCEPT ![o] = [y EXCEPT !.seqset = y.seqset \cup {m}]]
      BY <2>3, <2>4
    <3>2. [y EXCEPT !.seqset = y.seqset \cup {m}] = z
      <4>1. PICK a, b, c, d, e : /\ a = [x.value EXCEPT ![m] = v] /\ b = x.flag \cup {m}
                                 /\ c = x.seqset /\ d = x.home /\ e = c \cup {m}
        OBVIOUS
      <4>2. y = [value |-> a, flag |-> b, seqset |-> c, home |-> d]
        BY <1>6, <4>1
      <4>3. y.seqset \cup {m} = e
        BY <4>1, <4>2
      <4>4. z = [value |-> a, flag |-> b, seqset |-> e, home |-> d]
        BY <2>2, <4>2, <4>3
      <4>5. [y EXCEPT !.seqset = e] = z
        BY <4>2, <4>4
      <4>6. QED
        BY <4>3, <4>5
    <3>3. QED
      BY <3>1, <3>2
  <2>6. objs' = [objs EXCEPT ![o] = z]
    BY <1>1, <1>8, <2>5
  <2>7. z = [value |-> [x.value EXCEPT ![m] = v], flag |-> x.flag \cup {m},
             seqset |-> x.seqset \cup {m}, home |-> x.home]
    BY <1>6, <2>2
  <2>8. z \in ObjTypes
    BY <1>9, <2>7 DEF ObjTypes
  <2>9. x.home # Gone
    BY <1>3, <2>1 DEF Gone
  <2>10. Sound(z, n)
    BY <1>3, <1>4, <1>9, <1>10, <2>7, <2>9 DEF Sound, ObjTypes
  <2>11. QED
    BY <1>1, <1>2, <2>6, <2>8, <2>10, ReplaceOne
<1>13. QED
  BY <1>11, <1>12

-----------------------------------------------------------------------------
(* Making requests                                                         *)

LEMMA ArgumentsAre == \A lists \in Arguments : lists \in Seq(Seq(Objects))
<1> TAKE lists \in Arguments
<1>1. \/ lists = << <<>> >>
      \/ \E o \in Objects : lists = << <<o>> >>
      \/ \E o, p \in Objects : lists = << <<o, p>> >>
      \/ \E o, p \in Objects : lists = << <<o>>, <<p>> >>
  BY DEF Arguments
<1>2. <<>> \in Seq(Objects) /\ \A o, p \in Objects : <<o>> \in Seq(Objects) /\ <<o, p>> \in Seq(Objects)
  OBVIOUS
<1>3. PICK T : T = Seq(Objects)
  OBVIOUS
<1>4. \A x, y \in T : <<x>> \in Seq(T) /\ <<x, y>> \in Seq(T)
  OBVIOUS
<1>5. QED
  BY <1>1, <1>2, <1>3, <1>4

LEMMA WriteMade ==
  ASSUME ObjInv, NEW lists \in Arguments, Write(lists)
  PROVE  RequestInv'
<1>1. lists \in Seq(Seq(Objects))
  BY ArgumentsAre
<1>2. PICK n \in Nat : n = Len(lists)
  BY <1>1, LenProperties
<1>3. \A i \in 1..n : lists[i] \in Seq(Objects) /\ Len(lists[i]) \in Nat
  BY <1>1, <1>2, ElementOfSeq, LenProperties
<1>4. PICK texts, entities :
        /\ texts = [i \in 1..n |-> IF lists[i] = <<>> THEN NoText ELSE InsertText(lists[i])]
        /\ entities = [i \in 1..n |-> [k \in 1..Len(lists[i]) |-> Entity(lists[i][k])]]
  OBVIOUS
<1>5. request' = [op |-> "write", count |-> Entities(lists), texts |-> texts, entities |-> entities]
  BY <1>2, <1>4 DEF Write, Ask
<1>6. /\ request'.op = "write" /\ request'.count = Len(FlattenSeq(lists))
      /\ request'.texts = texts /\ request'.entities = entities
  BY <1>5 DEF Entities
<1>7. \A i \in 1..n : /\ entities[i] \in Seq(EntityTypes)
                      /\ Len(entities[i]) = Len(lists[i])
                      /\ entities[i] = [k \in 1..Len(lists[i]) |-> Entity(lists[i][k])]
  <2> TAKE i \in 1..n
  <2>1. entities[i] = [k \in 1..Len(lists[i]) |-> Entity(lists[i][k])]
    BY <1>4
  <2>2. PICK list, len : list = lists[i] /\ len = Len(lists[i])
    OBVIOUS
  <2>3. list \in Seq(Objects) /\ len \in Nat /\ len = Len(list)
    BY <1>3, <2>2
  <2>4. \A k \in 1..len : Entity(list[k]) \in EntityTypes
    BY <2>3, ElementOfSeq, EntityIs
  <2>5. PICK e : e = entities[i]
    OBVIOUS
  <2>6. e = [k \in 1..len |-> Entity(list[k])]
    BY <2>1, <2>2, <2>5
  <2>7. \A k \in 1..len : e[k] \in EntityTypes
    BY <2>4, <2>6
  <2>8. e = [k \in 1..len |-> e[k]]
    BY <2>6
  <2>9. e \in [1..len -> EntityTypes]
    BY <2>7, <2>8
  <2>10. e \in Seq(EntityTypes) /\ Len(e) = len
    BY <2>3, <2>9
  <2>11. QED
    BY <2>1, <2>2, <2>5, <2>10
<1>8. entities \in Seq(Seq(EntityTypes)) /\ Len(entities) = n /\ Len(texts) = n
  <2>1. DOMAIN entities = 1..n /\ entities = [i \in 1..n |-> entities[i]]
    BY <1>4
  <2>2. entities \in [1..n -> Seq(EntityTypes)]
    BY <1>7, <2>1
  <2>3. entities \in Seq(Seq(EntityTypes)) /\ Len(entities) = n
    BY <2>2
  <2>4. Len(texts) = n
    BY <1>4
  <2>5. QED
    BY <2>3, <2>4
<1>9. Len(FlattenSeq(lists)) = Len(FlattenSeq(entities))
  <2>1. Len(entities) = Len(lists) /\ \A i \in 1..Len(lists) : Len(entities[i]) = Len(lists[i])
    BY <1>2, <1>7, <1>8
  <2>2. entities \in Seq(Seq(EntityTypes))
    BY <1>8
  <2>3. QED
    BY <1>1, <2>1, <2>2, FlattenIs
<1>10. \A i \in 1..n : Fits(texts[i]) => entities[i] \in Seq(Whole) /\ RowsOf(texts[i]) = entities[i]
  <2> SUFFICES ASSUME NEW i \in 1..n, Fits(texts[i])
               PROVE  entities[i] \in Seq(Whole) /\ RowsOf(texts[i]) = entities[i]
    OBVIOUS
  <2>1. PICK list \in Seq(Objects) : list = lists[i]
    BY <1>3
  <2>2. /\ texts[i] = IF list = <<>> THEN NoText ELSE InsertText(list)
        /\ entities[i] = [k \in 1..Len(list) |-> Entity(list[k])]
        /\ entities[i] \in Seq(EntityTypes) /\ Len(entities[i]) = Len(list)
    BY <1>4, <1>7, <2>1
  <2>3. CASE list = <<>>
    <3>1. entities[i] = <<>>
      BY <2>2, <2>3, EmptySeq
    <3>2. RowsOf(NoText) = <<>>
      BY DEF RowsOf, NoText
    <3>3. QED
      BY <2>2, <2>3, <3>1, <3>2
  <2>4. CASE list # <<>>
    <3>1. Assigned(list[1]) # <<>>
      BY <1>2, <2>1, <2>4 DEF Write, MakeThrows
    <3>2. texts[i] = InsertText(list)
      BY <2>2, <2>4
    <3>3. Own # {} /\ \A k \in 1..Len(list) : objs[list[k]].seqset = Own
      BY <2>4, <3>1, <3>2, InsertTextIs
    <3>4. QED
      BY <2>2, <2>4, <3>2, <3>3, RowsAre
  <2>5. QED
    BY <2>3, <2>4
<1>11. WriteInv'
  BY <1>6, <1>8, <1>9, <1>10 DEF WriteInv
<1>12. QED
  BY <1>6, <1>11 DEF RequestInv, UpdateInv, OtherInv

LEMMA UpdateMade ==
  ASSUME ObjInv, NEW o \in Objects, Update(o)
  PROVE  RequestInv'
<1>1. PICK x : x = objs[o]
  OBVIOUS
<1>2. PICK set, entity : set = [m \in x.seqset |-> x.value[m]] /\ entity = Entity(o)
  OBVIOUS
<1>3. request' = [op |-> "update", set |-> set, entity |-> entity]
  BY <1>1, <1>2 DEF Update, Ask
<1>4. request'.op = "update" /\ request'.set = set /\ request'.entity = entity
  BY <1>3
<1>5. /\ x.seqset \subseteq Own
      /\ \A m \in x.seqset : entity[m] = x.value[m] /\ entity[m] \in Values
      /\ x.seqset # {} => \A m \in Members \ x.seqset : entity[m] = Null
  BY <1>1, <1>2, EntityIs, ObjectsAre
<1>6. DOMAIN set = x.seqset /\ \A m \in x.seqset : set[m] = x.value[m]
  BY <1>2
<1>7. UpdateInv'
  BY <1>4, <1>5, <1>6 DEF UpdateInv
<1>8. QED
  BY <1>4, <1>7 DEF RequestInv, WriteInv, OtherInv

LEMMA OtherMade ==
  ASSUME \/ CreateTable
         \/ \E fields \in Results : Read(fields) \/ ReadOne(fields)
         \/ \E m \in Own, v \in Values : Count(m, v) \/ Del(m, v)
  PROVE  RequestInv'
<1>1. CASE CreateTable
  BY <1>1 DEF CreateTable, Ask, RequestInv, WriteInv, UpdateInv, OtherInv
<1>2. CASE \E fields \in Results : Read(fields) \/ ReadOne(fields)
  <2>1. PICK fields \in Results : Read(fields) \/ ReadOne(fields)
    BY <1>2
  <2>2. request'.op \in {"read", "read_one"} /\ request'.fields = fields
    BY <2>1 DEF Read, ReadOne, Ask
  <2>3. QED
    BY <2>2 DEF RequestInv, WriteInv, UpdateInv, OtherInv
<1>3. CASE \E m \in Own, v \in Values : Count(m, v) \/ Del(m, v)
  <2>1. PICK m \in Own, v \in Values : Count(m, v) \/ Del(m, v)
    BY <1>3
  <2>2. request'.op \in {"count", "del"} /\ request'.mem = m
    BY <2>1 DEF Count, Del, Ask
  <2>3. QED
    BY <2>2 DEF RequestInv, WriteInv, UpdateInv, OtherInv
<1>4. QED
  BY <1>1, <1>2, <1>3

\* Making a request touches nothing else the invariant is about.
LEMMA AskKeeps ==
  ASSUME Inv, NEW q, Ask(q)
  PROVE  ObjInv' /\ TableInv' /\ AnswerCountsRows'
BY DEF Ask, Inv, ObjInv, Objects, TableInv, AnswerCountsRows, NoAnswer, Answer

-----------------------------------------------------------------------------
(* The worker                                                              *)

LEMMA RowsOfTable ==
  ASSUME Inv
  PROVE  /\ table \in Seq(Whole) /\ Len(table) \in Nat /\ want = table
         /\ \A i \in 1..Len(table) : /\ table[i] \in Whole /\ table[i] \in RowTypes
                                     /\ \A m \in Own : table[i][m] # Null
<1>1. table \in Seq(Whole) /\ want = table
  BY DEF Inv, TableInv
<1>2. Len(table) \in Nat /\ \A i \in 1..Len(table) : table[i] \in Whole
  BY <1>1, LenProperties, ElementOfSeq
<1>3. QED
  BY <1>1, <1>2 DEF Whole

\* The request is done, and the objects are as they were.
LEMMA DoneKeeps ==
  ASSUME Inv, Executed
  PROVE  /\ RequestInv'
         /\ UNCHANGED objs => ObjInv'
         /\ UNCHANGED <<exists, table, want>> => TableInv'
         /\ UNCHANGED answered => AnswerCountsRows'
<1>1. request'.op = "none"
  BY DEF Executed, NoRequest
<1>2. RequestInv'
  BY <1>1 DEF RequestInv, WriteInv, UpdateInv, OtherInv
<1>3. UNCHANGED objs => ObjInv'
  BY DEF Inv, ObjInv, Objects
<1>4. UNCHANGED <<exists, table, want>> => TableInv'
  BY DEF Inv, TableInv
<1>5. UNCHANGED answered => AnswerCountsRows'
  BY DEF Inv, AnswerCountsRows
<1>6. QED
  BY <1>2, <1>3, <1>4, <1>5

LEMMA CreateKeeps ==
  ASSUME Inv, ExecuteCreate
  PROVE  Inv'
<1>1. Executed /\ UNCHANGED <<objs, table, answered, want>> /\ exists' = TRUE
  BY DEF ExecuteCreate
<1>2. TableInv'
  BY <1>1 DEF Inv, TableInv
<1>3. QED
  BY <1>1, <1>2, DoneKeeps DEF Inv

\* The rows of the texts that ran are those of their entities.
LEMMA WriteKeeps ==
  ASSUME Inv, request.op = "write", NEW done \in 0..Len(request.texts), ExecuteWrite(done)
  PROVE  Inv'
<1>1. PICK entities, texts : entities = request.entities /\ texts = request.texts
  OBVIOUS
<1>2. /\ entities \in Seq(Seq(EntityTypes)) /\ Len(texts) = Len(entities)
      /\ request.count = Len(FlattenSeq(entities))
      /\ \A i \in 1..Len(entities) :
            Fits(texts[i]) => entities[i] \in Seq(Whole) /\ RowsOf(texts[i]) = entities[i]
  BY <1>1 DEF Inv, RequestInv, WriteInv
<1>3. PICK n \in Nat : n = Len(entities) /\ n = Len(texts)
  BY <1>2, LenProperties
<1>4. done \in 0..n /\ done \in Nat /\ \A i \in 1..done : i \in 1..n
  BY <1>1, <1>3
<1>5. \A i \in 1..done : Fits(texts[i])
  BY <1>1 DEF ExecuteWrite, Executes, Fits
<1>6. \A i \in 1..done : entities[i] \in Seq(Whole) /\ RowsOf(texts[i]) = entities[i]
  BY <1>2, <1>3, <1>4, <1>5
<1>7. PICK s : s = SubSeq(entities, 1, done)
  OBVIOUS
<1>8. /\ Len(s) = done /\ DOMAIN s = 1..done
      /\ \A i \in 1..done : s[i] = entities[i]
      /\ s = [i \in 1..done |-> s[i]]
  <2>1. s = [i \in 1..done |-> entities[i]]
    BY <1>4, <1>7
  <2>2. QED
    BY <1>4, <2>1
<1>9. s \in Seq(Seq(Whole))
  <2>1. s \in [1..done -> Seq(Whole)]
    BY <1>6, <1>8
  <2>2. QED
    BY <1>4, <2>1
<1>10. [i \in 1..done |-> RowsOf(texts[i])] = s
  BY <1>6, <1>8
<1>11. PICK rows : rows = FlattenSeq(s)
  OBVIOUS
<1>12. rows \in Seq(Whole)
  BY <1>9, <1>11, FlattenIs
<1>13. table' = table \o rows /\ want' = want \o rows
  BY <1>1, <1>7, <1>10, <1>11 DEF ExecuteWrite
<1>14. TableInv'
  <2>1. table \in Seq(Whole) /\ want = table
    BY RowsOfTable
  <2>2. table \o rows \in Seq(Whole)
    BY <1>12, <2>1, ConcatProperties
  <2>3. exists' \in BOOLEAN
    BY DEF ExecuteWrite, Inv, TableInv
  <2>4. QED
    BY <1>13, <2>1, <2>2, <2>3 DEF TableInv
<1>15. AnswerCountsRows'
  <2>1. CASE done = n
    <3>1. s = entities
      <4>1. entities = [i \in 1..n |-> entities[i]]
        BY <1>2, <1>3, LenProperties
      <4>2. QED
        BY <1>8, <2>1, <4>1
    <3>2. PICK t : t = table
      OBVIOUS
    <3>3. t \in Seq(Whole) /\ Len(t) \in Nat /\ Len(rows) \in Nat
      BY <1>12, <3>2, RowsOfTable, LenProperties
    <3>4. Len(t \o rows) = Len(t) + Len(rows)
      BY <1>12, <3>3, ConcatProperties
    <3>5. Len(table') - Len(table) = Len(rows)
      BY <1>13, <3>2, <3>3, <3>4
    <3>6. request.count = Len(rows)
      BY <1>2, <1>11, <3>1
    <3>7. answered' = Answer(request.count, Len(table') - Len(table), TRUE)
      BY <1>1, <1>3, <2>1 DEF ExecuteWrite
    <3>8. QED
      BY <3>5, <3>6, <3>7 DEF AnswerCountsRows, Answer
  <2>2. CASE done # n
    <3>1. answered' = NoAnswer
      BY <1>1, <1>3, <2>2 DEF ExecuteWrite
    <3>2. QED
      BY <3>1 DEF AnswerCountsRows, NoAnswer, Answer
  <2>3. QED
    BY <2>1, <2>2
<1>16. Executed /\ UNCHANGED objs
  BY DEF ExecuteWrite
<1>17. QED
  BY <1>14, <1>15, <1>16, DoneKeeps DEF Inv

LEMMA UpdateKeeps ==
  ASSUME Inv, ExecuteUpdate
  PROVE  Inv'
<1>1. PICK set, entity : set = request.set /\ entity = request.entity
  OBVIOUS
<1>2. /\ DOMAIN set \subseteq Own /\ DOMAIN set # {}
      /\ \A m \in DOMAIN set : set[m] \in Values /\ entity[m] = set[m]
      /\ \A m \in Members \ DOMAIN set : entity[m] = Null
  BY <1>1 DEF ExecuteUpdate, Inv, RequestInv, UpdateInv
<1>3. PICK s, n : s = table /\ n = Len(s) /\ n \in Nat
  BY RowsOfTable
<1>4. /\ want = s /\ s \in Seq(Whole)
      /\ \A i \in 1..n : s[i] \in RowTypes /\ \A m \in Own : s[i][m] # Null
  BY <1>3, RowsOfTable
<1>5. PICK t : t = [i \in 1..n |-> [m \in Members |-> IF m \in DOMAIN set THEN set[m] ELSE s[i][m]]]
  OBVIOUS
<1>6. table' = t
  BY <1>1, <1>3, <1>5 DEF ExecuteUpdate
<1>7. want' = [i \in 1..n |-> [m \in Members |-> IF entity[m] # Null THEN entity[m] ELSE s[i][m]]]
  BY <1>1, <1>3, <1>4 DEF ExecuteUpdate
<1>8. \A i \in 1..n : \A m \in Members :
         (IF entity[m] # Null THEN entity[m] ELSE s[i][m]) = IF m \in DOMAIN set THEN set[m] ELSE s[i][m]
  BY <1>2, NullIs
<1>9. want' = t
  BY <1>5, <1>7, <1>8
<1>10. \A i \in 1..n : t[i] \in Whole
  <2> TAKE i \in 1..n
  <2>1. PICK row : row = s[i]
    OBVIOUS
  <2>2. t[i] = [m \in Members |-> IF m \in DOMAIN set THEN set[m] ELSE row[m]]
    BY <1>5, <2>1
  <2>3. /\ \A m \in Members : row[m] \in Values \cup {Null}
        /\ \A m \in Own : row[m] # Null
    BY <1>4, <2>1 DEF RowTypes
  <2>4. \A m \in Members : (IF m \in DOMAIN set THEN set[m] ELSE row[m]) \in Values \cup {Null}
    BY <1>2, <2>3
  <2>5. \A m \in Own : (IF m \in DOMAIN set THEN set[m] ELSE row[m]) # Null
    BY <1>2, <2>3, NullIs
  <2>6. t[i] \in RowTypes
    BY <2>2, <2>4 DEF RowTypes
  <2>7. \A m \in Own : t[i][m] # Null
    BY <2>2, <2>5, SetsOfMembers
  <2>8. QED
    BY <2>6, <2>7 DEF Whole
<1>11. t \in Seq(Whole)
  <2>1. t = [i \in 1..n |-> t[i]]
    BY <1>5
  <2>2. t \in [1..n -> Whole]
    BY <1>10, <2>1
  <2>3. QED
    BY <1>3, <2>2
<1>12. Executed /\ UNCHANGED <<objs, exists, answered>>
  BY DEF ExecuteUpdate
<1>13. TableInv'
  BY <1>6, <1>9, <1>11, <1>12 DEF Inv, TableInv
<1>14. QED
  BY <1>12, <1>13, DoneKeeps DEF Inv

\* The rows that stay are rows, the same ones of the table and of want.
LEMMA DelKeeps ==
  ASSUME Inv, ExecuteDel
  PROVE  Inv'
<1>1. PICK s, n : s = table /\ n = Len(s) /\ n \in Nat
  BY RowsOfTable
<1>2. s \in Seq(Whole) /\ want = s /\ \A i \in 1..n : s[i] \in Whole
  BY <1>1, RowsOfTable
<1>3. PICK P, at : P = {i \in 1..n : i \notin Asked(s)} /\ at = Ascending(P)
  OBVIOUS
<1>4. PICK c \in Nat : at \in [1..c -> P]
  <2>1. P \subseteq 1..n
    BY <1>3
  <2>2. QED
    BY <1>1, <1>3, <2>1, AscendingIs
<1>5. Kept(table) = at /\ Kept(want) = at /\ Len(at) = c
  BY <1>1, <1>2, <1>3, <1>4 DEF Kept
<1>6. PICK t : t = [k \in 1..c |-> s[at[k]]]
  OBVIOUS
<1>7. table' = t /\ want' = t
  BY <1>1, <1>2, <1>5, <1>6 DEF ExecuteDel
<1>8. t \in Seq(Whole)
  <2>1. \A k \in 1..c : at[k] \in 1..n
    BY <1>3, <1>4
  <2>2. \A k \in 1..c : t[k] \in Whole
    BY <1>2, <1>6, <2>1
  <2>3. t = [k \in 1..c |-> t[k]]
    BY <1>6
  <2>4. t \in [1..c -> Whole]
    BY <2>2, <2>3
  <2>5. QED
    BY <2>4
<1>9. Executed /\ UNCHANGED <<objs, exists, answered>>
  BY DEF ExecuteDel
<1>10. TableInv'
  BY <1>7, <1>8, <1>9 DEF Inv, TableInv
<1>11. QED
  BY <1>9, <1>10, DoneKeeps DEF Inv

\* The column counted is one that is never NULL.
LEMMA CountedIs ==
  ASSUME NEW m \in Own
  PROVE  Counted \in Own
<1>1. PICK s : s = InOrder(Own)
  OBVIOUS
<1>2. /\ s \in Seq(Own) /\ Len(s) = Cardinality(Own) /\ Cardinality(Own) \in Nat
      /\ \A k \in Own : \E j \in 1..Cardinality(Own) : s[j] = k
  BY <1>1, SetsOfMembers, InOrderIs
<1>3. PICK j \in 1..Len(s) : s[j] = m
  BY <1>2
<1>4. 1 \in 1..Len(s)
  BY <1>2, <1>3
<1>5. s[1] \in Own
  BY <1>2, <1>4, ElementOfSeq
<1>6. QED
  BY <1>1, <1>5 DEF Counted, Own

LEMMA CountKeeps ==
  ASSUME Inv, ExecuteCount \/ CountUnset
  PROVE  Inv'
<1>1. request.op = "count" /\ Executed /\ UNCHANGED <<objs, exists, table, want>>
  BY DEF ExecuteCount, CountUnset
<1>2. AnswerCountsRows'
  <2>1. CASE ExecuteCount
    <3>1. Counted \in Own
      BY <1>1, CountedIs DEF Inv, RequestInv, OtherInv
    <3>2. \A i \in Asked(table) : table[i][Counted] # Null
      BY <3>1, RowsOfTable DEF Asked
    <3>3. {i \in Asked(table) : table[i][Counted] # Null} = Asked(want)
      BY <3>2, RowsOfTable
    <3>4. answered' = Answer(Cardinality({i \in Asked(table) : table[i][Counted] # Null}),
                             Cardinality(Asked(want)), TRUE)
      BY <2>1 DEF ExecuteCount
    <3>5. PICK c : c = Cardinality(Asked(want))
      OBVIOUS
    <3>6. answered' = Answer(c, c, TRUE)
      BY <3>3, <3>4, <3>5
    <3>7. QED
      BY <3>6 DEF AnswerCountsRows, Answer
  <2>2. CASE CountUnset
    <3>1. PICK k, c : answered' = Answer(k, c, FALSE)
      BY <2>2 DEF CountUnset
    <3>2. QED
      BY <3>1 DEF AnswerCountsRows, Answer
  <2>3. QED
    BY <2>1, <2>2
<1>3. QED
  BY <1>1, <1>2, DoneKeeps DEF Inv

\* The objects fetched, one for each row.
LEMMA ReadKeeps ==
  ASSUME Inv, ExecuteRead
  PROVE  Inv'
<1>1. PICK fields \in Results : fields = request.fields
  BY DEF ExecuteRead, Inv, RequestInv, OtherInv
<1>2. PICK s, n : s = table /\ n = Len(s) /\ n \in Nat
  BY RowsOfTable
<1>3. \A i \in 1..n : s[i] \in RowTypes
  BY <1>2, RowsOfTable
<1>4. PICK u : u = [i \in 1..n |-> Fetched(fields, s[i])]
  OBVIOUS
<1>5. objs' = objs \o u
  BY <1>1, <1>2, <1>4 DEF ExecuteRead
<1>6. \A i \in 1..n : u[i] = Fetched(fields, s[i])
  BY <1>4
<1>7. \A i \in 1..n : u[i] \in ObjTypes /\ \A k \in Nat : Sound(u[i], k)
  BY <1>3, <1>6, FetchedIs
<1>8. u \in Seq(ObjTypes) /\ Len(u) = n
  <2>1. u = [i \in 1..n |-> u[i]]
    BY <1>4
  <2>2. u \in [1..n -> ObjTypes]
    BY <1>7, <2>1
  <2>3. QED
    BY <1>2, <2>2
<1>9. ObjInv /\ Len(objs) \in Nat
  BY ObjectsAre DEF Inv
<1>10. \A k \in 1..Len(u) : Sound(u[k], Len(objs) + Len(u))
  <2>1. Len(objs) + n \in Nat
    BY <1>2, <1>9
  <2>2. QED
    BY <1>7, <1>8, <2>1
<1>11. ObjInv'
  BY <1>5, <1>8, <1>9, <1>10, AddMany
<1>12. Executed /\ UNCHANGED <<exists, table, answered, want>>
  BY DEF ExecuteRead
<1>13. QED
  BY <1>11, <1>12, DoneKeeps DEF Inv

LEMMA ReadOneKeeps ==
  ASSUME Inv, ExecuteReadOne
  PROVE  Inv'
<1>1. PICK fields \in Results : fields = request.fields
  BY DEF ExecuteReadOne, Inv, RequestInv, OtherInv
<1>2. PICK x : /\ objs' = Append(objs, x)
               /\ x = Blank(Gone) \/ (table # <<>> /\ x = Fetched(fields, table[1]))
  BY <1>1 DEF ExecuteReadOne
<1>3. ObjInv /\ Len(objs) \in Nat
  BY ObjectsAre DEF Inv
<1>4. x \in ObjTypes /\ \A k \in Nat : Sound(x, k)
  <2>1. CASE x = Blank(Gone)
    <3>1. Gone \in Nat /\ \A k \in Nat : Gone <= k
      BY DEF Gone
    <3>2. QED
      BY <2>1, <3>1, BlankIs
  <2>2. CASE table # <<>> /\ x = Fetched(fields, table[1])
    <3>1. 1 \in 1..Len(table)
      BY <2>2, RowsOfTable, EmptySeq
    <3>2. table[1] \in RowTypes
      BY <3>1, RowsOfTable
    <3>3. QED
      BY <2>2, <3>2, FetchedIs
  <2>3. QED
    BY <1>2, <2>1, <2>2
<1>5. ObjInv'
  <2>1. Sound(x, Len(objs) + 1)
    BY <1>3, <1>4
  <2>2. QED
    BY <1>2, <1>3, <1>4, <2>1, AddOne
<1>6. Executed /\ UNCHANGED <<exists, table, answered, want>>
  BY DEF ExecuteReadOne
<1>7. QED
  BY <1>5, <1>6, DoneKeeps DEF Inv

LEMMA FailsKeeps ==
  ASSUME Inv, Fails
  PROVE  Inv'
<1>1. Executed /\ UNCHANGED <<objs, exists, table, answered, want>>
  BY DEF Fails
<1>2. QED
  BY <1>1, DoneKeeps DEF Inv

-----------------------------------------------------------------------------
(* The theorems, for a client that assigns no new members in copies        *)

LEMMA InitInv == Init => Inv
<1> SUFFICES ASSUME Init PROVE Inv
  OBVIOUS
<1>1. objs = <<>> /\ exists = FALSE /\ table = <<>> /\ want = <<>>
      /\ request.op = "none" /\ answered.ran = FALSE
  BY DEF Init, NoRequest, NoAnswer, Answer
<1>2. \A T : <<>> \in Seq(T)
  OBVIOUS
<1>3. Len(<<>>) = 0 /\ 1..0 = {}
  OBVIOUS
<1>4. ObjInv
  BY <1>1, <1>2, <1>3 DEF ObjInv, Objects
<1>5. TableInv
  BY <1>1, <1>2 DEF TableInv
<1>6. QED
  BY <1>1, <1>4, <1>5 DEF Inv, RequestInv, WriteInv, UpdateInv, OtherInv, AnswerCountsRows

LEMMA ClientKeeps ==
  ASSUME ~AssignsToCopies, Inv, Client
  PROVE  Inv'
<1>1. ObjInv /\ Len(objs) \in Nat
  BY ObjectsAre DEF Inv
<1>2. ASSUME UNCHANGED <<exists, table, request, answered, want>>
      PROVE  TableInv' /\ RequestInv' /\ AnswerCountsRows'
  BY <1>2 DEF Inv, TableInv, RequestInv, WriteInv, UpdateInv, OtherInv, AnswerCountsRows
<1>3. CASE Construct
  <2>1. PICK x : x = Blank(Len(objs) + 1)
    OBVIOUS
  <2>2. x \in ObjTypes /\ Sound(x, Len(objs) + 1)
    BY <1>1, <2>1, BlankIs
  <2>3. ObjInv'
    BY <1>1, <1>3, <2>1, <2>2, AddOne DEF Construct
  <2>4. QED
    BY <1>2, <1>3, <2>3 DEF Construct, Inv
<1>4. CASE \E o \in Objects : Copy(o)
  <2>1. PICK o \in Objects : Copy(o)
    BY <1>4
  <2>2. PICK x : x = objs[o]
    OBVIOUS
  <2>3. x \in ObjTypes /\ Sound(x, Len(objs))
    BY <1>1, <2>2, ObjectsAre
  <2>4. Sound(x, Len(objs) + 1)
    BY <1>1, <2>3, SoundAmongMore
  <2>5. ObjInv'
    BY <1>1, <2>1, <2>2, <2>3, <2>4, AddOne DEF Copy
  <2>6. QED
    BY <1>2, <2>1, <2>5 DEF Copy, Inv
<1>5. CASE \E o \in Objects, m \in Members, v \in Values : Assign(o, m, v)
  <2>1. PICK o \in Objects, m \in Members, v \in Values : Assign(o, m, v)
    BY <1>5
  <2>2. ObjInv'
    BY <1>1, <2>1, AssignKeeps
  <2>3. QED
    BY <1>2, <2>1, <2>2 DEF Assign, Inv
<1>6. CASE \E o \in Objects : Update(o)
  <2>1. PICK o \in Objects : Update(o)
    BY <1>6
  <2>2. RequestInv'
    BY <1>1, <2>1, UpdateMade
  <2>3. PICK q : Ask(q)
    BY <2>1 DEF Update
  <2>4. QED
    BY <2>2, <2>3, AskKeeps DEF Inv
<1>7. CASE \E lists \in Arguments : Write(lists)
  <2>1. PICK lists \in Arguments : Write(lists)
    BY <1>7
  <2>2. RequestInv'
    BY <1>1, <2>1, WriteMade
  <2>3. PICK q : Ask(q)
    BY <2>1 DEF Write
  <2>4. QED
    BY <2>2, <2>3, AskKeeps DEF Inv
<1>8. CASE \/ CreateTable
           \/ \E fields \in Results : Read(fields) \/ ReadOne(fields)
           \/ \E m \in Own, v \in Values : Count(m, v) \/ Del(m, v)
  <2>1. RequestInv'
    BY <1>8, OtherMade
  <2>2. PICK q : Ask(q)
    BY <1>8 DEF CreateTable, Read, ReadOne, Count, Del
  <2>3. QED
    BY <2>1, <2>2, AskKeeps DEF Inv
<1>9. QED
  BY <1>3, <1>4, <1>5, <1>6, <1>7, <1>8 DEF Client, Own

\* The invariant holds in every state.
LEMMA Invariance == ~AssignsToCopies => (Spec => []Inv)
<1> SUFFICES ASSUME ~AssignsToCopies PROVE Spec => []Inv
  OBVIOUS
<1>1. Inv /\ [Next]_vars => Inv'
  <2> SUFFICES ASSUME Inv, [Next]_vars PROVE Inv'
    OBVIOUS
  <2>1. CASE Client
    BY <2>1, ClientKeeps
  <2>2. CASE Worker
    BY <2>2, CreateKeeps, WriteKeeps, UpdateKeeps, DelKeeps, CountKeeps, ReadKeeps, ReadOneKeeps,
       FailsKeeps DEF Worker
  <2>3. CASE UNCHANGED vars
    BY <2>3 DEF vars, Inv, ObjInv, Objects, TableInv, RequestInv, WriteInv, UpdateInv, OtherInv,
       AnswerCountsRows
  <2>4. QED
    BY <2>1, <2>2, <2>3 DEF Next
<1>2. QED
  BY <1>1, InitInv, PTL DEF Spec

(* Objects, table and requests have their types (Rows.TypeOK): among them,  *)
(* each object has noted the number of just the members assigned in it.     *)
THEOREM TypeCorrect == ~AssignsToCopies => (Spec => []TypeOK)
<1> SUFFICES ASSUME ~AssignsToCopies PROVE Spec => []TypeOK
  OBVIOUS
<1>1. Inv => TypeOK
  <2> SUFFICES ASSUME Inv PROVE TypeOK
    OBVIOUS
  <2>1. ObjInv /\ TableInv
    BY DEF Inv
  <2>2. objs \in Seq(ObjTypes)
    BY <2>1 DEF ObjInv
  <2>3. \A o \in Objects : /\ objs[o].home \in {Gone} \cup Objects
                           /\ objs[o].home = o => objs[o].seqset = objs[o].flag
    <3>1. TAKE o \in Objects
    <3>2. Sound(objs[o], Len(objs)) /\ o \in 1..Len(objs) /\ Len(objs) \in Nat
      BY <2>1, ObjectsAre
    <3>3. objs[o].home \in 0..Len(objs) /\ (objs[o].home # Gone => objs[o].seqset = objs[o].flag)
      BY <3>2 DEF Sound
    <3>4. QED
      BY <3>2, <3>3 DEF Objects, Gone
  <2>4. ObjectTypes
    BY <2>2, <2>3 DEF ObjectTypes, ObjTypes, EntityTypes
  <2>5. Seq(Whole) \subseteq Seq(RowTypes)
    <3>1. Whole \subseteq RowTypes
      BY DEF Whole
    <3>2. PICK S, T : S = Whole /\ T = RowTypes
      OBVIOUS
    <3>3. S \subseteq T => Seq(S) \subseteq Seq(T)
      OBVIOUS
    <3>4. QED
      BY <3>1, <3>2, <3>3
  <2>6. table \in Seq(RowTypes) /\ want \in Seq(RowTypes) /\ exists \in BOOLEAN
    BY <2>1, <2>5 DEF TableInv
  <2>7. QED
    BY <2>4, <2>6 DEF TypeOK, RowTypes
<1>2. QED
  BY <1>1, Invariance, PTL

(* Rows have under each column what their objects held in that member:      *)
(* RowsHoldTheirObjects, for containers of any objects and any structure.   *)
(* The texts that execute are those whose objects all have each member of a *)
(* NOT NULL column, hence the same members in the same order.               *)
THEOREM RowsCorrect == ~AssignsToCopies => (Spec => []RowsHoldTheirObjects)
<1> SUFFICES ASSUME ~AssignsToCopies PROVE Spec => []RowsHoldTheirObjects
  OBVIOUS
<1>1. Inv => RowsHoldTheirObjects
  BY DEF Inv, TableInv, RowsHoldTheirObjects
<1>2. QED
  BY <1>1, Invariance, PTL

(* Writes and counts answer the number of rows they are about               *)
(* (AnswerCountsRows), a write of several statements and lists too.         *)
THEOREM CountsCorrect == ~AssignsToCopies => (Spec => []AnswerCountsRows)
<1> SUFFICES ASSUME ~AssignsToCopies PROVE Spec => []AnswerCountsRows
  OBVIOUS
<1>1. Inv => AnswerCountsRows
  BY DEF Inv
<1>2. QED
  BY <1>1, Invariance, PTL

(* Objects that are read hold their rows (FetchIsFaithful), for any result  *)
(* structure that names members of the table's.                             *)
THEOREM FetchCorrect == ~AssignsToCopies => (Spec => FetchIsFaithful)
<1> SUFFICES ASSUME ~AssignsToCopies PROVE Spec => FetchIsFaithful
  OBVIOUS
<1> DEFINE Faithful == request.op \in {"read", "read_one"} /\ request' = NoRequest =>
              \A o \in (Len(objs) + 1)..Len(objs') : \A m \in objs'[o].flag :
                 LET wanted == want[o - Len(objs)][m] IN
                 objs'[o].value[m] = IF wanted = Null THEN Zero ELSE wanted
<1>1. Inv /\ [Next]_vars => [Faithful]_vars
  <2> SUFFICES ASSUME Inv, Next, request.op \in {"read", "read_one"}, request' = NoRequest,
                      NEW o \in (Len(objs) + 1)..Len(objs'), NEW m \in objs'[o].flag
               PROVE  objs'[o].value[m] = IF want[o - Len(objs)][m] = Null THEN Zero ELSE want[o - Len(objs)][m]
    OBVIOUS
  <2>1. PICK s, t, n, rows : s = objs /\ t = objs' /\ n = Len(s) /\ n \in Nat /\ rows = table
    BY ObjectsAre DEF Inv
  <2>2. s \in Seq(ObjTypes) /\ o \in (n + 1)..Len(t)
    BY <2>1 DEF Inv, ObjInv
  <2>3. /\ want = rows /\ Len(rows) \in Nat
        /\ \A i \in 1..Len(rows) : rows[i] \in RowTypes
    BY <2>1, RowsOfTable
  <2>4. request # NoRequest
    BY DEF NoRequest
  <2>5. ~Client
    <3>1. \A q : ~Ask(q)
      BY <2>4 DEF Ask
    <3>2. ~CreateTable /\ \A fields : ~Read(fields) /\ ~ReadOne(fields)
      BY <3>1 DEF CreateTable, Read, ReadOne
    <3>3. \A k, v : ~Count(k, v) /\ ~Del(k, v)
      BY <3>1 DEF Count, Del
    <3>4. \A lists : ~Write(lists)
      BY <3>1 DEF Write
    <3>5. \A p : ~Update(p)
      BY <3>1 DEF Update
    <3>6. ~Construct /\ (\A p : ~Copy(p)) /\ \A p, k, v : ~Assign(p, k, v)
      BY <2>4 DEF Construct, Copy, Assign
    <3>7. QED
      BY <3>2, <3>3, <3>4, <3>5, <3>6 DEF Client
  <2>6. ExecuteRead \/ ExecuteReadOne \/ t = s
    <3>1. Worker
      BY <2>5 DEF Next
    <3>2. ~ (request.op = "write")
      OBVIOUS
    <3>3. \/ ExecuteRead \/ ExecuteReadOne
          \/ ExecuteCreate \/ ExecuteUpdate \/ ExecuteDel \/ ExecuteCount \/ CountUnset \/ Fails
      BY <3>1, <3>2 DEF Worker
    <3>4. ExecuteCreate \/ ExecuteUpdate \/ ExecuteDel \/ ExecuteCount \/ CountUnset \/ Fails => t = s
      BY <2>1 DEF ExecuteCreate, ExecuteUpdate, ExecuteDel, ExecuteCount, CountUnset, Fails
    <3>5. QED
      BY <3>3, <3>4
  <2>7. CASE ExecuteRead
    <3>1. PICK fields \in Results : fields = request.fields
      BY DEF Inv, RequestInv, OtherInv
    <3>2. PICK u : u = [i \in 1..Len(rows) |-> Fetched(fields, rows[i])]
      OBVIOUS
    <3>3. t = s \o u
      BY <2>1, <2>7, <3>1, <3>2 DEF ExecuteRead
    <3>4. \A i \in 1..Len(rows) : u[i] = Fetched(fields, rows[i]) /\ u[i] \in ObjTypes
      BY <2>3, <3>2, FetchedIs
    <3>5. u \in Seq(ObjTypes) /\ Len(u) = Len(rows)
      <4>1. u = [i \in 1..Len(rows) |-> u[i]]
        BY <3>2
      <4>2. u \in [1..Len(rows) -> ObjTypes]
        BY <3>4, <4>1
      <4>3. QED
        BY <2>3, <4>2
    <3>6. Len(t) = n + Len(rows) /\ \A i \in 1..n + Len(rows) : t[i] = IF i <= n THEN s[i] ELSE u[i - n]
      <4>1. Len(t) = n + Len(rows)
        <5>1. Len(s \o u) = Len(s) + Len(u)
          BY <2>2, <3>5, ConcatProperties
        <5>2. QED
          BY <2>1, <3>3, <3>5, <5>1
      <4>2. \A i \in 1..Len(s) + Len(u) : t[i] = IF i <= Len(s) THEN s[i] ELSE u[i - Len(s)]
        BY <2>2, <3>3, <3>5, ConcatProperties
      <4>3. QED
        BY <2>1, <3>5, <4>1, <4>2
    <3>7. o - n \in 1..Len(rows) /\ o \in 1..n + Len(rows) /\ ~ (o <= n)
      BY <2>1, <2>2, <2>3, <3>6
    <3>8. t[o] = Fetched(fields, rows[o - n])
      BY <3>4, <3>6, <3>7
    <3>9. m \in Range(fields)
      BY <2>1, <2>3, <3>7, <3>8, FetchedIs
    <3>10. t[o].value[m] = IF rows[o - n][m] = Null THEN Zero ELSE rows[o - n][m]
      BY <2>3, <3>7, <3>8, <3>9, FetchedIs
    <3>11. QED
      BY <2>1, <2>3, <3>10
  <2>8. CASE ExecuteReadOne
    <3>1. PICK fields \in Results : fields = request.fields
      BY DEF Inv, RequestInv, OtherInv
    <3>2. PICK x : /\ t = Append(s, x)
                   /\ x = Blank(Gone) \/ (rows # <<>> /\ x = Fetched(fields, rows[1]))
      BY <2>1, <2>8, <3>1 DEF ExecuteReadOne
    <3>3. Len(t) = n + 1 /\ t[n + 1] = x
      <4>1. PICK T : s \in Seq(T) /\ x \in T
        <5>1. s \in Seq(ObjTypes \cup {x})
          BY <2>2
        <5>2. QED
          BY <5>1
      <4>2. QED
        BY <2>1, <3>2, <4>1, AppendProperties
    <3>4. o = n + 1 /\ o - n = 1
      BY <2>1, <2>2, <3>3
    <3>5. x.flag # {}
      BY <2>1, <3>3, <3>4
    <3>6. x # Blank(Gone)
      BY <3>5 DEF Blank
    <3>7. rows # <<>> /\ x = Fetched(fields, rows[1])
      BY <3>2, <3>6
    <3>8. rows[1] \in RowTypes
      <4>1. 1 \in 1..Len(rows)
        BY <2>1, <3>7, RowsOfTable, EmptySeq
      <4>2. QED
        BY <2>3, <4>1
    <3>9. m \in Range(fields)
      BY <2>1, <3>3, <3>4, <3>7, <3>8, FetchedIs
    <3>10. x.value[m] = IF rows[1][m] = Null THEN Zero ELSE rows[1][m]
      BY <3>7, <3>8, <3>9, FetchedIs
    <3>11. QED
      BY <2>1, <2>3, <3>3, <3>4, <3>10
  <2>9. CASE t = s
    BY <2>1, <2>2, <2>9
  <2>10. QED
    BY <2>6, <2>7, <2>8, <2>9
<1>2. QED
  BY <1>1, Invariance, PTL DEF Spec, FetchIsFaithful

==============================================================================

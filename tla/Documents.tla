------------------------------ MODULE Documents ------------------------------
(***************************************************************************)
(* Objects of nested structures (ref.h) and the documents of the mongo     *)
(* part: made of objects (mongo_readref.h), fetched into objects           *)
(* (mongo_writeref.h), both by the traversals of ref_ops.h.                *)
(*                                                                         *)
(* An object inside another, a struct member or an element of a list, is   *)
(* the function from its assigned members to their values, since of such   *)
(* an object all members with a flag are written, noted or not.            *)
(***************************************************************************)
EXTENDS Integers, SequencesExt

CONSTANTS
    Basics,         \* MEMBER
    Lists,          \* LIST_MEMBER: lists of basic values
    Structs,        \* STRUCT_MEMBER
    StructLists,    \* LIST_STRUCT_MEMBER: lists of objects
    Fields,         \* the members of the structures inside
    Alias,          \* the aliases of those members that have one,
    FieldAlias,     \* and of those inside
    Values

Names == Basics \cup Lists \cup Structs \cup StructLists

GetName(alias, m) == IF m \in DOMAIN alias THEN alias[m] ELSE m

\* No two members of a structure have one name, or are stored under one.
ASSUME NamesAssumption == /\ Basics \cap (Lists \cup Structs \cup StructLists) = {}
                          /\ Lists \cap (Structs \cup StructLists) = {}
                          /\ Structs \cap StructLists = {}
                          /\ \A m, n \in Names : GetName(Alias, m) = GetName(Alias, n) => m = n
                          /\ \A f, g \in Fields : GetName(FieldAlias, f) = GetName(FieldAlias, g) => f = g

Sons == UNION {[assigned -> Values] : assigned \in SUBSET Fields}

Unassigned == <<>>

-----------------------------------------------------------------------------
(* The client's object: the members it has noted, in the order of the set, *)
(* and what they hold.                                                     *)

Blank == [seqset |-> {}, basic |-> Unassigned, list |-> [m \in Lists |-> <<>>],
          son |-> [m \in Structs |-> Unassigned], sons |-> [m \in StructLists |-> <<>>]]

Set(f, x, v) == [y \in DOMAIN f \cup {x} |-> IF y = x THEN v ELSE f[y]]

Assign(obj, m, v) == [obj EXCEPT !.basic = Set(@, m, v), !.seqset = @ \cup {m}]

AssignList(obj, m, values) == [obj EXCEPT !.list[m] = values, !.seqset = @ \cup {m}]

\* Mutant: the struct member has no deepcb_.
AssignSon_NotNoted(obj, m, f, v) == [obj EXCEPT !.son[m] = Set(@, f, v)]

\* The member notes its number in its object, which notes its own in the one
\* it is in (deepcb_).
AssignSon(obj, m, f, v) == [obj EXCEPT !.son[m] = Set(@, f, v), !.seqset = @ \cup {m}]

PushBack(obj, m, son) == [obj EXCEPT !.sons[m] = Append(@, son), !.seqset = @ \cup {m}]

\* What is not noted was not assigned.
IsObject(obj) ==
    /\ obj.seqset \subseteq Names
    /\ obj.basic \in [Basics \cap obj.seqset -> Values]
    /\ obj.list \in [Lists -> Seq(Values)] /\ \A m \in Lists \ obj.seqset : obj.list[m] = <<>>
    /\ obj.son \in [Structs -> Sons] /\ \A m \in Structs \ obj.seqset : obj.son[m] = Unassigned
    /\ obj.sons \in [StructLists -> Seq(Sons)] /\ \A m \in StructLists \ obj.seqset : obj.sons[m] = <<>>

\* What its client sees in an object.
Entity(obj) == [basic |-> obj.basic, list |-> obj.list, son |-> obj.son, sons |-> obj.sons]

-----------------------------------------------------------------------------
(* Documents *)

\* The values of members, each under the name it is stored under
Written(alias, values) ==
    [key \in {GetName(alias, m) : m \in DOMAIN values} |->
        values[CHOOSE m \in DOMAIN values : GetName(alias, m) = key]]

Fetched(alias, members, doc) ==
    [m \in {n \in members : GetName(alias, n) \in DOMAIN doc} |-> doc[GetName(alias, m)]]

\* MakeWriteBson: the members noted.  (A list is left out when its size is 0, but
\* the size is taken of what lies at the object's start, its seqset_.)
MakeWriteBson(obj) ==
    Written(Alias,
            [m \in obj.seqset |->
                CASE m \in Basics -> obj.basic[m]
                  [] m \in Lists -> obj.list[m]
                  [] m \in Structs -> Written(FieldAlias, obj.son[m])
                  [] m \in StructLists -> [i \in DOMAIN obj.sons[m] |-> Written(FieldAlias, obj.sons[m][i])]])

\* A comparison names a member, or one of an object inside; a list of values is "in".
IsCondition(c) == \/ c.op = "in"
                  \/ c.mem \in {<<m>> : m \in Basics} \cup {<<m, f>> : m \in Structs \cup StructLists, f \in Fields}

\* MakeCondBson names the members as the structure does, with the name of the member
\* they are in before it, and not by their aliases.  It leaves the operator, AND and OR
\* out; a list of values becomes "$eleMatch".
MakeCondBson(conds) == {[mem |-> c.mem, value |-> c.value, eleMatch |-> c.op = "in"] : c \in Range(conds)}

At(doc, m) == IF m \in DOMAIN doc THEN {doc[m]} ELSE {}

\* Mutant: the members of a struct member are looked up in the outer document.
FetchSon_Outer(doc, m) == Fetched(FieldAlias, Fields, doc)

FetchSon(doc, m) == LET sons == Fetched(Alias, Structs, doc)
                    IN  IF m \in DOMAIN sons THEN Fetched(FieldAlias, Fields, sons[m]) ELSE Unassigned

\* One object is made, each document of the array is fetched into it, and it is
\* appended once: of each member it has what the last document with it had.
FetchSons(doc, m) ==
    LET lists == Fetched(Alias, StructLists, doc)
        docs == IF m \in DOMAIN lists THEN lists[m] ELSE <<>>
        With(f) == {i \in 1..Len(docs) : GetName(FieldAlias, f) \in DOMAIN docs[i]}
    IN  << [f \in {g \in Fields : With(g) # {}} |-> docs[Max(With(f))][GetName(FieldAlias, f)]] >>

\* FetchMongoResult, into a new object: the members the document has.
FetchMongoResult(doc) ==
    [Blank EXCEPT !.basic = Fetched(Alias, Basics, doc),
                  !.list = LET lists == Fetched(Alias, Lists, doc)
                           IN  [m \in Lists |-> IF m \in DOMAIN lists THEN lists[m] ELSE <<>>],
                  !.son = [m \in Structs |-> FetchSon(doc, m)],
                  !.sons = [m \in StructLists |-> FetchSons(doc, m)]]

-----------------------------------------------------------------------------
(* The server *)

\* The values a path of names leads to; through an array, those of each element.
Found(doc, mem) ==
    LET elements == UNION {Range(a) : a \in At(doc, mem[1])}
        Under(members) == \E m \in members : GetName(Alias, m) = mem[1]
    IN  IF Len(mem) = 1 THEN At(doc, mem[1]) \cup IF Under(Lists) THEN elements ELSE {}
        ELSE UNION {At(d, mem[2]) : d \in IF Under(Structs) THEN At(doc, mem[1])
                                          ELSE IF Under(StructLists) THEN elements ELSE {}}

\* It knows no operator "$eleMatch".
Rejects(filter) == \E c \in filter : c.eleMatch

Matches(doc, filter) == \A c \in filter : c.value \in Found(doc, c.mem)

=============================================================================

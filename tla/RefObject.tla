------------------------------ MODULE RefObject ------------------------------
(***************************************************************************)
(* A client's object of a STRUCT (ref.h), the requests it hands in with    *)
(* it, at once or through a SqliteUnion, SqliteJoin or SqliteCopy that     *)
(* collects several, and the worker that executes them later (ref_ops.h,   *)
(* sqlite_event.h, sqlite_union.h, sqlite_join.h, sqlite_context.h).       *)
(*                                                                         *)
(* An object keeps its conditions in a list behind a shared_ptr, and beside*)
(* it the hash that will be the key of their statement.  A request copies  *)
(* the hash and the assigned values, and shares the list; the task of a    *)
(* builder has its address, and reads what it has collected when it runs.  *)
(***************************************************************************)
EXTENDS SqlText

CONSTANTS
    Members,        \* the members of the structure
    AutoIncrement,  \* those of type AUTO_INCREMENT
    Kinds,          \* the condition types it uses, of AND, OR and NOT
    Values,
    Null,           \* a member without a value, a parameter not bound
    CondsFrozen,    \* the client adds no condition while a request shares the list
    MaxObjects,     \* bounds on the objects, on the conditions of all of them,
    MaxConds,
    MaxRequests,    \* on the requests,
    MaxBuilders,    \* and on the builders, and the parts and the tables of one
    MaxParts

ASSUME BoundsAssumption == /\ MaxObjects \in Nat \ {0} /\ MaxConds \in Nat /\ MaxRequests \in Nat
                           /\ MaxBuilders \in Nat /\ MaxParts \in Nat
ASSUME MembersAssumption == Members \subseteq Nat /\ IsFiniteSet(Members) /\ AutoIncrement \subseteq Members
ASSUME NullAssumption == \A seqs \in SUBSET Members : Null \notin [seqs -> Values]

NoList == 0
NoBuilder == 0
NoRequest == [op |-> "none"]

VARIABLES
    obj,            \* the client's object
    objects,        \* how many it has had
    lists,          \* every list of conditions made: sequences of [entry, value]
    builders,       \* the unions, joins and copies begun: what each has collected
    queue,          \* the requests handed in, oldest first
    requests,       \* how many there were
    pc, cur, key,   \* where the worker is in execute(), for which request and key
    read_stmts_,    \* the texts of the statements it has, by key
    text, bound     \* the statement it uses, and its parameters

clientVars == <<obj, objects, lists, builders>>
workerVars == <<pc, cur, key, read_stmts_, text, bound>>
vars == <<clientVars, queue, requests, workerVars>>

\* Per member the condition type named last and not yet used, and its value;
\* the members assigned; the hash of the conditions and their list, an index of
\* lists or NoList.
Blank == [cond_ |-> [m \in Members |-> None], value_ |-> [m \in Members |-> Null],
          seqset_ |-> {}, hashv_ |-> <<>>, conds_ |-> NoList]

Init == /\ obj = Blank
        /\ objects = 1
        /\ lists = <<>>
        /\ builders = <<>>
        /\ queue = <<>>
        /\ requests = 0
        /\ pc = "idle"
        /\ cur = NoRequest
        /\ key = <<>>
        /\ read_stmts_ = <<>>
        /\ text = <<>>
        /\ bound = <<>>

ListAt(l) == IF l = NoList THEN <<>> ELSE lists[l]
Entries(list) == MapSeq(LAMBDA c : c.entry, list)
ValuesOf(list) == MapSeq(LAMBDA c : c.value, list)

\* The conditions of an object as a request or a builder takes them.  asked is
\* history: the list as it is now.
Snapshot == [hash |-> obj.hashv_, params |-> obj.conds_, asked |-> ListAt(obj.conds_)]

\* union_read<Ret>() of no object
Without == [hash |-> <<>>, params |-> NoList, asked |-> <<>>]

\* The request whose statement has these tables and these conditions.
Asked(q, froms, conds) ==
    LET Of(c) == Part("A", IF c = <<>> /\ q.op # "update" THEN None ELSE "A", c)
    IN  Request(q.op, FALSE, CASE q.op = "join" -> "J" [] q.op = "copy" -> "B" [] OTHER -> None,
                froms, MapSeq(Of, conds), q.seqs)

Pending == {queue[i] : i \in 1..Len(queue)} \cup ({cur} \ {NoRequest})

-----------------------------------------------------------------------------
(* The object *)

\* The client goes on with another object of the structure.
NewObject == /\ objects < MaxObjects
             /\ objects' = objects + 1
             /\ obj' = Blank
             /\ UNCHANGED <<lists, builders, queue, requests, workerVars>>

\* AND(), OR(), NOT() of a member
Name(m, kind) == /\ obj' = [obj EXCEPT !.cond_[m] = kind]
                 /\ UNCHANGED <<objects, lists, builders, queue, requests, workerVars>>

PartsInUse == (UNION {Range(q.parts) : q \in Pending}) \cup (UNION {Range(b.parts) : b \in Range(builders)})

\* OBJ::append of a condition
AppendCond(entry, value) ==
    LET c == [entry |-> entry, value |-> value]
        first == obj.conds_ = NoList
        at == IF first THEN Len(lists) + 1 ELSE obj.conds_
    IN  /\ Len(FlattenSeq(lists)) < MaxConds
        /\ CondsFrozen => \A part \in PartsInUse : part.params # at
        /\ lists' = IF first THEN Append(lists, <<c>>) ELSE [lists EXCEPT ![at] = Append(@, c)]
        /\ obj' = [obj EXCEPT !.conds_ = at,
                              !.hashv_ = Append(@, entry),
                              !.cond_[entry.mem] = None]
        /\ UNCHANGED <<objects, builders, queue, requests, workerVars>>

\* A comparison without a condition type throws.
Compare(m, op, value) == /\ obj.cond_[m] # None
                         /\ AppendCond(Entry(m, obj.cond_[m], op), value)

\* GROUP(), ORDER_ASC(), ORDER_DESC()
Order(m, kind) == AppendCond(Entry(m, kind, "=="), Null)

\* Mutant: the number is appended and the value is not stored.
Assign_Lost(m, value) == /\ obj.cond_[m] = None
                         /\ m \notin AutoIncrement
                         /\ obj' = [obj EXCEPT !.seqset_ = @ \cup {m}]
                         /\ UNCHANGED <<objects, lists, builders, queue, requests, workerVars>>

\* operator=; it throws after a condition type, and on an AUTO_INCREMENT.
Assign(m, value) == /\ obj.cond_[m] = None
                    /\ m \notin AutoIncrement
                    /\ obj' = [obj EXCEPT !.value_[m] = value, !.seqset_ = @ \cup {m}]
                    /\ UNCHANGED <<objects, lists, builders, queue, requests, workerVars>>

-----------------------------------------------------------------------------
(* The requests.  asked, wanted and froms are history: the conditions and  *)
(* the assignments that the object had, and the tables of a builder.       *)

HandIn(op, builder, parts, froms, seqs, values) ==
    /\ requests < MaxRequests
    /\ requests' = requests + 1
    /\ queue' = Append(queue, [op |-> op, builder |-> builder, parts |-> parts, seqs |-> seqs, values |-> values,
                               asked |-> MapSeq(LAMBDA part : part.asked, parts),
                               froms |-> froms,
                               wanted |-> [m \in seqs |-> obj.value_[m]]])
    /\ UNCHANGED workerVars

\* ReadCond::append: it throws when the object has no condition.
Read(op) == /\ obj.conds_ # NoList
            /\ HandIn(op, NoBuilder, <<Snapshot>>, <<>>, {}, <<>>)
            /\ UNCHANGED clientVars

\* Mutant: the request keeps the address of the client's object.
Update_KeepsAddress == /\ HandIn("update", NoBuilder, <<Snapshot>>, <<>>, obj.seqset_, Null)
                       /\ UNCHANGED clientVars

\* UpdateCondImpl::copy_refobj
Update == /\ HandIn("update", NoBuilder, <<Snapshot>>, <<>>, obj.seqset_, [m \in obj.seqset_ |-> obj.value_[m]])
          /\ UNCHANGED clientVars

-----------------------------------------------------------------------------
(* Unions, joins and copies                                                *)

Table(n) == [tbl |-> IF n = 1 THEN "A" ELSE "B", equals |-> IF n = 1 THEN <<>> ELSE <<"A.n = B.n">>]

\* What a client may pass: no object, or one with conditions.
Passed == {Without} \cup (IF obj.conds_ = NoList THEN {} ELSE {Snapshot})

Idle == UNCHANGED <<obj, objects, lists, queue, requests, workerVars>>

\* Sqlite::union_read, join_read, copy: it holds itself, so it never goes.
Begin(op, froms, parts) == /\ Len(builders) < MaxBuilders
                           /\ builders' = Append(builders, [op |-> op, froms |-> froms, parts |-> parts])
                           /\ Idle

\* A client that keeps to what it committed collects no more while it is pending.
Collects(b) == CondsFrozen => \A q \in Pending : q.builder # b

\* union_read, union_all
UnionRead(b) == /\ builders[b].op = "union"
                /\ Len(builders[b].parts) < MaxParts
                /\ Collects(b)
                /\ \E part \in Passed : builders' = [builders EXCEPT ![b].parts = Append(@, part)]
                /\ Idle

\* join, left_join
Join(b) == /\ builders[b].op \in {"join", "copy"}
           /\ Len(builders[b].froms) < MaxParts
           /\ Collects(b)
           /\ builders' = [builders EXCEPT ![b].froms = Append(@, Table(Len(@) + 1))]
           /\ Idle

\* The condition of a join or a copy comes with its commit, and stays (set_cond).
SetCond(b) == /\ Len(builders[b].parts) < MaxParts
              /\ Collects(b)
              /\ builders' = [builders EXCEPT ![b].parts = Append(@, Snapshot)]
              /\ UNCHANGED <<obj, objects, lists>>

\* "sqlite join read requires at least two tables"
TooFewTables(b) == builders[b].op = "join" /\ Len(builders[b].froms) < 2

\* commit, to
Commit(b) ==
    /\ ~TooFewTables(b)
    /\ \/ UNCHANGED clientVars
       \/ builders[b].op # "union" /\ obj.conds_ # NoList /\ SetCond(b)
    /\ HandIn(builders[b].op, b, builders'[b].parts, builders[b].froms, {}, <<>>)

CommitRefused(b) == /\ TooFewTables(b)
                    /\ obj.conds_ # NoList
                    /\ SetCond(b)
                    /\ UNCHANGED <<queue, requests, workerVars>>

-----------------------------------------------------------------------------
(* The worker: SqliteContext::execute *)

PartsNow(q) == IF q.builder = NoBuilder THEN q.parts ELSE builders[q.builder].parts
FromsNow(q) == IF q.builder = NoBuilder THEN <<>> ELSE builders[q.builder].froms

KeyOf(q) == Key(Asked(q, FromsNow(q), MapSeq(LAMBDA part : part.hash, PartsNow(q))))

\* read, update, del, copy: they make the key and call execute.
Take == /\ pc = "idle"
        /\ queue # <<>>
        /\ cur' = Head(queue)
        /\ key' = KeyOf(Head(queue))
        /\ queue' = Tail(queue)
        /\ pc' = "find"
        /\ UNCHANGED <<clientVars, requests, read_stmts_, text, bound>>

Answer == pc' = "idle" /\ cur' = NoRequest /\ key' = <<>> /\ text' = <<>> /\ bound' = <<>>

Quiet == UNCHANGED <<clientVars, queue, requests>>

Find == /\ pc = "find"
        /\ key \in DOMAIN read_stmts_
        /\ text' = read_stmts_[key]
        /\ pc' = "bind"
        /\ UNCHANGED <<cur, key, read_stmts_, bound>>
        /\ Quiet

\* The text is made of the list as it is now.
Create ==
    LET now == Asked(cur, FromsNow(cur), MapSeq(LAMBDA part : Entries(ListAt(part.params)), PartsNow(cur)))
    IN  /\ pc = "find"
        /\ key \notin DOMAIN read_stmts_
        /\ IF MakeThrows(now)
           THEN Answer /\ UNCHANGED read_stmts_
           ELSE /\ text' = Sql(now)
                /\ read_stmts_' = [k \in DOMAIN read_stmts_ \cup {key} |->
                                      IF k = key THEN Sql(now) ELSE read_stmts_[k]]
                /\ pc' = "bind"
                /\ UNCHANGED <<cur, key, bound>>
        /\ Quiet

\* A request that kept the address would read the object of now.
Assigned(q, m) == IF q.values = Null THEN obj.value_[m] ELSE q.values[m]

\* The values the list and the copy hold now, for every parameter.
Bind ==
    LET given == MapSeq(LAMBDA m : Assigned(cur, m), Ascending(cur.seqs))
                    \o Flat(LAMBDA part : ValuesOf(ListAt(part.params)), PartsNow(cur))
        n == Len(Slots(text))
    IN  /\ pc = "bind"
        /\ IF Len(given) > n
           THEN /\ read_stmts_' = [k \in DOMAIN read_stmts_ \ {key} |-> read_stmts_[k]]
                /\ Answer
           ELSE /\ bound' = [i \in 1..n |-> IF i <= Len(given) THEN given[i] ELSE Null]
                /\ pc' = "step"
                /\ UNCHANGED <<cur, key, read_stmts_, text>>
        /\ Quiet

Step == /\ pc = "step"
        /\ Answer
        /\ UNCHANGED read_stmts_
        /\ Quiet

-----------------------------------------------------------------------------

Next == \/ NewObject
        \/ \E m \in Members, kind \in Kinds : Name(m, kind)
        \/ \E m \in Members, value \in Values : Compare(m, "==", value) \/ Assign(m, value)
        \/ \E m \in Members : Order(m, "ORDER_ASC")
        \/ \E op \in {"read", "del"} : Read(op)
        \/ Update
        \/ \E part \in Passed : Begin("union", <<>>, <<part>>)
        \/ \E op \in {"join", "copy"} : Begin(op, <<Table(1)>>, <<>>)
        \/ \E b \in 1..Len(builders) : UnionRead(b) \/ Join(b) \/ Commit(b) \/ CommitRefused(b)
        \/ Take \/ Find \/ Create \/ Bind \/ Step

Spec == Init /\ [][Next]_vars

-----------------------------------------------------------------------------
(* What a client can ask *)

\* The request a client meant with q.
Meant(q) == Asked(q, q.froms, MapSeq(Entries, q.asked))

ConditionTypes == [entry : [mem : Members, kind : Kinds \cup {"ORDER_ASC"}, op : {"=="}],
                   value : Values \cup {Null}]

Tables(n) == [i \in 1..n |-> Table(i)]

\* One object's conditions, or what a builder collects.
CanAsk(q) == /\ q.op \in {"read", "del", "update"} => Len(q.asked) = 1
             /\ q.op = "union" => q.asked # <<>>
             /\ q.op \notin {"update", "union"} => \A i \in 1..Len(q.asked) : q.asked[i] # <<>>
             /\ q.op \notin {"join", "copy"} => q.froms = <<>>
             /\ q.op = "copy" => q.froms # <<>>
             /\ q.op = "join" => Len(q.froms) >= 2
             /\ q.op # "update" => q.seqs = {}

Askings(froms, asked) ==
    {q \in [op : {"read", "del", "update", "union", "join", "copy"}, seqs : SUBSET Members,
            froms : froms, asked : asked] : CanAsk(q)}

\* Those that share a key share a text.
KeysFaithful(qs) == \A q, r \in qs : Key(Meant(q)) = Key(Meant(r)) => Sql(Meant(q)) = Sql(Meant(r))

\* No text has more places than there are values for it.
PlacesFit(qs) ==
    \A q \in qs : Len(Slots(Sql(Meant(q)))) \in 0..Len(Ascending(q.seqs)) + Len(Flat(ValuesOf, q.asked))

-----------------------------------------------------------------------------
(* Properties *)

TypeOK ==
    /\ obj.cond_ \in [Members -> Kinds \cup {None}]
    /\ obj.value_ \in [Members -> Values \cup {Null}]
    /\ obj.seqset_ \subseteq Members
    /\ obj.conds_ \in 0..Len(lists)
    /\ obj.hashv_ = Entries(ListAt(obj.conds_))
    /\ objects \in 1..MaxObjects /\ requests \in 0..MaxRequests
    /\ \A part \in PartsInUse : part.params \in 0..Len(lists)
    /\ Len(builders) <= MaxBuilders
    /\ \A q \in Pending : /\ q.builder \in 0..Len(builders)
                           /\ q.seqs \subseteq Members
                           /\ q.wanted \in [q.seqs -> Values]
    /\ pc \in {"idle", "find", "bind", "step"}

(* The statement the worker runs has the conditions, the assignments and    *)
(* the values that the object had when the request was handed in, whatever  *)
(* the client has done with it since: "we have no choice to copy the        *)
(* parameters for this asynchronous operator" (sqlite_event.h:85-88).       *)
RequestAsHandedIn ==
    pc = "step" =>
        /\ text = Sql(Meant(cur))
        /\ bound = MapSeq(LAMBDA m : cur.wanted[m], Ascending(cur.seqs)) \o Flat(ValuesOf, cur.asked)

=============================================================================

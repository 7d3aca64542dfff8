-------------------------------- MODULE Rows --------------------------------
(***************************************************************************)
(* From objects to rows and back: the objects of a client (ref.h), the     *)
(* table made for their structure, the INSERT and UPDATE texts that carry  *)
(* the objects' values by position (sqlite_readref.h, ref_ops.h), and the  *)
(* objects read back by position (sqlite_writeref.h).                      *)
(***************************************************************************)
EXTENDS Integers, SequencesExt

CONSTANTS
    Order,              \* the members of the structure in the order of its text
    AutoIncrement,      \* those of type AUTO_INCREMENT
    Nullable,           \* those declared with CAN_BE_NULL
    Results,            \* what is read into: a TMP_STRUCT's members in its order
    Values,
    Null,               \* no value: a member not assigned, a column's NULL
    Zero,               \* what sqlite3_column_int says of NULL
    AssignsToCopies,    \* the client assigns new members in copies of objects
    MaxObjects,         \* bounds on the client's objects, the rows of the table,
    MaxRows,
    MaxRequests         \* and on the requests

Members == Range(Order)

ASSUME OrderAssumption == /\ Order \in Seq(Members) /\ IsInjective(Order)
                          /\ AutoIncrement \cup Nullable \subseteq Members
ASSUME ResultsAssumption == \A fields \in Results : fields \in Seq(Members) /\ IsInjective(fields)
ASSUME NullAssumption == Null \notin Values \cup {Zero}
ASSUME BoundsAssumption == MaxObjects \in Nat /\ MaxRows \in Nat /\ MaxRequests \in Nat

VARIABLES
    objs,       \* the client's objects
    exists,     \* the table is there
    table,      \* its rows, by column
    request,    \* the request the worker has not executed yet, or NoRequest
    requests,   \* how many there were
    answered,   \* the number the last request answered, the rows it is about,
                \* and whether its statement ran
    want        \* history: the table as the client understands its requests

vars == <<objs, exists, table, request, requests, answered, want>>

Gone == 0
NoRequest == [op |-> "none"]
Answer(value, rows, ran) == [value |-> value, rows |-> rows, ran |-> ran]
NoAnswer == Answer(0, 0, FALSE)

\* What members hold, which have a value, the members whose numbers the object
\* has noted, and the object they note them in: the one they were made in.
Blank(home) == [value |-> [m \in Members |-> Null], flag |-> {}, seqset |-> {}, home |-> home]

Init == /\ objs = <<>>
        /\ exists = FALSE
        /\ table = <<>>
        /\ request = NoRequest
        /\ requests = 0
        /\ answered = NoAnswer
        /\ want = <<>>

-----------------------------------------------------------------------------
(* The objects *)

Construct == /\ Len(objs) < MaxObjects
             /\ objs' = Append(objs, Blank(Len(objs) + 1))
             /\ UNCHANGED <<exists, table, request, requests, answered, want>>

\* Into a list of objects to write, for example.
Copy(o) == /\ Len(objs) < MaxObjects
           /\ objs' = Append(objs, objs[o])
           /\ UNCHANGED <<exists, table, request, requests, answered, want>>

\* Mutant: flag_ is set before it is tested, and the number is never noted.
Assign_NotNoted(o, m, v) ==
    /\ m \notin AutoIncrement
    /\ m \in objs[o].flag \/ objs[o].home = o
    /\ objs' = [objs EXCEPT ![o].value[m] = v, ![o].flag = @ \cup {m}]
    /\ UNCHANGED <<exists, table, request, requests, answered, want>>

\* Only a member that has no value yet notes its number.  A fetched object's
\* members point to an object that is gone: the client leaves those alone.
Assign(o, m, v) ==
    LET set == [objs EXCEPT ![o].value[m] = v, ![o].flag = @ \cup {m}] IN
    /\ m \notin AutoIncrement
    /\ \/ m \in objs[o].flag
       \/ objs[o].home = o
       \/ AssignsToCopies /\ objs[o].home # Gone
    /\ objs' = IF m \in objs[o].flag THEN set ELSE [set EXCEPT ![set[o].home].seqset = @ \cup {m}]
    /\ UNCHANGED <<exists, table, request, requests, answered, want>>

\* The object as its client sees it through VALUE() and FLAG().
Entity(o) == [m \in Members |-> IF m \in objs[o].flag THEN objs[o].value[m] ELSE Null]

-----------------------------------------------------------------------------
(* Texts *)

\* Mutant: a member is nullable when it is declared so.
CanBeNull_Declared(m) == m \in Nullable \cup AutoIncrement

\* Declared or not, can_be_null_ is false; AUTO_INCREMENT has no NOT NULL.
CanBeNull(m) == m \in AutoIncrement

\* The numbers of S, from the least.
Ascending(S) == [k \in 1..Cardinality(S) |-> CHOOSE n \in S : Cardinality({m \in S : m <= n}) = k]

\* These members in the order of the set.
InOrder(members) == LET at == Ascending({i \in 1..Len(Order) : Order[i] \in members})
                    IN  [k \in 1..Len(at) |-> Order[at[k]]]

\* The members the object has noted and that have a value.
Assigned(o) == InOrder(objs[o].seqset \cap objs[o].flag)

NoText == [fields |-> <<>>, values |-> <<>>]

\* INSERT INTO table (fields of the first object) VALUES (values of each).
InsertText(list) ==
    [fields |-> Assigned(list[1]),
     values |-> [i \in 1..Len(list) |->
                    [k \in 1..Len(Assigned(list[i])) |-> objs[list[i]].value[Assigned(list[i])[k]]]]]

\* Mutant: write(list) counts a list as one.
Entities_OfArguments(lists) == Len(lists)

\* entity_, the number of objects of all arguments
Entities(lists) == Len(FlattenSeq(lists))

\* Arguments whose text cannot be made: their first object has no value.
MakeThrows(lists) == \E i \in 1..Len(lists) : lists[i] # <<>> /\ Assigned(lists[i][1]) = <<>>

-----------------------------------------------------------------------------
(* sqlite3 *)

\* The text of no objects does nothing.
Executes(text) ==
    text # NoText =>
       /\ exists
       /\ \A i \in 1..Len(text.values) : Len(text.values[i]) = Len(text.fields)
       /\ \A m \in Members : m \in Range(text.fields) \/ CanBeNull(m)

ValueAt(fields, values, m) ==
    IF m \in Range(fields) THEN values[CHOOSE k \in 1..Len(fields) : fields[k] = m] ELSE Null

RowsOf(text) ==
    [i \in 1..Len(text.values) |-> [m \in Members |-> ValueAt(text.fields, text.values[i], m)]]

-----------------------------------------------------------------------------
(* Requests: made when the client calls, executed by the worker later.     *)

Ask(q) == /\ request = NoRequest
          /\ requests < MaxRequests
          /\ requests' = requests + 1
          /\ request' = q
          /\ answered' = NoAnswer
          /\ UNCHANGED <<objs, exists, table, want>>

CreateTable == Ask([op |-> "create"])

\* write(args...): each argument an object, here a list of one, or a container.
Write(lists) ==
    /\ ~MakeThrows(lists)
    /\ Ask([op |-> "write", count |-> Entities(lists),
            texts |-> [i \in 1..Len(lists) |-> IF lists[i] = <<>> THEN NoText ELSE InsertText(lists[i])],
            entities |-> [i \in 1..Len(lists) |-> [k \in 1..Len(lists[i]) |-> Entity(lists[i][k])]]])

\* update(obj) without a condition.
Update(o) == Ask([op |-> "update", set |-> [m \in objs[o].seqset |-> objs[o].value[m]],
                  entity |-> Entity(o)])

\* read<std::list<Ret>>() and read<Ret>()
Read(fields) == Ask([op |-> "read", fields |-> fields])
ReadOne(fields) == Ask([op |-> "read_one", fields |-> fields])

\* count(obj) and del(obj), the condition being m == v.  (A count without condition
\* shares the key of a read: StmtCache.)
Count(m, v) == Ask([op |-> "count", mem |-> m, value |-> v])
Del(m, v) == Ask([op |-> "del", mem |-> m, value |-> v])

\* The rows the condition is about
Asked(rows) == {i \in 1..Len(rows) : rows[i][request.mem] = request.value}

Executed == request' = NoRequest /\ UNCHANGED requests

ExecuteCreate == /\ request.op = "create"
                 /\ exists' = TRUE
                 /\ Executed
                 /\ UNCHANGED <<objs, table, answered, want>>

\* The statements up to the first that fails; also one that executes may fail,
\* when the database is busy.  The first done of them stay.
ExecuteWrite(done) ==
    LET n == Len(request.texts) IN
    /\ request.op = "write"
    /\ \A i \in 1..done : Executes(request.texts[i])
    /\ table' = table \o FlattenSeq([i \in 1..done |-> RowsOf(request.texts[i])])
    /\ want' = want \o FlattenSeq(SubSeq(request.entities, 1, done))
    /\ answered' = IF done = n THEN Answer(request.count, Len(table') - Len(table), TRUE) ELSE NoAnswer
    /\ Executed
    /\ UNCHANGED <<objs, exists>>

\* UPDATE table SET ...: all rows.
ExecuteUpdate ==
    /\ request.op = "update"
    /\ exists
    /\ DOMAIN request.set # {}
    /\ table' = [i \in 1..Len(table) |->
                    [m \in Members |-> IF m \in DOMAIN request.set THEN request.set[m] ELSE table[i][m]]]
    /\ want' = [i \in 1..Len(want) |->
                    [m \in Members |-> IF request.entity[m] # Null THEN request.entity[m] ELSE want[i][m]]]
    /\ Executed
    /\ UNCHANGED <<objs, exists, answered>>

Kept(rows) == Ascending({i \in 1..Len(rows) : i \notin Asked(rows)})

\* exec_entity counts the rows that the steps return, and a DELETE returns none.
ExecuteDel == /\ request.op = "del"
              /\ exists
              /\ table' = [k \in 1..Len(Kept(table)) |-> table[Kept(table)[k]]]
              /\ want' = [k \in 1..Len(Kept(want)) |-> want[Kept(want)[k]]]
              /\ Executed
              /\ UNCHANGED <<objs, exists, answered>>

\* Nothing to set, no table, or a step that fails, checked or not.
Fails == /\ request.op \in {"read", "read_one", "update", "del", "count"}
         /\ Executed
         /\ UNCHANGED <<objs, exists, table, answered, want>>

\* COUNT(the first member that is not AUTO_INCREMENT), which counts the rows
\* where it is not NULL
Counted == InOrder(Members \ AutoIncrement)[1]

ExecuteCount ==
    /\ request.op = "count"
    /\ exists
    /\ answered' = Answer(Cardinality({i \in Asked(table) : table[i][Counted] # Null}),
                          Cardinality(Asked(want)), TRUE)
    /\ Executed
    /\ UNCHANGED <<objs, exists, table, want>>

\* Nobody looks whether the step failed, and the number is one not initialised.
CountUnset ==
    /\ request.op = "count"
    /\ exists
    /\ \E n \in 0..MaxRows + 1 : answered' = Answer(n, Cardinality(Asked(want)), FALSE)
    /\ Executed
    /\ UNCHANGED <<objs, exists, table, want>>

\* Mutant: the first column fetched is column 1.
Column_FromOne(fields, row, k) ==
    IF k < Len(fields) /\ row[fields[k + 1]] # Null THEN row[fields[k + 1]] ELSE Zero

\* sqlite3_column_int(stmt, col_), col_ counted up with the members.  (A text
\* that is NULL would leave the member unset: no text column can be NULL.)
Column(fields, row, k) == IF row[fields[k]] # Null THEN row[fields[k]] ELSE Zero

\* SELECT fields, into an object with these members in this order.
Fetched(fields, row) ==
    [Blank(Gone) EXCEPT !.flag = Range(fields),
        !.value = [m \in Members |->
                      IF m \in Range(fields)
                      THEN Column(fields, row, CHOOSE k \in 1..Len(fields) : fields[k] = m) ELSE Null]]

ExecuteRead ==
    /\ request.op = "read"
    /\ exists
    /\ Len(objs) + Len(table) <= MaxObjects
    /\ objs' = objs \o [i \in 1..Len(table) |-> Fetched(request.fields, table[i])]
    /\ Executed
    /\ UNCHANGED <<exists, table, answered, want>>

\* The first row, if the step finds one; nobody looks why it does not.
ExecuteReadOne == /\ request.op = "read_one"
                  /\ exists
                  /\ Len(objs) < MaxObjects
                  /\ \/ objs' = Append(objs, Blank(Gone))
                     \/ table # <<>> /\ objs' = Append(objs, Fetched(request.fields, table[1]))
                  /\ Executed
                  /\ UNCHANGED <<exists, table, answered, want>>

-----------------------------------------------------------------------------

Objects == 1..Len(objs)

\* An empty container, one object, a container of two, two arguments.
Arguments == {<< <<>> >>} \cup {<< <<o>> >> : o \in Objects}
             \cup {<< <<o, p>> >> : o, p \in Objects} \cup {<< <<o>>, <<p>> >> : o, p \in Objects}

Client == \/ Construct
          \/ \E o \in Objects : \/ Copy(o)
                                \/ \E m \in Members, v \in Values : Assign(o, m, v)
                                \/ Update(o)
          \/ \E lists \in Arguments : Len(table) + Entities(lists) <= MaxRows /\ Write(lists)
          \/ CreateTable
          \/ \E fields \in Results : Read(fields) \/ ReadOne(fields)
          \/ \E m \in Members \ AutoIncrement, v \in Values : Count(m, v) \/ Del(m, v)

Worker == \/ ExecuteCreate
          \/ request.op = "write" /\ \E done \in 0..Len(request.texts) : ExecuteWrite(done)
          \/ ExecuteUpdate \/ ExecuteDel
          \/ ExecuteRead \/ ExecuteReadOne
          \/ ExecuteCount \/ CountUnset
          \/ Fails

Next == Client \/ Worker

Spec == Init /\ [][Next]_vars

-----------------------------------------------------------------------------
(* Properties *)

ObjectTypes ==
    /\ objs \in Seq([value : [Members -> Values \cup {Null, Zero}],
                     flag : SUBSET Members, seqset : SUBSET Members, home : Nat])
    /\ \A o \in Objects : /\ objs[o].home \in {Gone} \cup Objects
                          /\ objs[o].home = o => objs[o].seqset = objs[o].flag

TypeOK == /\ ObjectTypes
          /\ exists \in BOOLEAN
          /\ table \in Seq([Members -> Values \cup {Null}])
          /\ want \in Seq([Members -> Values \cup {Null}])

(* A row has under each column what its object held in that member, though  *)
(* values travel by position, a container's under the first object's fields *)
(* and an object may change after the call (sqlite_readref.h:100-118): that *)
(* no column may be NULL is what keeps the values of an object that has     *)
(* others assigned from getting under the wrong columns.                    *)
RowsHoldTheirObjects == table = want

(* A write that answers a number has stored that many rows, and a count     *)
(* answers the number of rows, although it asks for that of one column      *)
(* (sqlite_event.h:28, 42, 66, ref_ops.h:130-135).  A count whose only step *)
(* failed answers any number (sqlite_event.h:138).                          *)
AnswerCountsRows == answered.ran => answered.value = answered.rows

(* Objects that are read have in each member what their row has in that     *)
(* column, also when a TMP_STRUCT leaves members out or names them in       *)
(* another order: columns are fetched by number (sqlite_writeref.h:46-49).  *)
FetchIsFaithful ==
    [][request.op \in {"read", "read_one"} /\ request' = NoRequest =>
          \A o \in (Len(objs) + 1)..Len(objs') : \A m \in objs'[o].flag :
             LET wanted == want[o - Len(objs)][m] IN
             objs'[o].value[m] = IF wanted = Null THEN Zero ELSE wanted]_vars

=============================================================================

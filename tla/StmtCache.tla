------------------------------ MODULE StmtCache ------------------------------
(***************************************************************************)
(* SqliteContext of src/src/sqlite/sqlite_context.h: one connection, its   *)
(* map read_stmts_ from keys to prepared statements, and execute().        *)
(*                                                                         *)
(* A connection is used by one thread at a time (ConnPool), so the steps   *)
(* of one execute() do not interleave with another: they are separate only *)
(* where sqlite, or the making of the text, may fail.                      *)
(*                                                                         *)
(* sqlite3 is external.  A statement keeps its text, the value bound to    *)
(* each parameter, and whether it is stepped and not reset: it refuses a   *)
(* bind then, and a bind to a parameter it does not have.                  *)
(***************************************************************************)
EXTENDS SqlText, FiniteSets

CONSTANTS
    Requests,       \* the requests of the clients
    Values,         \* the values their parameters can have
    Handles,        \* the statements sqlite can have open on the connection
    Null            \* no statement, and the value NULL

ASSUME NullAssumption == Null \notin Handles \cup Requests

VARIABLES
    read_stmts_,    \* the map, a function on the keys it has
    open,           \* the open statements: [sql, bound, stepped]
    pc,             \* where execute() is
    req,            \* the request it executes, with the value of its parameters
    stmt            \* its local variable

vars == <<read_stmts_, open, pc, req, stmt>>

Keys == {Key(r) : r \in Requests}
NoReq == [request |-> Null, value |-> Null]

Init == /\ read_stmts_ = <<>>
        /\ open = <<>>
        /\ pc = "idle"
        /\ req = NoReq
        /\ stmt = Null

Less(f, x) == [y \in DOMAIN f \ {x} |-> f[y]]
Plus(f, x, v) == [y \in DOMAIN f \cup {x} |-> IF y = x THEN v ELSE f[y]]

Return == pc' = "idle" /\ req' = NoReq /\ stmt' = Null

-----------------------------------------------------------------------------
(* read(), update(), del(), copy(): they make the key and call execute(). *)

Call == /\ pc = "idle"
        /\ \E r \in Requests, v \in Values : req' = [request |-> r, value |-> v]
        /\ pc' = "find"
        /\ UNCHANGED <<read_stmts_, open, stmt>>

Find ==
    LET key == Key(req.request)
    IN  /\ pc = "find"
        /\ IF key \in DOMAIN read_stmts_
           THEN stmt' = read_stmts_[key] /\ pc' = "bind"
           ELSE stmt' = Null /\ pc' = "create"
        /\ UNCHANGED <<read_stmts_, open, req>>

\* sqlite3_prepare_v2
Prepared(text) == [sql |-> text, stepped |-> FALSE,
                   bound |-> [i \in DOMAIN Slots(text) |-> Null]]

\* Mutant: the statement is entered under its text.
Create_UnderText ==
    /\ pc = "create"
    /\ ~MakeThrows(req.request)
    /\ \E h \in Handles \ DOMAIN open :
          /\ open' = Plus(open, h, Prepared(Sql(req.request)))
          /\ read_stmts_' = Plus(read_stmts_, Sql(req.request), h)
          /\ stmt' = h
    /\ pc' = "bind"
    /\ UNCHANGED req

\* create_stmt succeeds.
Create == /\ pc = "create"
          /\ ~MakeThrows(req.request)
          /\ \E h \in Handles \ DOMAIN open :
                /\ open' = Plus(open, h, Prepared(Sql(req.request)))
                /\ read_stmts_' = Plus(read_stmts_, Key(req.request), h)
                /\ stmt' = h
          /\ pc' = "bind"
          /\ UNCHANGED req

\* It throws: the text cannot be made, or sqlite does not prepare it (there is
\* no such table yet, or the connection is at its limit).  The exception leaves
\* execute(), and an entry without a statement if the subscript read_stmts_[hash]
\* was evaluated before the right operand, which C++11 leaves to the compiler.
CreateFails ==
    /\ pc = "create"
    /\ read_stmts_' \in {read_stmts_, Plus(read_stmts_, Key(req.request), Null)}
    /\ Return
    /\ UNCHANGED open

\* The i-th parameter of statement h takes this value: BindSqlParam has a bind
\* for its type, and sqlite3_bind returns SQLITE_OK.
Accepts(h, i, e) == /\ Bindable(e)
                    /\ h # Null
                    /\ ~open[h].stepped
                    /\ i \in DOMAIN open[h].bound

\* Mutant: bind() does not look at what sqlite3_bind returns.
AllAccepted_Unlooked == LET binds == Binds(req.request)
                        IN  \A i \in DOMAIN binds : Bindable(binds[i])

AllAccepted == LET binds == Binds(req.request)
               IN  \A i \in DOMAIN binds : Accepts(stmt, i, binds[i])

BoundBy(s, n, value) ==
    [s EXCEPT !.bound = [i \in DOMAIN s.bound |-> IF i <= n THEN value ELSE s.bound[i]]]

\* Mutant: the last parameter is left out.
Bind_OneShort ==
    /\ pc = "bind"
    /\ AllAccepted
    /\ open' = IF stmt = Null THEN open
               ELSE [open EXCEPT ![stmt] = BoundBy(@, Len(Binds(req.request)) - 1, req.value)]
    /\ pc' = "step"
    /\ UNCHANGED <<read_stmts_, req, stmt>>

Bind == /\ pc = "bind"
        /\ AllAccepted
        /\ open' = IF stmt = Null THEN open
                   ELSE [open EXCEPT ![stmt] = BoundBy(@, Len(Binds(req.request)), req.value)]
        /\ pc' = "step"
        /\ UNCHANGED <<read_stmts_, req, stmt>>

\* The handler of execute(): sqlite3_finalize and erase, then throw.
Discard == /\ open' = IF stmt = Null THEN open ELSE Less(open, stmt)
           /\ read_stmts_' = Less(read_stmts_, Key(req.request))
           /\ Return

\* Mutant: the statement is finalized and stays in the map.
BindFails_KeepsEntry ==
    /\ pc = "bind"
    /\ ~AllAccepted
    /\ open' = IF stmt = Null THEN open ELSE Less(open, stmt)
    /\ Return
    /\ UNCHANGED read_stmts_

BindFails == /\ pc = "bind"
             /\ ~AllAccepted
             /\ Discard

\* exe(stmt): the results of del and of a read into a container are checked.
Checked(r) == r.op = "del" \/ (r.op \in {"read", "union", "join"} /\ r.many)

\* sqlite3_step
Stepped(s) == [s EXCEPT !.stepped = TRUE]

\* The statement runs, to the end or, for one value, to its first row.  Of a
\* step that fails (the database is busy, a constraint does not hold) an
\* unchecked one sees nothing.
Step == /\ pc = "step"
        /\ stmt # Null
        /\ open' = [open EXCEPT ![stmt] = Stepped(@)]
        /\ pc' = "reset"
        /\ UNCHANGED <<read_stmts_, req, stmt>>

\* The step, or the fetch of a row, throws.
StepFails == /\ pc = "step"
             /\ stmt = Null => Checked(req.request)
             /\ Discard

\* An unchecked step of a null pointer returns SQLITE_MISUSE; the reset ignores
\* a null pointer, and clear_bindings dereferences it.
Crash == /\ pc = "step"
         /\ stmt = Null
         /\ ~Checked(req.request)
         /\ pc' = "crashed"
         /\ UNCHANGED <<read_stmts_, open, req, stmt>>

\* sqlite3_reset and sqlite3_clear_bindings
Cleaned(s) == [s EXCEPT !.stepped = FALSE, !.bound = [i \in DOMAIN s.bound |-> Null]]

Reset == /\ pc = "reset"
         /\ open' = [open EXCEPT ![stmt] = Cleaned(@)]
         /\ Return
         /\ UNCHANGED read_stmts_

-----------------------------------------------------------------------------

Next == \/ Call \/ Find \/ Create \/ CreateFails \/ Bind \/ BindFails
        \/ Step \/ StepFails \/ Crash \/ Reset

Spec == Init /\ [][Next]_vars

-----------------------------------------------------------------------------
(* Properties *)

TypeOK ==
    /\ DOMAIN read_stmts_ \subseteq Keys
    /\ \A k \in DOMAIN read_stmts_ : read_stmts_[k] \in Handles \cup {Null}
    /\ DOMAIN open \subseteq Handles
    /\ \A h \in DOMAIN open :
          /\ open[h].sql \in {Sql(r) : r \in {s \in Requests : ~MakeThrows(s)}}
          /\ open[h].bound \in [DOMAIN Slots(open[h].sql) -> Values \cup {Null}]
          /\ open[h].stepped \in BOOLEAN
    /\ pc \in {"idle", "find", "create", "bind", "step", "reset", "crashed"}
    /\ req \in [request : Requests, value : Values] \cup {NoReq}
    /\ stmt \in Handles \cup {Null}

\* Requests that share a key share a statement.
KeysFaithful == \A r, s \in Requests : Key(r) = Key(s) => Sql(r) = Sql(s)

\* A text that has a "?" for each parameter has them in their order, and no more.
ParametersFit ==
    \A r \in Requests :
        /\ Binds(r) \in Seq(EntryTypes)
        /\ DOMAIN Binds(r) \subseteq DOMAIN Slots(Sql(r)) => Slots(Sql(r)) = MembersOf(Binds(r))

(* The statement that runs is the one this request's text would prepare:    *)
(* the key under which it was cached stands for nothing but that text       *)
(* (sqlite_context.h:113-193, ref_ops.h:141-151, 268-276, 302-307).         *)
StatementMatchesRequest ==
    pc \in {"bind", "step"} /\ stmt # Null => open[stmt].sql = Sql(req.request)

(* Every parameter of a statement that runs has the value of this request,  *)
(* bound for the member its "?" is compared with or assigned to: nothing is *)
(* left from the statement's last use, nothing is NULL or out of place      *)
(* (sqlite_readref.h:283-329, sqlite_context.h:216-218).                    *)
BindsOnlyOwnParams ==
    pc = "step" /\ stmt # Null =>
        /\ \A i \in DOMAIN open[stmt].bound : open[stmt].bound[i] = req.value
        /\ Slots(open[stmt].sql) = MembersOf(Binds(req.request))

OpenEntries == {k \in DOMAIN read_stmts_ : read_stmts_[k] # Null}

(* Between requests the map owns the open statements one to one: none is    *)
(* open and forgotten, no entry names one that was finalized, no two        *)
(* entries share one, and all are reset and unbound, on every error path    *)
(* (sqlite_context.h:198-218).                                              *)
CacheOwnsStatements ==
    pc = "idle" =>
        /\ {read_stmts_[k] : k \in OpenEntries} = DOMAIN open
        /\ \A k, l \in OpenEntries : read_stmts_[k] = read_stmts_[l] => k = l
        /\ \A h \in DOMAIN open :
              /\ ~open[h].stepped
              /\ \A i \in DOMAIN open[h].bound : open[h].bound[i] = Null

(* An entry without a statement, which a failed preparation may leave       *)
(* behind, never meets sqlite3_clear_bindings in a request with parameters: *)
(* its first bind fails, and the entry goes (sqlite_context.h:200-218).     *)
RequestsWithParametersSurvive == pc = "crashed" => DOMAIN Binds(req.request) = {}

(* The condition of README.md:175-178, which ends with ORDER BY, and any    *)
(* other of fields BindSqlParam knows, is given all its parameters.         *)
DocumentedConditionsBind ==
    pc = "bind" /\ stmt # Null =>
        LET binds == Binds(req.request)
        IN  (\A i \in DOMAIN binds : Bindable(binds[i])) => AllAccepted

=============================================================================

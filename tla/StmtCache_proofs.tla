--------------------------- MODULE StmtCache_proofs ---------------------------
(***************************************************************************)
(* Proofs about StmtCache, for any set of requests, values and handles and *)
(* whichever operand of the assignment comes first.  What Key, Sql, Slots  *)
(* and Binds compute is not looked into.                                   *)
(*                                                                         *)
(* Inv says where each statement is at every step of execute(): Owned is   *)
(* the map and the open statements, one to one at every step; Local ties   *)
(* execute()'s variables to the entry it works on; Clean keeps every       *)
(* statement but the current one reset and unbound; Texts remembers for    *)
(* which key, and so for which text, each statement was prepared.  On it   *)
(* rest the types, and BindInv: what Bind leaves for the step.             *)
(***************************************************************************)
EXTENDS StmtCache, TLAPS

IsStatement(s) == s = [sql |-> s.sql, stepped |-> s.stepped, bound |-> s.bound]

IsClean(s) == ~s.stepped /\ \A i \in DOMAIN s.bound : s.bound[i] = Null

Owned == /\ DOMAIN open \subseteq Handles
         /\ \A h \in DOMAIN open : IsStatement(open[h])
         /\ \A k \in DOMAIN read_stmts_ : read_stmts_[k] \in DOMAIN open \cup {Null}
         /\ \A h \in DOMAIN open : \E k \in DOMAIN read_stmts_ : read_stmts_[k] = h
         /\ \A k, l \in OpenEntries : read_stmts_[k] = read_stmts_[l] => k = l

Working == {"bind", "step", "reset", "crashed"}

Local == /\ pc \in {"idle", "find", "create"} \cup Working
         /\ pc # "idle" => req.request \in Requests
         /\ pc \notin Working => stmt = Null
         /\ pc \in Working => /\ Key(req.request) \in DOMAIN read_stmts_
                              /\ stmt = read_stmts_[Key(req.request)]
         /\ pc = "create" => Key(req.request) \notin DOMAIN read_stmts_
         /\ pc = "reset" => stmt # Null

Clean == \A h \in DOMAIN open : h # stmt \/ pc = "bind" => IsClean(open[h])

Texts == \A k \in OpenEntries :
            \E r \in Requests : Key(r) = k /\ open[read_stmts_[k]].sql = Sql(r)

Inv == Owned /\ Local /\ Clean /\ Texts

-----------------------------------------------------------------------------

(* A new connection has an empty map and no statement.                      *)
LEMMA InitInv == Init => Inv
BY NullAssumption DEF Init, Inv, Owned, Local, Clean, Texts, OpenEntries, Working

(* A step that leaves map and statements alone keeps all but Local; Clean   *)
(* as long as the current statement was clean.                              *)
LEMMA QuietStep ==
  ASSUME Inv, UNCHANGED <<read_stmts_, open>>
  PROVE  Owned' /\ Texts'
BY DEF Inv, Owned, Texts, OpenEntries

(* A new statement under a key that the map does not have.                  *)
LEMMA CreateStep == Inv /\ Create => Inv'
<1> SUFFICES ASSUME Inv, Create PROVE Inv'
  OBVIOUS
<1> DEFINE key == Key(req.request)
           text == Sql(req.request)
<1>1. PICK h \in Handles \ DOMAIN open : /\ open' = Plus(open, h, Prepared(text))
                                         /\ read_stmts_' = Plus(read_stmts_, key, h)
                                         /\ stmt' = h
  BY DEF Create
<1>2. /\ pc = "create" /\ pc' = "bind" /\ req' = req /\ req.request \in Requests
      /\ key \notin DOMAIN read_stmts_ /\ h # Null
  BY NullAssumption DEF Create, Inv, Local
<1>3. /\ DOMAIN open' = DOMAIN open \cup {h}
      /\ open'[h] = Prepared(text)
      /\ \A g \in DOMAIN open : g # h /\ open'[g] = open[g]
  BY <1>1 DEF Plus
<1>4. /\ DOMAIN read_stmts_' = DOMAIN read_stmts_ \cup {key}
      /\ read_stmts_'[key] = h
      /\ \A k \in DOMAIN read_stmts_ : k # key /\ read_stmts_'[k] = read_stmts_[k]
  BY <1>1, <1>2 DEF Plus
<1>5. OpenEntries' = OpenEntries \cup {key}
  BY <1>2, <1>4 DEF OpenEntries
<1>6. IsStatement(Prepared(text)) /\ IsClean(Prepared(text))
  BY DEF IsStatement, IsClean, Prepared
<1>7. Owned'
  <2>1. \A k \in DOMAIN read_stmts_' : read_stmts_'[k] \in DOMAIN open' \cup {Null}
    BY <1>3, <1>4 DEF Inv, Owned
  <2>2. \A k, l \in OpenEntries' : read_stmts_'[k] = read_stmts_'[l] => k = l
    BY <1>3, <1>4, <1>5 DEF Inv, Owned, OpenEntries
  <2>3. \A g \in DOMAIN open' : \E k \in DOMAIN read_stmts_' : read_stmts_'[k] = g
    BY <1>3, <1>4 DEF Inv, Owned
  <2>4. \A g \in DOMAIN open' : IsStatement(open'[g])
    BY <1>3, <1>6 DEF Inv, Owned
  <2>5. DOMAIN open' \subseteq Handles
    BY <1>3 DEF Inv, Owned
  <2>6. QED
    BY <2>1, <2>2, <2>3, <2>4, <2>5 DEF Owned
<1>8. Local'
  BY <1>1, <1>2, <1>4 DEF Local, Working
<1>9. Clean'
  <2>1. stmt = Null
    BY <1>2 DEF Inv, Local, Working
  <2>2. \A g \in DOMAIN open : IsClean(open[g])
    BY <2>1, NullAssumption DEF Inv, Clean, Owned
  <2>3. QED
    BY <2>2, <1>3, <1>6 DEF Clean
<1>10. Texts'
  <2>1. open'[read_stmts_'[key]].sql = text
    BY <1>3, <1>4 DEF Prepared
  <2>2. \A k \in OpenEntries : open'[read_stmts_'[k]] = open[read_stmts_[k]]
    BY <1>3, <1>4 DEF OpenEntries, Inv, Owned
  <2>3. QED
    BY <1>2, <1>5, <2>1, <2>2 DEF Inv, Texts
<1>11. QED
  BY <1>7, <1>8, <1>9, <1>10 DEF Inv

(* create_stmt throws: at most an entry without a statement is added.       *)
LEMMA CreateFailsStep == Inv /\ CreateFails => Inv'
<1> SUFFICES ASSUME Inv, CreateFails PROVE Inv'
  OBVIOUS
<1> DEFINE key == Key(req.request)
<1>1. /\ key \notin DOMAIN read_stmts_ /\ open' = open
      /\ pc' = "idle" /\ stmt' = Null /\ stmt = Null
      /\ read_stmts_' = read_stmts_ \/ read_stmts_' = Plus(read_stmts_, key, Null)
  BY DEF CreateFails, Return, Inv, Local, Working
<1>2. OpenEntries' = OpenEntries /\ \A k \in DOMAIN read_stmts_ :
         k \in DOMAIN read_stmts_' /\ read_stmts_'[k] = read_stmts_[k]
  BY <1>1 DEF OpenEntries, Plus
<1>3. \A k \in DOMAIN read_stmts_' : k \in DOMAIN read_stmts_ \/ read_stmts_'[k] = Null
  BY <1>1 DEF Plus
<1>4. Owned'
  <2>1. \A k \in DOMAIN read_stmts_' : read_stmts_'[k] \in DOMAIN open' \cup {Null}
    BY <1>1, <1>2, <1>3 DEF Inv, Owned
  <2>2. \A k, l \in OpenEntries' : read_stmts_'[k] = read_stmts_'[l] => k = l
    BY <1>2 DEF Inv, Owned, OpenEntries
  <2>3. QED
    BY <1>1, <1>2, <2>1, <2>2 DEF Inv, Owned
<1>5. Texts'
  BY <1>1, <1>2 DEF Inv, Texts, OpenEntries
<1>6. Local' /\ Clean'
  BY <1>1 DEF Inv, Local, Clean, Working
<1>7. QED
  BY <1>4, <1>5, <1>6 DEF Inv

(* The exception handler of execute() removes the entry and its statement   *)
(* together; they are each other's only partner.                            *)
LEMMA DiscardStep ==
  ASSUME Inv, pc \in {"bind", "step"}, Discard
  PROVE  Inv'
<1> DEFINE key == Key(req.request)
<1>1. /\ key \in DOMAIN read_stmts_ /\ stmt = read_stmts_[key]
      /\ pc' = "idle" /\ stmt' = Null
  BY DEF Discard, Return, Inv, Local, Working
<1>2. /\ DOMAIN read_stmts_' = DOMAIN read_stmts_ \ {key}
      /\ \A k \in DOMAIN read_stmts_' : read_stmts_'[k] = read_stmts_[k]
  BY DEF Discard, Less
<1>3. /\ DOMAIN open' = DOMAIN open \ {stmt}
      /\ \A h \in DOMAIN open' : open'[h] = open[h]
  BY NullAssumption DEF Discard, Less, Inv, Owned
<1>4. OpenEntries' = OpenEntries \ {key}
  BY <1>2 DEF OpenEntries
<1>5. \A k \in OpenEntries' : read_stmts_'[k] \in DOMAIN open'
  BY <1>1, <1>2, <1>3, <1>4 DEF Inv, Owned, OpenEntries
<1>6. Owned'
  <2>1. \A k \in DOMAIN read_stmts_' : read_stmts_'[k] \in DOMAIN open' \cup {Null}
    BY <1>5 DEF OpenEntries
  <2>2. \A h \in DOMAIN open' : \E k \in DOMAIN read_stmts_' : read_stmts_'[k] = h
    BY <1>1, <1>2, <1>3 DEF Inv, Owned
  <2>3. \A k, l \in OpenEntries' : read_stmts_'[k] = read_stmts_'[l] => k = l
    BY <1>2, <1>4 DEF Inv, Owned, OpenEntries
  <2>4. QED
    BY <1>3, <2>1, <2>2, <2>3 DEF Inv, Owned
<1>7. Local'
  BY <1>1 DEF Local, Working
<1>8. Clean'
  BY <1>3 DEF Inv, Clean
<1>9. \A k \in OpenEntries' : open'[read_stmts_'[k]].sql = open[read_stmts_[k]].sql
  <2> SUFFICES ASSUME NEW k \in OpenEntries'
               PROVE  open'[read_stmts_'[k]].sql = open[read_stmts_[k]].sql
    OBVIOUS
  <2>1. read_stmts_'[k] \in DOMAIN open' /\ read_stmts_'[k] = read_stmts_[k]
    BY <1>2, <1>5 DEF OpenEntries
  <2>2. QED
    BY <2>1, <1>3
<1>10. Texts'
  BY <1>4, <1>9 DEF Inv, Texts
<1>11. QED
  BY <1>6, <1>7, <1>8, <1>10 DEF Inv

(* Binding, stepping and resetting change the current statement and nothing *)
(* else of it than its bindings and its position.                           *)
LEMMA CurrentStep ==
  ASSUME Inv, pc \in Working, stmt # Null, UNCHANGED read_stmts_,
         NEW s, IsStatement(s), s.sql = open[stmt].sql,
         open' = [open EXCEPT ![stmt] = s]
  PROVE  /\ stmt \in DOMAIN open /\ open'[stmt] = s
         /\ Owned' /\ Texts'
         /\ \A h \in DOMAIN open' : h # stmt => open'[h] = open[h]
<1>1. stmt \in DOMAIN open
  BY DEF Inv, Owned, Local
<1>2. /\ DOMAIN open' = DOMAIN open
      /\ open'[stmt] = s
      /\ \A h \in DOMAIN open' : h # stmt => open'[h] = open[h]
  BY <1>1
<1>3. OpenEntries' = OpenEntries
  BY DEF OpenEntries
<1>4. Owned'
  BY <1>2, <1>3 DEF Inv, Owned
<1>5. \A k \in OpenEntries : open'[read_stmts_[k]].sql = open[read_stmts_[k]].sql
  BY <1>1, <1>2 DEF Inv, Owned, OpenEntries
<1>6. Texts'
  BY <1>3, <1>5 DEF Inv, Texts
<1>7. QED
  BY <1>1, <1>2, <1>4, <1>6

(* What binding, stepping and resetting make of a statement.                *)
LEMMA StatementForms ==
  ASSUME NEW s, IsStatement(s)
  PROVE  /\ \A n, v : IsStatement(BoundBy(s, n, v)) /\ BoundBy(s, n, v).sql = s.sql
         /\ IsStatement(Stepped(s)) /\ Stepped(s).sql = s.sql
         /\ IsStatement(Cleaned(s)) /\ Cleaned(s).sql = s.sql /\ IsClean(Cleaned(s))
<1> DEFINE q == s.sql
           t == s.stepped
           b == s.bound
<1>1. s = [sql |-> q, stepped |-> t, bound |-> b]
  BY DEF IsStatement
<1> HIDE DEF q, t, b
<1>2. ASSUME NEW n, NEW v
      PROVE  IsStatement(BoundBy(s, n, v)) /\ BoundBy(s, n, v).sql = q
  BY <1>1 DEF IsStatement, BoundBy
<1>3. IsStatement(Stepped(s)) /\ Stepped(s).sql = q
  <2>1. Stepped(s) = [s EXCEPT !.stepped = TRUE]
    BY DEF Stepped
  <2>2. Stepped(s) = [sql |-> q, stepped |-> TRUE, bound |-> b]
    BY <1>1, <2>1
  <2>3. QED
    BY <2>2 DEF IsStatement
<1>4. IsStatement(Cleaned(s)) /\ Cleaned(s).sql = q
  <2> DEFINE c == [i \in DOMAIN s.bound |-> Null]
  <2> HIDE DEF c
  <2>1. Cleaned(s) = [s EXCEPT !.stepped = FALSE, !.bound = c]
    BY DEF Cleaned, c
  <2>2. Cleaned(s) = [sql |-> q, stepped |-> FALSE, bound |-> c]
    BY <1>1, <2>1
  <2>3. QED
    BY <2>2 DEF IsStatement
<1>5. IsClean(Cleaned(s))
  BY <1>1 DEF IsClean, Cleaned
<1>6. QED
  BY <1>2, <1>3, <1>4, <1>5 DEF q

(* All parameters are bound.                                                *)
LEMMA BindStep == Inv /\ Bind => Inv'
<1> SUFFICES ASSUME Inv, Bind PROVE Inv'
  OBVIOUS
<1>1. /\ pc = "bind" /\ pc' = "step" /\ pc \in Working /\ UNCHANGED <<read_stmts_, req, stmt>>
  BY DEF Bind, Working
<1>2. Local'
  BY <1>1 DEF Inv, Local, Working
<1>3. CASE stmt = Null
  <2>1. UNCHANGED open
    BY <1>3 DEF Bind
  <2>2. QED
    BY <1>1, <1>2, <2>1, QuietStep DEF Inv, Clean
<1>4. CASE stmt # Null
  <2> DEFINE s == BoundBy(open[stmt], Len(Binds(req.request)), req.value)
  <2>1. stmt \in DOMAIN open
    BY <1>1, <1>4 DEF Inv, Owned, Local
  <2>2. open' = [open EXCEPT ![stmt] = s]
    BY <1>4 DEF Bind
  <2>3. IsStatement(s) /\ s.sql = open[stmt].sql
    <3>1. IsStatement(open[stmt])
      BY <2>1 DEF Inv, Owned
    <3>2. QED
      BY <3>1, StatementForms
  <2> HIDE DEF s
  <2>4. Owned' /\ Texts' /\ \A h \in DOMAIN open' : h # stmt => open'[h] = open[h]
    BY <1>1, <1>4, <2>2, <2>3, CurrentStep
  <2>5. Clean'
    BY <1>1, <2>2, <2>4 DEF Inv, Clean
  <2>6. QED
    BY <1>2, <2>4, <2>5 DEF Inv
<1>5. QED
  BY <1>3, <1>4

(* The statement is stepped, and reset() cleans it.                         *)
LEMMA StepStep == Inv /\ Step => Inv'
<1> SUFFICES ASSUME Inv, Step PROVE Inv'
  OBVIOUS
<1> DEFINE s == Stepped(open[stmt])
<1>1. /\ pc = "step" /\ pc' = "reset" /\ pc \in Working /\ stmt # Null
      /\ UNCHANGED <<read_stmts_, req, stmt>>
  BY DEF Step, Working
<1>2. stmt \in DOMAIN open
  BY <1>1 DEF Inv, Owned, Local
<1>3. open' = [open EXCEPT ![stmt] = s]
  BY DEF Step
<1>4. IsStatement(s) /\ s.sql = open[stmt].sql
  BY <1>2, StatementForms DEF Inv, Owned
<1> HIDE DEF s
<1>5. Owned' /\ Texts' /\ \A h \in DOMAIN open' : h # stmt => open'[h] = open[h]
  BY <1>1, <1>3, <1>4, CurrentStep
<1>6. Clean'
  BY <1>1, <1>3, <1>5 DEF Inv, Clean
<1>7. Local'
  BY <1>1 DEF Inv, Local, Working
<1>8. QED
  BY <1>5, <1>6, <1>7 DEF Inv

(* After the reset every statement is clean.                                *)
LEMMA ResetStep == Inv /\ Reset => Inv'
<1> SUFFICES ASSUME Inv, Reset PROVE Inv'
  OBVIOUS
<1> DEFINE s == Cleaned(open[stmt])
<1>1. /\ pc = "reset" /\ pc' = "idle" /\ pc \in Working /\ stmt # Null /\ stmt' = Null
      /\ UNCHANGED read_stmts_
  BY DEF Reset, Return, Working, Inv, Local
<1>2. stmt \in DOMAIN open
  BY <1>1 DEF Inv, Owned, Local
<1>3. open' = [open EXCEPT ![stmt] = s]
  BY <1>2 DEF Reset
<1>4. IsStatement(s) /\ s.sql = open[stmt].sql /\ IsClean(s)
  BY <1>2, StatementForms DEF Inv, Owned
<1> HIDE DEF s
<1>5. /\ Owned' /\ Texts' /\ open'[stmt] = s
      /\ \A h \in DOMAIN open' : h # stmt => open'[h] = open[h]
  BY <1>1, <1>3, <1>4, CurrentStep
<1>6. Clean'
  BY <1>1, <1>3, <1>4, <1>5 DEF Inv, Clean
<1>7. Local'
  BY <1>1 DEF Local, Working
<1>8. QED
  BY <1>5, <1>6, <1>7 DEF Inv

(* The other steps change neither map nor statements.                       *)
LEMMA OtherSteps == Inv /\ (Call \/ Find \/ Crash \/ UNCHANGED vars) => Inv'
<1> SUFFICES ASSUME Inv, Call \/ Find \/ Crash \/ UNCHANGED vars PROVE Inv'
  OBVIOUS
<1>1. Owned' /\ Texts'
  BY QuietStep DEF Call, Find, Crash, vars
<1>2. CASE Call
  <2>1. Local'
    BY <1>2 DEF Call, Inv, Local, Working
  <2>2. Clean'
    BY <1>2 DEF Call, Inv, Clean
  <2>3. QED
    BY <1>1, <2>1, <2>2 DEF Inv
<1>3. CASE Find
  <2>1. pc = "find" /\ stmt = Null /\ \A h \in DOMAIN open : h # Null
    BY <1>3, NullAssumption DEF Find, Inv, Local, Owned, Working
  <2>2. Local'
    BY <1>3, <2>1 DEF Find, Inv, Local, Working
  <2>3. \A h \in DOMAIN open : IsClean(open[h])
    BY <2>1 DEF Inv, Clean
  <2>4. Clean'
    BY <1>3, <2>3 DEF Find, Clean
  <2>5. QED
    BY <1>1, <2>2, <2>4 DEF Inv
<1>4. CASE Crash
  <2>1. Local'
    BY <1>4 DEF Crash, Inv, Local, Working
  <2>2. Clean'
    BY <1>4 DEF Crash, Inv, Clean
  <2>3. QED
    BY <1>1, <2>1, <2>2 DEF Inv
<1>5. CASE UNCHANGED vars
  BY <1>1, <1>5 DEF vars, Inv, Local, Clean, Working
<1>6. QED
  BY <1>2, <1>3, <1>4, <1>5

LEMMA InvStep == Inv /\ [Next]_vars => Inv'
<1>1. Inv /\ (BindFails \/ StepFails) => Inv'
  BY DiscardStep DEF BindFails, StepFails
<1>2. QED
  BY <1>1, CreateStep, CreateFailsStep, BindStep, StepStep, ResetStep, OtherSteps DEF Next

-----------------------------------------------------------------------------
(* Types *)

Statements == {Sql(r) : r \in {s \in Requests : ~MakeThrows(s)}}

\* What TypeOK says of one open statement
StatementOK(s) == /\ s.sql \in Statements
                  /\ s.bound \in [DOMAIN Slots(s.sql) -> Values \cup {Null}]
                  /\ s.stepped \in BOOLEAN

StmtTypes == /\ \A k \in DOMAIN read_stmts_ : k \in Keys
             /\ \A h \in DOMAIN open : StatementOK(open[h])
             /\ req \in [request : Requests, value : Values] \cup {NoReq}

(* The rest of TypeOK is in Owned and Local.                                *)
LEMMA TypesAre == Inv /\ StmtTypes => TypeOK
<1> SUFFICES ASSUME Inv, StmtTypes PROVE TypeOK
  OBVIOUS
<1>1. /\ DOMAIN read_stmts_ \subseteq Keys /\ DOMAIN open \subseteq Handles
      /\ \A k \in DOMAIN read_stmts_ : read_stmts_[k] \in Handles \cup {Null}
  BY DEF Inv, Owned, StmtTypes
<1>2. pc \in {"idle", "find", "create", "bind", "step", "reset", "crashed"}
  BY DEF Inv, Local, Working
<1>3. stmt \in Handles \cup {Null}
  <2>1. CASE pc \in Working
    BY <1>1, <2>1 DEF Inv, Local
  <2>2. CASE pc \notin Working
    BY <2>2 DEF Inv, Local
  <2>3. QED
    BY <2>1, <2>2
<1>4. QED
  BY <1>1, <1>2, <1>3 DEF TypeOK, StmtTypes, StatementOK, Statements

(* Binding, stepping and resetting keep a statement's type.                 *)
LEMMA FormTypes ==
  ASSUME NEW s, IsStatement(s), StatementOK(s)
  PROVE  /\ \A n : \A v \in Values : StatementOK(BoundBy(s, n, v))
         /\ StatementOK(Stepped(s)) /\ StatementOK(Cleaned(s))
<1>1. PICK q, t, b : s = [sql |-> q, stepped |-> t, bound |-> b]
  BY DEF IsStatement
<1>2. /\ q \in Statements /\ t \in BOOLEAN
      /\ b \in [DOMAIN Slots(q) -> Values \cup {Null}]
  BY <1>1 DEF StatementOK
<1>3. ASSUME NEW n, NEW v \in Values
      PROVE  StatementOK(BoundBy(s, n, v))
  <2>1. PICK c : c = [i \in DOMAIN s.bound |-> IF i <= n THEN v ELSE s.bound[i]]
    OBVIOUS
  <2>2. c \in [DOMAIN Slots(q) -> Values \cup {Null}]
    BY <1>1, <1>2, <2>1
  <2>3. BoundBy(s, n, v) = [sql |-> q, stepped |-> t, bound |-> c]
    BY <1>1, <2>1 DEF BoundBy
  <2>4. QED
    BY <1>2, <2>2, <2>3 DEF StatementOK
<1>4. StatementOK(Stepped(s))
  <2>1. Stepped(s) = [s EXCEPT !.stepped = TRUE]
    BY DEF Stepped
  <2>2. Stepped(s) = [sql |-> q, stepped |-> TRUE, bound |-> b]
    BY <1>1, <2>1
  <2>3. QED
    BY <1>2, <2>2 DEF StatementOK
<1>5. StatementOK(Cleaned(s))
  <2>1. PICK c : c = [i \in DOMAIN s.bound |-> Null]
    OBVIOUS
  <2>2. c \in [DOMAIN Slots(q) -> Values \cup {Null}]
    BY <1>1, <1>2, <2>1
  <2>3. Cleaned(s) = [s EXCEPT !.stepped = FALSE, !.bound = c]
    BY <2>1 DEF Cleaned
  <2>4. Cleaned(s) = [sql |-> q, stepped |-> FALSE, bound |-> c]
    BY <1>1, <2>3
  <2>5. QED
    BY <1>2, <2>2, <2>4 DEF StatementOK
<1>6. QED
  BY <1>3, <1>4, <1>5

LEMMA TypeStep == Inv /\ StmtTypes /\ [Next]_vars => StmtTypes'
<1> SUFFICES ASSUME Inv, StmtTypes, [Next]_vars PROVE StmtTypes'
  OBVIOUS
<1>1. /\ \A k \in DOMAIN read_stmts_ : k \in Keys
      /\ \A h \in DOMAIN open : StatementOK(open[h]) /\ IsStatement(open[h])
      /\ req \in [request : Requests, value : Values] \cup {NoReq}
  BY DEF StmtTypes, Inv, Owned
<1>2. ASSUME \A k \in DOMAIN read_stmts_' : k \in Keys, \A h \in DOMAIN open' : StatementOK(open'[h]),
             req' \in [request : Requests, value : Values] \cup {NoReq}
      PROVE  StmtTypes'
  BY <1>2 DEF StmtTypes
<1>3. pc # "idle" => Key(req.request) \in Keys /\ req.request \in Requests
  BY DEF Inv, Local, Keys
<1>4. CASE Call
  BY <1>1, <1>2, <1>4 DEF Call
<1>5. CASE Find \/ Crash \/ UNCHANGED vars
  BY <1>1, <1>2, <1>5 DEF Find, Crash, vars
<1>6. CASE Create
  <2>1. PICK h \in Handles : /\ open' = Plus(open, h, Prepared(Sql(req.request)))
                             /\ read_stmts_' = Plus(read_stmts_, Key(req.request), h)
    BY <1>6 DEF Create
  <2>2. pc # "idle" /\ req' = req /\ ~MakeThrows(req.request)
    BY <1>6 DEF Create
  <2>3. StatementOK(Prepared(Sql(req.request)))
    BY <1>3, <2>2 DEF StatementOK, Statements, Prepared
  <2>4. \A k \in DOMAIN read_stmts_' : k \in Keys
    BY <1>1, <1>3, <2>1, <2>2 DEF Plus
  <2>5. \A g \in DOMAIN open' : StatementOK(open'[g])
    <3>1. \A g \in DOMAIN open' : g \in DOMAIN open \/ g = h
      BY <2>1 DEF Plus
    <3>2. open'[h] = Prepared(Sql(req.request)) /\ \A g \in DOMAIN open \ {h} : open'[g] = open[g]
      BY <2>1 DEF Plus
    <3>3. QED
      BY <1>1, <2>3, <3>1, <3>2
  <2>6. QED
    BY <1>1, <1>2, <2>2, <2>4, <2>5
<1>7. CASE CreateFails
  <2>1. pc # "idle" /\ req' = NoReq /\ open' = open
        /\ read_stmts_' \in {read_stmts_, Plus(read_stmts_, Key(req.request), Null)}
    BY <1>7 DEF CreateFails, Return
  <2>2. \A k \in DOMAIN read_stmts_' : k \in Keys
    BY <1>1, <1>3, <2>1 DEF Plus
  <2>3. QED
    BY <1>1, <1>2, <2>1, <2>2
<1>8. CASE BindFails \/ StepFails
  <2>1. req' = NoReq /\ read_stmts_' = Less(read_stmts_, Key(req.request))
        /\ open' = (IF stmt = Null THEN open ELSE Less(open, stmt))
    BY <1>8 DEF BindFails, StepFails, Discard, Return
  <2>2. \A k \in DOMAIN read_stmts_' : k \in Keys
    BY <1>1, <2>1 DEF Less
  <2>3. \A h \in DOMAIN open' : h \in DOMAIN open /\ open'[h] = open[h]
    BY <2>1 DEF Less
  <2>4. QED
    BY <1>1, <1>2, <2>1, <2>2, <2>3
<1>9. CASE Bind \/ Step \/ Reset
  <2>1. pc \in Working /\ UNCHANGED read_stmts_ /\ req' \in {req, NoReq}
    BY <1>9 DEF Bind, Step, Reset, Return, Working
  <2>2. CASE UNCHANGED open
    BY <1>1, <1>2, <2>1, <2>2
  <2>3. ASSUME NEW s, StatementOK(s), stmt \in DOMAIN open, open' = [open EXCEPT ![stmt] = s]
        PROVE  StmtTypes'
    <3>1. \A h \in DOMAIN open' : StatementOK(open'[h])
      BY <1>1, <2>3
    <3>2. QED
      BY <1>1, <1>2, <2>1, <3>1
  <2>4. stmt # Null => stmt \in DOMAIN open
    BY <2>1 DEF Inv, Owned, Local
  <2>5. req.value \in Values
    <3>1. req # NoReq
      BY <1>3, <2>1, NullAssumption DEF Working, NoReq
    <3>2. QED
      BY <1>1, <3>1
  <2>6. CASE Bind /\ stmt # Null
    <3>1. open' = [open EXCEPT ![stmt] = BoundBy(open[stmt], Len(Binds(req.request)), req.value)]
      BY <2>6 DEF Bind
    <3>2. StatementOK(BoundBy(open[stmt], Len(Binds(req.request)), req.value))
      BY <1>1, <2>4, <2>5, <2>6, FormTypes
    <3>3. QED
      BY <2>3, <2>4, <2>6, <3>1, <3>2
  <2>7. CASE Step
    <3>1. stmt # Null /\ open' = [open EXCEPT ![stmt] = Stepped(open[stmt])]
      BY <2>7 DEF Step
    <3>2. StatementOK(Stepped(open[stmt]))
      BY <1>1, <2>4, <3>1, FormTypes
    <3>3. QED
      BY <2>3, <2>4, <3>1, <3>2
  <2>8. CASE Reset
    <3>1. stmt # Null /\ open' = [open EXCEPT ![stmt] = Cleaned(open[stmt])]
      BY <2>8 DEF Reset, Inv, Local
    <3>2. StatementOK(Cleaned(open[stmt]))
      BY <1>1, <2>4, <3>1, FormTypes
    <3>3. QED
      BY <2>3, <2>4, <3>1, <3>2
  <2>9. QED
    BY <1>9, <2>2, <2>6, <2>7, <2>8 DEF Bind
<1>10. QED
  BY <1>4, <1>5, <1>6, <1>7, <1>8, <1>9 DEF Next

-----------------------------------------------------------------------------
(* Parameters *)

\* A statement that is stepped has a parameter, with its value, for each that was
\* bound; without a statement nothing was bound.
BindInv ==
    /\ pc = "step" /\ stmt # Null =>
           /\ DOMAIN Binds(req.request) \subseteq DOMAIN open[stmt].bound
           /\ \A i \in DOMAIN open[stmt].bound :
                 i <= Len(Binds(req.request)) => open[stmt].bound[i] = req.value
    /\ pc = "crashed" \/ (pc = "step" /\ stmt = Null) => DOMAIN Binds(req.request) = {}

LEMMA BindInvStep == Inv /\ BindInv /\ [Next]_vars => BindInv'
<1> SUFFICES ASSUME Inv, BindInv, [Next]_vars PROVE BindInv'
  OBVIOUS
<1>1. CASE Bind
  <2>1. /\ pc = "bind" /\ pc' = "step" /\ UNCHANGED <<req, stmt>>
        /\ \A i \in DOMAIN Binds(req.request) : stmt # Null /\ i \in DOMAIN open[stmt].bound
    BY <1>1 DEF Bind, AllAccepted, Accepts
  <2>2. CASE stmt = Null
    BY <2>1, <2>2 DEF BindInv
  <2>3. CASE stmt # Null
    <3>1. PICK n : n = Len(Binds(req.request))
      OBVIOUS
    <3>2. stmt \in DOMAIN open
      BY <2>1, <2>3 DEF Inv, Owned, Local, Working
    <3>3. open'[stmt] = BoundBy(open[stmt], n, req.value)
      BY <1>1, <2>3, <3>1, <3>2 DEF Bind
    <3>4. PICK q, t, b : open[stmt] = [sql |-> q, stepped |-> t, bound |-> b]
      BY <3>2 DEF Inv, Owned, IsStatement
    <3>5. BoundBy(open[stmt], n, req.value).bound = [i \in DOMAIN b |-> IF i <= n THEN req.value ELSE b[i]]
      BY <3>4 DEF BoundBy
    <3>6. /\ DOMAIN Binds(req.request) \subseteq DOMAIN open'[stmt].bound
          /\ \A i \in DOMAIN open'[stmt].bound : i <= n => open'[stmt].bound[i] = req.value
      BY <2>1, <3>3, <3>4, <3>5
    <3>7. QED
      BY <2>1, <2>3, <3>1, <3>6 DEF BindInv
  <2>4. QED
    BY <2>2, <2>3
<1>2. CASE Crash
  BY <1>2 DEF Crash, BindInv
<1>3. CASE UNCHANGED vars
  BY <1>3 DEF vars, BindInv
<1>4. CASE pc' \notin {"step", "crashed"}
  BY <1>4 DEF BindInv
<1>5. QED
  BY <1>1, <1>2, <1>3, <1>4 DEF Next, Call, Find, Create, CreateFails, BindFails, Step, StepFails, Reset, Discard, Return

(* The statement a request has found was prepared from its own text.        *)
LEMMA TextIs ==
  ASSUME KeysFaithful, Inv, pc \in {"bind", "step"}, stmt # Null
  PROVE  open[stmt].sql = Sql(req.request)
<1>1. /\ req.request \in Requests
      /\ Key(req.request) \in OpenEntries
      /\ stmt = read_stmts_[Key(req.request)]
  BY DEF Inv, Local, Working, OpenEntries
<1>2. PICK r \in Requests : Key(r) = Key(req.request) /\ open[stmt].sql = Sql(r)
  BY <1>1 DEF Inv, Texts
<1>3. QED
  BY <1>1, <1>2 DEF KeysFaithful

(* The invariants hold at every step of every sequence of requests.         *)
THEOREM Invariance == Spec => [](Inv /\ StmtTypes /\ BindInv)
<1>1. Init => StmtTypes /\ BindInv
  BY DEF Init, StmtTypes, BindInv
<1>2. QED
  BY InitInv, InvStep, TypeStep, BindInvStep, <1>1, PTL DEF Spec

-----------------------------------------------------------------------------
(* The properties *)

(* The map, the statements and execute()'s variables keep their types: each *)
(* statement was prepared from the text of a request and has a value or     *)
(* NULL for each "?" of it, whichever steps fail.                           *)
THEOREM TypeCorrect == Spec => []TypeOK
BY TypesAre, Invariance, PTL

(* An entry without a statement never brings a request with parameters to   *)
(* clear_bindings: its first bind is refused (sqlite_context.h:200-218).    *)
THEOREM SurvivalCorrect == Spec => []RequestsWithParametersSurvive
<1>1. BindInv => RequestsWithParametersSurvive
  BY DEF RequestsWithParametersSurvive, BindInv
<1>2. QED
  BY <1>1, Invariance, PTL

(* Whatever the requests and whichever step of them fails, no statement is  *)
(* lost, used after it was finalized, shared by two keys, or kept with a    *)
(* value or a cursor of an earlier request (sqlite_context.h:198-218).      *)
THEOREM CacheCorrect == Spec => []CacheOwnsStatements
<1>1. Inv => CacheOwnsStatements
  <2> SUFFICES ASSUME Inv, pc = "idle" PROVE CacheOwnsStatements
    BY DEF CacheOwnsStatements
  <2>1. stmt = Null
    BY DEF Inv, Local, Working
  <2>2. \A h \in DOMAIN open : h # stmt
    BY <2>1, NullAssumption DEF Inv, Owned
  <2>3. \A h \in DOMAIN open : IsClean(open[h])
    BY <2>2 DEF Inv, Clean
  <2>4. {read_stmts_[k] : k \in OpenEntries} = DOMAIN open
    BY <2>1, <2>2 DEF Inv, Owned, OpenEntries
  <2>5. QED
    BY <2>3, <2>4 DEF CacheOwnsStatements, IsClean, Inv, Owned
<1>2. QED
  BY <1>1, Invariance, PTL

(* As long as the requests that share a key also share a text, every        *)
(* request runs the statement its own text would prepare, whatever was      *)
(* cached, discarded and prepared again before it.                          *)
THEOREM StatementCorrect == KeysFaithful => (Spec => []StatementMatchesRequest)
<1> SUFFICES ASSUME KeysFaithful PROVE Spec => []StatementMatchesRequest
  OBVIOUS
<1>1. Inv => StatementMatchesRequest
  BY TextIs DEF StatementMatchesRequest
<1>2. QED
  BY <1>1, Invariance, PTL

(* As long as the requests that share a key share a text, and a text with a *)
(* "?" for each parameter has no more, what is stepped has the values of    *)
(* this request for all of its parameters, and none of an earlier one's     *)
(* (sqlite_readref.h:283-329, sqlite_context.h:113-193).                    *)
THEOREM BindsCorrect == KeysFaithful /\ ParametersFit => (Spec => []BindsOnlyOwnParams)
<1> SUFFICES ASSUME KeysFaithful, ParametersFit PROVE Spec => []BindsOnlyOwnParams
  OBVIOUS
<1>1. Inv /\ TypeOK /\ BindInv => BindsOnlyOwnParams
  <2> SUFFICES ASSUME Inv, TypeOK, BindInv, pc = "step", stmt # Null
               PROVE  /\ \A i \in DOMAIN open[stmt].bound : open[stmt].bound[i] = req.value
                      /\ Slots(open[stmt].sql) = MembersOf(Binds(req.request))
    BY DEF BindsOnlyOwnParams
  <2>1. /\ req.request \in Requests /\ stmt \in DOMAIN open
        /\ open[stmt].sql = Sql(req.request)
    BY TextIs DEF Inv, Local, Owned, Working
  <2>2. PICK binds, slots, bound : binds = Binds(req.request) /\ slots = Slots(Sql(req.request)) /\ bound = open[stmt].bound
    OBVIOUS
  <2>3. DOMAIN bound = DOMAIN slots
    BY <2>1, <2>2 DEF TypeOK
  <2>4. DOMAIN binds \subseteq DOMAIN bound /\ \A i \in DOMAIN bound : i <= Len(binds) => bound[i] = req.value
    BY <2>2 DEF BindInv
  <2>5. binds \in Seq(EntryTypes) /\ slots = MembersOf(binds)
    BY <2>1, <2>2, <2>3, <2>4 DEF ParametersFit
  <2>6. DOMAIN slots = DOMAIN binds /\ DOMAIN binds = 1..Len(binds) /\ Len(binds) \in Nat
    BY <2>5 DEF MembersOf
  <2>7. \A i \in DOMAIN bound : i <= Len(binds)
    BY <2>3, <2>6
  <2>8. QED
    BY <2>1, <2>2, <2>4, <2>5, <2>7
<1>2. QED
  BY <1>1, TypesAre, Invariance, PTL

===============================================================================

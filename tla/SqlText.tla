------------------------------- MODULE SqlText -------------------------------
(***************************************************************************)
(* The SQL text of a request and the key under which its statement is      *)
(* cached: MakeQuerySql, MakeUpdateSql, MakeDeleteSql of sqlite_readref,   *)
(* BindSqlParam, and the hash values of ref_ops.h and sqlite_context.h.    *)
(*                                                                         *)
(* A text is the sequence of its tokens, a key the sequence of the pieces  *)
(* it is concatenated from.  Neither holds separators, as in the code.     *)
(*                                                                         *)
(* A condition is the sequence of what the client appended to its object:  *)
(* [mem, kind, op], with the member's number, AND OR NOT GROUP ORDER_ASC   *)
(* or ORDER_DESC, and the comparison.  A part is one ReadCondImpl<Ret>:    *)
(* the structure read (Count for int64_t), the structure of the condition  *)
(* object (None without one), and its condition.  A request:               *)
(*   op     "read", "del", "update", "union", "join" or "copy"             *)
(*   many   the result is a container                                      *)
(*   ret    what a join returns, the table a copy fills                    *)
(*   froms  the tables of a join or a copy: [tbl, equals]                  *)
(*   parts  its ReadConds, in order                                        *)
(*   seqs   the members an update assigns                                  *)
(***************************************************************************)
EXTENDS Integers, Sequences, FiniteSets, SequencesExt

CONSTANT Unbindable     \* the members of a type BindSqlParam has no bind for

None == "none"
Count == "count"

Entry(mem, kind, op) == [mem |-> mem, kind |-> kind, op |-> op]
EntryTypes == [mem : Nat, kind : {"AND", "OR", "NOT", "GROUP", "ORDER_ASC", "ORDER_DESC", "SET"},
               op : {"==", "!=", ">", "<=", "<", ">=", "list", "="}]
Part(ret, tbl, cond) == [ret |-> ret, tbl |-> tbl, cond |-> cond]
Request(op, many, ret, froms, parts, seqs) ==
    [op |-> op, many |-> many, ret |-> ret, froms |-> froms, parts |-> parts, seqs |-> seqs]

Where(part) == IF part.tbl = None THEN part.ret ELSE part.tbl
Ascending(seqs) ==
    [k \in 1..Cardinality(seqs) |-> CHOOSE n \in seqs : Cardinality({m \in seqs : m <= n}) = k]
MapSeq(Op(_), s) == [i \in 1..Len(s) |-> Op(s[i])]
Flat(Op(_), s) == FlattenSeq(MapSeq(Op, s))

-----------------------------------------------------------------------------
(* Keys *)

\* hashv_: two bytes of member number, two of condition type and comparison
\* for each entry.
CondKey(cond) == Flat(LAMBDA e : <<ToString(e.mem), e.kind, e.op>>, cond)

\* _hash_value: without a condition object the structure read, else both and
\* the hash; an int64_t has no name of its own.
PartKey(part) == IF part.ret = Count
                 THEN IF part.tbl = None THEN <<>> ELSE <<part.tbl>> \o CondKey(part.cond)
                 ELSE IF part.tbl = None THEN <<part.ret>>
                      ELSE <<part.ret, part.tbl>> \o CondKey(part.cond)

\* std::to_string(seq)
Digits(n) == IF n < 10 THEN <<ToString(n)>> ELSE <<ToString(n \div 10), ToString(n % 10)>>

FromKey(from) == <<from.tbl>> \o from.equals

\* Mutant: the suffixes are left out.
Key_NoSuffix(r) == Flat(FromKey, r.froms) \o Flat(PartKey, r.parts) \o Flat(Digits, Ascending(r.seqs))

Key(r) == LET parts == Flat(PartKey, r.parts)
          IN  CASE r.op \in {"read", "union"} -> parts
                [] r.op = "del" -> parts \o <<"D">>
                [] r.op = "update" -> parts \o Flat(Digits, Ascending(r.seqs)) \o <<"U">>
                [] r.op = "join" -> Flat(FromKey, r.froms) \o parts
                [] r.op = "copy" -> <<"C">> \o Flat(FromKey, r.froms) \o parts \o <<r.ret>>

-----------------------------------------------------------------------------
(* Texts *)

Negated(op) == CASE op = "==" -> "!=" [] op = "!=" -> "=="
                 [] op = ">" -> "<=" [] op = "<=" -> ">"
                 [] op = "<" -> ">=" [] op = ">=" -> "<"
                 [] op = "list" -> "list"

IsOrder(e) == e.kind \in {"GROUP", "ORDER_ASC", "ORDER_DESC"}

\* append_cond: the i-th entry of the conditions of a statement
CondToken(e, i) ==
    LET link == IF i = 1 THEN <<>> ELSE IF e.kind = "OR" THEN <<"OR">> ELSE <<"AND">>
        op == IF e.kind = "NOT" THEN Negated(e.op) ELSE e.op
    IN  IF IsOrder(e) THEN <<e.kind, ToString(e.mem)>>
        ELSE link \o <<ToString(e.mem), op, "?">>

CondTokens(cond) == FlattenSeq([i \in 1..Len(cond) |-> CondToken(cond[i], i)])

WhereTokens(cond) == IF cond = <<>> THEN <<>> ELSE <<"WHERE">> \o CondTokens(cond)

\* The columns are all, the first one's number, or the members of ret.
Columns(part) == IF part.ret = Count THEN "COUNT"
                 ELSE IF part.tbl \in {None, part.ret} THEN "*" ELSE part.ret

SelectTokens(part) == <<"SELECT", Columns(part), "FROM", Where(part)>> \o WhereTokens(part.cond)

UnionTokens(parts) ==
    FlattenSeq([i \in 1..Len(parts) |->
                   (IF i = 1 THEN <<>> ELSE <<"UNION">>) \o SelectTokens(parts[i])])

JoinTokens(froms) ==
    FlattenSeq([i \in 1..Len(froms) |->
                   (IF i = 1 THEN <<"FROM">> ELSE <<"LEFT JOIN">>) \o FromKey(froms[i])])

AssignTokens(seqs) == Flat(LAMBDA n : <<ToString(n), "=", "?">>, Ascending(seqs))

\* The conditions of all the parts, one after the other.
AllConds(r) == Flat(LAMBDA part : part.cond, r.parts)

Sql(r) ==
    CASE r.op \in {"read", "union"} -> UnionTokens(r.parts)
      [] r.op = "del" -> <<"DELETE FROM", Where(r.parts[1])>> \o WhereTokens(AllConds(r))
      [] r.op = "update" -> <<"UPDATE", Where(r.parts[1]), "SET">> \o AssignTokens(r.seqs)
                               \o WhereTokens(AllConds(r))
      [] r.op = "join" -> <<"SELECT", r.ret>> \o JoinTokens(r.froms) \o WhereTokens(AllConds(r))
      [] r.op = "copy" -> <<"INSERT INTO", r.ret, "SELECT", r.ret, "FROM", r.froms[1].tbl>>
                             \o WhereTokens(AllConds(r))

\* make() throws: a statement's first condition must be about a field, a count
\* needs its table, an update a member to assign, a copy one source.
OrderFirst(cond) == cond # <<>> /\ IsOrder(cond[1])
MakeThrows(r) == \/ \E i \in 1..Len(r.parts) : r.parts[i].ret = Count /\ r.parts[i].tbl = None
                 \/ IF r.op = "union" THEN \E i \in 1..Len(r.parts) : OrderFirst(r.parts[i].cond)
                    ELSE OrderFirst(AllConds(r))
                 \/ r.op = "update" /\ r.seqs = {}
                 \/ r.op = "join" /\ r.ret = Count
                 \/ r.op = "copy" /\ Len(r.froms) # 1

-----------------------------------------------------------------------------
(* Parameters *)

\* The member compared with, or set to, each "?" of a text.
Slots(text) == LET marks == SelectSeq([i \in 1..Len(text) |-> i], LAMBDA i : text[i] = "?")
               IN  [k \in 1..Len(marks) |-> text[marks[k] - 2]]

MembersOf(entries) == [i \in DOMAIN entries |-> ToString(entries[i].mem)]

Bindable(e) == e.op # "list" /\ e.mem \notin Unbindable

\* BindSqlParam::bind: the i-th of these is bound to parameter i, whether or
\* not the text has a "?" for it.
Binds(r) == MapSeq(LAMBDA n : Entry(n, "SET", "="), Ascending(r.seqs)) \o AllConds(r)

=============================================================================

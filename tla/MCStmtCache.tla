----------------------------- MODULE MCStmtCache -----------------------------
(* StmtCache for TLC: the requests of the runs.  A and B are tables, J and K  *)
(* temporary structures.                                                      *)
EXTENDS StmtCache

And0 == Entry(0, "AND", "==")
Large1 == Entry(1, "AND", ">")
Or1 == Entry(1, "OR", ">")
Not1 == Entry(1, "NOT", ">")
In1 == Entry(1, "AND", "list")
\* a member of a type that cannot be bound
Float3 == Entry(3, "AND", "==")
Order1 == Entry(1, "ORDER_ASC", "==")

Read(many, ret, cond) ==
    Request("read", many, None, <<>>, <<Part(ret, IF cond = <<>> THEN None ELSE ret, cond)>>, {})
CountOf(tbl, cond) == Request("read", FALSE, None, <<>>, <<Part(Count, tbl, cond)>>, {})
Delete(cond) == Request("del", FALSE, None, <<>>, <<Part(Count, "A", cond)>>, {})
Update(seqs, cond) == Request("update", FALSE, None, <<>>, <<Part("A", "A", cond)>>, seqs)
UnionOf(p, q) == Request("union", TRUE, None, <<>>, <<p, q>>, {})
From(tbl, equals) == [tbl |-> tbl, equals |-> equals]
Join(many, ret, cond) ==
    Request("join", many, ret, <<From("A", <<>>), From("B", <<"A.n = B.n">>)>>,
            IF cond = <<>> THEN <<>> ELSE <<Part("A", "A", cond)>>, {})
Copy(cond) ==
    Request("copy", FALSE, "B", <<From("A", <<>>)>>,
            IF cond = <<>> THEN <<>> ELSE <<Part("A", "A", cond)>>, {})

\* The same condition in every kind of request, every kind of condition, and
\* requests without parameters, on a database whose tables may not exist yet.
CommonRequests ==
    { CountOf("A", <<And0>>), Delete(<<And0>>), Update({0, 2}, <<Large1>>),
      UnionOf(Part("J", "A", <<And0>>), Part("K", "B", <<Not1>>)),
      Join(TRUE, "J", <<And0, Or1>>), Read(TRUE, "A", <<And0, In1>>),
      Read(TRUE, "B", <<Float3>>), Read(FALSE, "A", <<>>), Copy(<<>>) }

ReadThenCount == { Read(TRUE, "A", <<>>), CountOf("A", <<>>) }
Ordered == { Read(FALSE, "A", <<And0, Large1, Order1>>), Read(TRUE, "A", <<And0>>) }

ASSUME ParametersAssumption == ParametersFit

HandleSymmetry == Permutations(Handles)

==============================================================================

------------------------------ MODULE MCMongoDB ------------------------------
(* MongoDB for TLC: the structure of README.md:377-401 with fewer members.   *)
EXTENDS MongoDB

CONSTANTS v, w

NoAlias == << >>
MCAlias == [m \in {"versions", "drivers"} |-> IF m = "versions" THEN "v" ELSE "d"]
MCFieldAlias == [f \in {"lang"} |-> "l"]

\* An alias for a member that is compared
NameAlias == [m \in {"name"} |-> "n"]
NameAsks == {<<"read_list", << [mem |-> <<"name">>, op |-> "==", value |-> v] >> >>}

Driver(lang) == [f \in {"lang"} |-> lang]
Data(name) == Assign(Blank, "name", name)

\* Everything in an object is set, a list of drivers has one element.
Full == PushBack(AssignSon(AssignList(Data(v), "versions", <<v, w>>), "info", "y", w),
                 "drivers", Driver(v) @@ [f \in {"y"} |-> w])
Sparse == PushBack(AssignSon(Data(w), "info", "lang", v), "drivers", Driver(w))

MCObjects == {Full, Sparse}
MCWrites == { <<Full, Sparse>> }

\* Two drivers, as in the example.
Two == PushBack(PushBack(Data(v), "drivers", Driver(v)), "drivers", Driver(w))
ListObjects == {Two}
ListWrites == { <<Two>> }

Equal(mem, value) == [mem |-> mem, op |-> "==", value |-> value]
MCEqual == << Equal(<<"info", "y">>, w), Equal(<<"name">>, v) >>
MCIn == << [mem |-> <<"versions">>, op |-> "in", value |-> <<v, w>>] >>
MCAsks == {<<"read", MCEqual>>, <<"read_list", MCEqual>>, <<"read_list", MCIn>>, <<"del", MCEqual>>}
ListAsks == {<<"read_list", << Equal(<<"drivers", "lang">>, w) >> >>}

CONSTANTS c1, c2
MCMaxCalls == (c1 :> 2) @@ (c2 :> 1)

==============================================================================

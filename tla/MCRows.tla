------------------------------- MODULE MCRows -------------------------------
(* Rows for TLC: a structure of an AUTO_INCREMENT member and two others, one *)
(* of them declared with CAN_BE_NULL, and a TMP_STRUCT in another order.     *)
EXTENDS Rows

MCOrder == <<"id", "name", "type">>
MCResults == {MCOrder, <<"type", "name">>}
ValueSymmetry == Permutations(Values)

==============================================================================

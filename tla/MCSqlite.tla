------------------------------ MODULE MCSqlite ------------------------------
(* Sqlite for TLC: a call of several statements, one that looks at what     *)
(* becomes of its statement, one that does not.                             *)
EXTENDS Sqlite

MCKinds == {"write", "del", "update"}

=============================================================================

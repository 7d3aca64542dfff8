---------------------------- MODULE MCThreadPool ----------------------------
(* ThreadPool for TLC: a producer that leaves the choice of the consumer to  *)
(* the counter, and one that chooses it.                                     *)
EXTENDS ThreadPool, TLC

CONSTANTS p1, p2

MCProducers == {p1, p2}
MCCalled == p1 :> {"submit"} @@ p2 :> {"insert", "insert_num", "submit_key"}

=============================================================================

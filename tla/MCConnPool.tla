----------------------------- MODULE MCConnPool -----------------------------
(* ConnPool for TLC.  The state is finite by itself, since used_conns_ never *)
(* exceeds the number of threads; liveness rules symmetry out.               *)
EXTENDS ConnPool

MCThreads == 1..3

=============================================================================

----------------------------- MODULE PoolService -----------------------------
(***************************************************************************)
(* What ConnectionPool (src/src/com/conn_pool.h) promises its users, with  *)
(* no lock and no deque: an idle connection is lent to one thread at a     *)
(* time, a new one is opened only when none is idle, and what was lent     *)
(* comes back.                                                             *)
(***************************************************************************)
EXTENDS Integers

CONSTANTS
    Threads,    \* the users of the pool
    MaxOpened   \* the most connections it may ever open

VARIABLES
    idle,       \* the connections nobody uses
    lent,       \* the connection each thread uses, 0 for none
    opened      \* the number of connections opened so far

service == <<idle, lent, opened>>

ServiceInit == idle = {} /\ lent = [t \in Threads |-> 0] /\ opened = 0

Take(t) == /\ lent[t] = 0
           /\ \E c \in idle : /\ lent' = [lent EXCEPT ![t] = c]
                              /\ idle' = idle \ {c}
           /\ UNCHANGED opened

Open(t) == /\ lent[t] = 0
           /\ idle = {}
           /\ opened < MaxOpened
           /\ opened' = opened + 1
           /\ lent' = [lent EXCEPT ![t] = opened']
           /\ UNCHANGED idle

GiveBack(t) == /\ lent[t] # 0
               /\ idle' = idle \cup {lent[t]}
               /\ lent' = [lent EXCEPT ![t] = 0]
               /\ UNCHANGED opened

ServiceNext == \E t \in Threads : Take(t) \/ Open(t) \/ GiveBack(t)

ServiceSpec == ServiceInit /\ [][ServiceNext]_service

==============================================================================

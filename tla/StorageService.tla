---------------------------- MODULE StorageService ----------------------------
(***************************************************************************)
(* What a Sqlite object (src/src/sqlite/sqlite.h) promises its clients: a  *)
(* call is refused at once or accepted, accepted calls are executed one at *)
(* a time, those of one client in its order, each is answered once, and a  *)
(* value is the answer only when every statement of the call was executed, *)
(* for the kinds of calls that look.                                       *)
(***************************************************************************)
EXTENDS Integers, Sequences

CONSTANTS
    Clients,
    Kinds,      \* the kinds of calls
    Parts,      \* how many statements a call of each kind has
    Unchecked   \* the kinds that do not look at what becomes of their statement

VARIABLES
    calls,      \* the kinds of each client's calls
    answer,     \* and their answers: "none", "value" or "exception"
    waiting,    \* the numbers of those accepted and not started
    active,     \* the call in execution, a set of at most one <<client, number>>
    done        \* the statements executed: <<client, number, part>>, in order

storage == <<calls, answer, waiting, active, done>>

StorageInit == /\ calls = [c \in Clients |-> <<>>]
               /\ answer = [c \in Clients |-> <<>>]
               /\ waiting = [c \in Clients |-> <<>>]
               /\ active = {}
               /\ done = <<>>

\* With the answer come the calls that are refused, with "none" the calls that
\* are accepted and, without a place in waiting, those that are lost.
Called(c, kind, at) == /\ calls' = [calls EXCEPT ![c] = Append(@, kind)]
                       /\ answer' = [answer EXCEPT ![c] = Append(@, at)]
                       /\ UNCHANGED <<active, done>>

Accept(c, kind) == /\ Called(c, kind, "none")
                   /\ waiting' = [waiting EXCEPT ![c] = Append(@, Len(calls[c]) + 1)]

Refuse(c, kind) == Called(c, kind, "exception") /\ UNCHANGED waiting

Lose(c, kind) == Called(c, kind, "none") /\ UNCHANGED waiting

Start(c) == /\ active = {}
            /\ waiting[c] # <<>>
            /\ active' = {<<c, Head(waiting[c])>>}
            /\ waiting' = [waiting EXCEPT ![c] = Tail(@)]
            /\ UNCHANGED <<calls, answer, done>>

DoneOf(c, n) == {i \in 1..Parts[calls[c][n]] : \E k \in 1..Len(done) : done[k] = <<c, n, i>>}

Execute(c, n) == /\ <<c, n>> \in active
                 /\ \E i \in 1..Parts[calls[c][n]] :
                       /\ DoneOf(c, n) = 1..i - 1
                       /\ done' = Append(done, <<c, n, i>>)
                 /\ UNCHANGED <<calls, answer, waiting, active>>

Answer(c, n, at) == /\ <<c, n>> \in active
                    /\ answer[c][n] = "none"
                    /\ at = "value" /\ calls[c][n] \notin Unchecked =>
                          DoneOf(c, n) = 1..Parts[calls[c][n]]
                    /\ answer' = [answer EXCEPT ![c][n] = at]
                    /\ active' = {}
                    /\ UNCHANGED <<calls, waiting, done>>

StorageNext ==
    \/ \E c \in Clients, kind \in Kinds : Accept(c, kind) \/ Refuse(c, kind) \/ Lose(c, kind)
    \/ \E c \in Clients : Start(c)
    \/ \E call \in active : \/ Execute(call[1], call[2])
                           \/ \E at \in {"value", "exception"} : Answer(call[1], call[2], at)

StorageSpec == StorageInit /\ [][StorageNext]_storage

===============================================================================

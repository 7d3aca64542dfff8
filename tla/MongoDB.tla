------------------------------- MODULE MongoDB -------------------------------
(***************************************************************************)
(* MongoDB of src/src/mongo/mongo.h: the clients' calls, the queue of its  *)
(* EventOps, the thread that handles the events (mongo_event.h) through    *)
(* the context (mongo_context.h), their promises, and the destructor.      *)
(*                                                                         *)
(* The queue and its thread are the service that ThreadPool implements.    *)
(* The driver and the server are external: a collection, and operations    *)
(* that may fail when they are partly done.                                *)
(***************************************************************************)
EXTENDS Documents, FiniteSets

CONSTANTS
    Clients,
    Objects,        \* the objects they write
    Writes,         \* what they write: one object or a list of some
    Asks,           \* what they read and delete: <<operation, conditions>>
    MaxCalls        \* bound on the calls of each client

CondOps == {"read", "read_list", "del"}

ASSUME CallsAssumption == /\ Writes \subseteq Seq(Objects)
                          /\ \A obj \in Objects : IsObject(obj)
                          /\ \A ask \in Asks : /\ ask[1] \in CondOps
                                              /\ ask[2] \in Seq(Range(ask[2]))
                                              /\ \A i \in 1..Len(ask[2]) : IsCondition(ask[2][i])
                          /\ MaxCalls \in [Clients -> Nat]

VARIABLES
    calls,          \* the events of each client's calls, as prepared
    answer,         \* what their futures hold: "none", "value", "exception"
    queue,          \* those in the queue of the EventOps
    wpc,            \* where each worker is in handle()
    cur,            \* the call it handles
    ret,            \* what it has for the promise: a number, or what it read
    coll,           \* the documents of the collection, in their order
    life,           \* "new", "open", "closing" (the context is gone) or "gone"
    done,           \* history: the events that were executed
    want            \* history: what the objects of the documents held

clientVars == <<calls, queue>>
dataVars == <<coll, done, want>>
vars == <<clientVars, answer, wpc, cur, ret, life, dataVars>>

\* EventOps("mongodb", 1)
Workers == 1..1

Events == INSTANCE TaskService WITH Producers <- Clients, waiting <- queue, hand <- cur,
                                    given <- [c \in Clients |-> Len(calls[c])]

Nothing == [count |-> 0, entities |-> <<>>]

Init == /\ calls = [c \in Clients |-> <<>>]
        /\ answer = [c \in Clients |-> <<>>]
        /\ Events!TasksInit
        /\ wpc = [w \in Workers |-> "idle"]
        /\ ret = [w \in Workers |-> Nothing]
        /\ coll = <<>>
        /\ life = "new"
        /\ done = <<>>
        /\ want = <<>>

\* init() returned 0; its owner makes no calls when it returned -1, for there is
\* no pool_ then.
InitMongo == /\ life = "new"
             /\ life' = "open"
             /\ UNCHANGED <<clientVars, answer, wpc, cur, ret, dataVars>>

-----------------------------------------------------------------------------
(* create_event: it prepares the event, inserts it and returns its future. *)

\* prehandle() makes the documents: a later change of the object is not seen.
WriteEvent(objs) == [op |-> "write", docs |-> [i \in 1..Len(objs) |-> MakeWriteBson(objs[i])],
                     entities |-> [i \in 1..Len(objs) |-> Entity(objs[i])]]

CondEvent(op, conds) == [op |-> op, filter |-> MakeCondBson(conds), conds |-> conds]

\* Mutant: the event is counted and has no future.
Called_NoFuture(c, event, at) == /\ life = "open"
                                 /\ Len(calls[c]) < MaxCalls[c]
                                 /\ calls' = [calls EXCEPT ![c] = Append(@, event)]
                                 /\ UNCHANGED <<answer, wpc, ret, life, dataVars>>

Called(c, event, at) == /\ life = "open"
                        /\ Len(calls[c]) < MaxCalls[c]
                        /\ calls' = [calls EXCEPT ![c] = Append(@, event)]
                        /\ answer' = [answer EXCEPT ![c] = Append(@, at)]
                        /\ UNCHANGED <<wpc, ret, life, dataVars>>

Inserted(c, event) == Called(c, event, "none") /\ \E w \in Workers : Events!Accept(c, w)

\* An object without conditions.
PrepareThrows(c, op) == Called(c, CondEvent(op, <<>>), "exception") /\ Events!Refuse(c)

\* The queue refuses the event, which nobody looks at.
InsertRefused(c, event) == /\ \E w \in Workers, d \in Clients : queue[w][d] # <<>>
                           /\ Called(c, event, "none")
                           /\ Events!Refuse(c)

-----------------------------------------------------------------------------
(* handle() *)

Move(w, from, to) == wpc[w] = from /\ wpc' = [wpc EXCEPT ![w] = to]

Event(w) == calls[cur[w][1]][cur[w][2]]

Runs(w, ops) == wpc[w] = "run" /\ Event(w).op \in ops

TakeEvent(w) == /\ Move(w, "idle", "run")
                /\ UNCHANGED <<calls, answer, ret, life, dataVars>>
                /\ \E c \in Clients : Events!Start(w, c)

\* Mutant: the promise is set before the client went back to the driver's pool.
Executed_Early(w, value) == /\ Move(w, "run", "set")
                            /\ ret' = [ret EXCEPT ![w] = value]
                            /\ done' = Append(done, <<cur[w][1], cur[w][2], 1>>)
                            /\ answer' = [answer EXCEPT ![cur[w][1]][cur[w][2]] = "value"]
                            /\ UNCHANGED <<clientVars, cur, life>>

\* The context executed the event and gave its client back to the driver's pool.
Executed(w, value) == /\ Move(w, "run", "set")
                      /\ ret' = [ret EXCEPT ![w] = value]
                      /\ done' = Append(done, <<cur[w][1], cur[w][2], 1>>)
                      /\ UNCHANGED <<clientVars, answer, cur, life>>

\* Mutant: every call of write counts one entity.
Entities_One(docs) == 1

\* entities_
Entities(docs) == Len(docs)

\* The driver has no bulk of nothing, so an empty list always throws.
InsertMany(w) == /\ Runs(w, {"write"})
                 /\ Event(w).docs # <<>>
                 /\ Executed(w, [Nothing EXCEPT !.count = Entities(Event(w).docs)])
                 /\ coll' = coll \o Event(w).docs
                 /\ want' = want \o Event(w).entities

Indices(filter) == {i \in 1..Len(coll) : Matches(coll[i], filter)}

\* The numbers up to n that are in S, in their order.
Ascending(n, S) ==
    LET upto[k \in 0..n] == IF k = 0 THEN <<>>
                            ELSE IF k \in S THEN Append(upto[k - 1], k) ELSE upto[k - 1]
    IN  upto[n]

\* The documents of a cursor or an answer, in the order of the collection.
Cursor(filter) == Ascending(Len(coll), Indices(filter))

\* fetch_value into one object: the first document, if there is one.
ReadOne(filter) == LET found == Cursor(filter)
                   IN  IF found = <<>> THEN Blank ELSE FetchMongoResult(coll[Head(found)])

\* fetch_value into a container
ReadAll(filter) == LET found == Cursor(filter)
                   IN  [k \in 1..Len(found) |-> FetchMongoResult(coll[found[k]])]

Find(w) == /\ Runs(w, {"read", "read_list"})
           /\ ~Rejects(Event(w).filter)
           /\ Executed(w, [Nothing EXCEPT !.entities = IF Event(w).op = "read" THEN <<ReadOne(Event(w).filter)>>
                                                                             ELSE ReadAll(Event(w).filter)])
           /\ UNCHANGED <<coll, want>>

Without(seq, indices) == LET left == Ascending(Len(seq), 1..Len(seq) \ indices)
                         IN  [k \in 1..Len(left) |-> seq[left[k]]]

DeleteMany(w) == /\ Runs(w, {"del"})
                 /\ ~Rejects(Event(w).filter)
                 /\ Executed(w, [Nothing EXCEPT !.count = Cardinality(Indices(Event(w).filter))])
                 /\ coll' = Without(coll, Indices(Event(w).filter))
                 /\ want' = Without(want, Indices(Event(w).filter))

Throws(w) == Move(w, "run", "except") /\ UNCHANGED <<clientVars, answer, cur, ret, life, done>>

\* The driver throws after the first of the documents were stored,
InsertThrows(w) == /\ Runs(w, {"write"})
                   /\ \E n \in 0..Len(Event(w).docs) :
                         /\ coll' = coll \o SubSeq(Event(w).docs, 1, n)
                         /\ want' = want \o SubSeq(Event(w).entities, 1, n)
                   /\ Throws(w)

\* nothing was found,
FindThrows(w) == /\ Runs(w, {"read", "read_list"})
                 /\ Throws(w)
                 /\ UNCHANGED <<coll, want>>

\* or some were deleted.
DeleteThrows(w) == /\ Runs(w, {"del"})
                   /\ \E gone \in SUBSET Indices(Event(w).filter) :
                         /\ Rejects(Event(w).filter) => gone = {}
                         /\ coll' = Without(coll, gone)
                         /\ want' = Without(want, gone)
                   /\ Throws(w)

\* The promise gets this, and the event is gone.
Resolve(w, at) == /\ answer' = [answer EXCEPT ![cur[w][1]][cur[w][2]] = at]
                  /\ ret' = [ret EXCEPT ![w] = Nothing]
                  /\ UNCHANGED <<calls, life, dataVars>>
                  /\ Events!Finish(w)

SetValue(w) == Move(w, "set", "idle") /\ Resolve(w, "value")

\* Mutant: an exception is logged, and the value set all the same.
SetException_Value(w) == Move(w, "except", "idle") /\ Resolve(w, "value")

\* Mutant: the exception is caught, and that is all.
SetException_Swallowed(w) == /\ Move(w, "except", "idle")
                             /\ ret' = [ret EXCEPT ![w] = Nothing]
                             /\ UNCHANGED <<calls, answer, life, dataVars>>
                             /\ Events!Finish(w)

\* catch (...)
SetException(w) == Move(w, "except", "idle") /\ Resolve(w, "exception")

-----------------------------------------------------------------------------
(* ~MongoDB(): context_ goes first, then operators_, whose destructor      *)
(* stops the thread.  The owner has waited for all futures, as it must:    *)
(* the events in the queue have a reference to context_.                   *)

AllAnswered == \A c \in Clients : \A n \in 1..Len(calls[c]) : answer[c][n] # "none"

FreeContext == /\ life = "open"
               /\ AllAnswered
               /\ life' = "closing"
               /\ UNCHANGED <<clientVars, answer, wpc, cur, ret, dataVars>>

StopOperators == /\ life = "closing"
                 /\ \A w \in Workers, c \in Clients : queue[w][c] = <<>>
                 /\ \A w \in Workers : wpc[w] = "idle"
                 /\ life' = "gone"
                 /\ UNCHANGED <<clientVars, answer, wpc, cur, ret, dataVars>>

-----------------------------------------------------------------------------

AllEvents == {WriteEvent(objs) : objs \in Writes}
                \cup {CondEvent(ask[1], ask[2]) : ask \in Asks}

Call(c) == \/ \E event \in AllEvents : Inserted(c, event) \/ InsertRefused(c, event)
           \/ \E op \in CondOps : PrepareThrows(c, op)

Handle(w) == \/ TakeEvent(w)
             \/ InsertMany(w) \/ Find(w) \/ DeleteMany(w)
             \/ InsertThrows(w) \/ FindThrows(w) \/ DeleteThrows(w)
             \/ SetValue(w) \/ SetException(w)

Next == \/ InitMongo
        \/ \E c \in Clients : Call(c)
        \/ \E w \in Workers : Handle(w)
        \/ FreeContext
        \/ StopOperators

Spec == Init /\ [][Next]_vars

\* The thread runs, and a destructor that was entered.
FairSpec == Spec /\ (\A w \in Workers : WF_vars(Handle(w))) /\ WF_vars(StopOperators)

-----------------------------------------------------------------------------
(* Properties *)

Answers == {"none", "value", "exception"}

\* What create_event prepares; without conditions it throws.
Prepared == AllEvents \cup {CondEvent(op, <<>>) : op \in CondOps}

CallTypes == /\ calls \in [Clients -> Seq(Prepared)]
             /\ answer \in [Clients -> Seq(Answers)]
             /\ \A c \in Clients : Len(answer[c]) = Len(calls[c])
QueueTypes == /\ queue \in [Workers -> [Clients -> Seq(Clients \X Nat)]]
              /\ cur \in [Workers -> (Clients \X Nat) \cup {Events!NoTask}]
WorkerTypes == /\ wpc \in [Workers -> {"idle", "run", "set", "except"}]
               /\ DOMAIN ret = Workers /\ \A w \in Workers : ret[w].count \in Nat
\* The documents are those of objects, member for member.
DataTypes == /\ coll \in Seq({MakeWriteBson(obj) : obj \in Objects})
             /\ want \in Seq({Entity(obj) : obj \in Objects})
             /\ Len(want) = Len(coll)
             /\ \A i \in 1..Len(coll) :
                   \E obj \in Objects : coll[i] = MakeWriteBson(obj) /\ want[i] = Entity(obj)

TypeOK == /\ CallTypes /\ QueueTypes /\ WorkerTypes /\ DataTypes
          /\ life \in {"new", "open", "closing", "gone"}
          /\ done \in Seq(Clients \X Nat \X Nat)

\* What an object holds under a member, or one of an object inside
Held(entity, mem) ==
    IF Len(mem) = 1 THEN At(entity.basic, mem[1])
    ELSE UNION {At(son, mem[2]) : son \in At(entity.son, mem[1]) \cup UNION {Range(s) : s \in At(entity.sons, mem[1])}}

\* What the conditions of an object ask for.
Holds(entity, c) == c.op = "==" /\ c.value \in Held(entity, c.mem)

Asked(entity, conds) == \A i \in 1..Len(conds) : Holds(entity, conds[i])

\* Those of which they hold, in their order
AskedOf(entities, conds) ==
    LET found == Ascending(Len(entities), {i \in 1..Len(entities) : Asked(entities[i], conds)})
    IN  [k \in 1..Len(found) |-> entities[found[k]]]

(* A structure with lists and structures inside comes back as its client    *)
(* wrote it: what a read returns is, member for member, what the objects    *)
(* held whose documents the conditions ask for (README.md:377-444).         *)
ReadsWhatWasWritten ==
    \A w \in Workers :
        wpc[w] = "set" /\ Event(w).op \in {"read", "read_list"} =>
            LET asked == AskedOf(want, Event(w).conds)
                got == [k \in 1..Len(ret[w].entities) |-> Entity(ret[w].entities[k])]
            IN  IF Event(w).op = "read_list" THEN got = asked
                ELSE asked # <<>> => got = <<asked[1]>>

(* The number a write or a deletion answers is the number of documents that *)
(* came or went (mongo_event.h:28, 45, 58, 123).                            *)
AnswerCountsDocuments ==
    [][\A w \in Workers :
          wpc[w] = "run" /\ wpc'[w] = "set" =>
              /\ Event(w).op = "write" => ret'[w].count = Len(coll') - Len(coll)
              /\ Event(w).op = "del" => ret'[w].count = Len(coll) - Len(coll')]_vars

(* An owner that destroys the object once all its futures are ready is      *)
(* safe: context_ goes before the thread that uses it (mongo.h:53-54), and  *)
(* no event meets assert(context_) without one.                             *)
ContextOutlivesUse == life # "open" => \A w \in Workers : wpc[w] = "idle"

(* Whoever waits for a call that was put into the queue does not wait for   *)
(* ever: every way out of handle() resolves the promise.                    *)
InsertedIsAnswered ==
    \A c \in Clients : \A n \in 1..MaxCalls[c] :
        (\E w \in Workers : \E i \in 1..Len(queue[w][c]) : queue[w][c][i] = <<c, n>>)
           ~> (n <= Len(answer[c]) /\ answer[c][n] # "none")

Ops == CondOps \cup {"write"}

Storage == INSTANCE StorageService WITH
    Kinds <- Ops,
    Parts <- [op \in Ops |-> 1],
    Unchecked <- {},
    calls <- [c \in Clients |-> [n \in 1..Len(calls[c]) |-> calls[c][n].op]],
    waiting <- [c \in Clients |-> [i \in 1..Len(queue[1][c]) |-> queue[1][c][i][2]]],
    active <- {cur[w] : w \in {v \in Workers : wpc[v] # "idle"}}

(* The same storage that a Sqlite object implements, and better: no call    *)
(* answers a value for what was not executed.                               *)
ImplementsStorage == Storage!StorageSpec

==============================================================================

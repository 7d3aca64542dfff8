# yan: a verification project

yan lets a client describe a table as a C++ structure and read, write, update, delete, join, union and
copy rows of SQLite (or documents of MongoDB) through objects of that structure. Every call returns a
future: the call builds an event, a queue takes it to a worker thread, the thread borrows a connection
from a pool, executes the statement and answers the future.

This directory holds TLA+ modules of that program, the TLC runs that check them on small instances
(`*.cfg`), and proofs that TLAPS checks (`*_proofs.tla`). Every definition is translated from the source;
`PROJECT.json` maps each one to its lines.

## Inventory

| Part | State it keeps | Operations | What makes it correct |
|---|---|---|---|
| Connection pool, `com/conn_pool.h` | `conns_`, `used_conns_`, `spin_lock_` | `get`, `release` | one owner per connection, none lost, never the null pointer, the flag always cleared |
| Thread pool, `com/thread_pool.h/.cpp` | one queue and thread per consumer, `stop_`, `seq_` | three `insert`, three `submit`, `stop`, worker loop | every accepted task runs once, in its producer's order, also across `stop()` |
| Events and futures, `base/event.h`, `base/event_ops.h` | a promise per event | `insert`, `set_value`, `set_exception` | every call that was queued is answered once |
| Sqlite object, `sqlite/sqlite.h`, `sqlite_event.h`, `sqlite_union.h`, `sqlite_join.h`, `sqlite_copy.h` | `operators_`, `conn_pool_`, per event its texts or conditions | `create_table`, `write`, `update`, `read`, `del`, `count`, `union_read`, `join_read`, `copy`; `handle()` of each event; destructor | connections come back on every path, the owner may destroy the object when its futures are ready, values only for executed statements |
| Connection and statement cache, `sqlite/sqlite_context.h` | `conn_`, `read_stmts_` | `write`, `execute` for all others | a cached statement is the one the request needs, is clean, and is finalized exactly when it leaves the map |
| Texts, keys, parameters, `sqlite/sqlite_readref.h/.cpp`, `base/ref_ops.h` | none between calls | `make` of each kind, `bind`, `hash_value` | different texts have different keys; parameters are bound in the order of the text |
| Structures and objects, `base/ref.h`, `base/arch.h` | per object `seqset_`, `conds_`, `hashv_`, per member `cond_`, `flag_`, `value_`, `obj_`; per structure a static registry | assignment, comparison, `AND`/`OR`/`NOT`, `ORDER_ASC`..., copies, lists, structures inside | a request means what its object said when it was handed in |
| Results, `sqlite/sqlite_writeref.h` | `col_` | `fetch` | columns reach the members they were selected for |
| MongoDB, `mongo/*` | `operators_`, `context_`, per event its documents or filter | `init`, `write`, `read`, `del`; `handle()` of each event; destructor | as the Sqlite object, and documents hold what the objects held, nested ones too |
| Helpers, `com/logger.h`, `macro.h`, `strops.h` | none | | |

How they interact. The client's thread runs `create_event` (or `commit`): it makes the event from the
client's objects (some values are copied, the list of conditions is shared), and pushes a closure to a
queue of the thread pool. Each worker pops closures, and in `handle()` calls `get()` of the pool, one or
several operations of the connection, `release()`, and resolves the promise. The client sees only its
futures. Sqlite creates its pool of threads with one worker, so one connection and one statement cache do
all the work, but the connection pool, the thread pool and the objects are shared with clients' threads.

What is hard: the lock-based pool with a fallible constructor inside the lock; `stop_` read without
synchronisation beside a queue size; queues that refuse; a statement cache keyed by a hash that must tell
texts apart, with failures at each step; data shared between an object and the requests made with it;
values that travel by position; the order in which members are destroyed. `PROJECT.json` lists each such
place with the properties that watch it, or a note where none does.

## Modules

| Module | What it models | State and actions against the code |
|---|---|---|
| `PoolService` | what a pool of connections promises: take an idle one or open one, give back | abstract: `idle`, `lent`, `opened` |
| `ConnPool` | `ConnectionPool` | one action per line of `get()` and `release()` that another thread can see between: `TestAndSet`, `GetSize`, `GetFront` (the move leaves a null pointer), `GetPop`, `GetCreate`, `GetCreateFails`, `RelPush`, the clears. A connection is named by the value of `++used_conns_` |
| `ConnPool_proofs` | its proofs | |
| `TaskService` | what a thread pool promises: each task is refused or put before one worker, taken once, in its producer's order | abstract: `given`, `waiting`, `hand` |
| `TaskService_proofs` | what follows from that promise alone | |
| `ThreadPool` | `ThreadPool` | a call is `StopCheck`, `Route` (number, key or `++seq_`, which wraps), `Enqueue` or `EnqueueFails` (a full queue); the worker loop is `SeeStop`, `CheckSize`, `Dequeue`, `Timeout`, `Run`; `stop()` is `Stop`, `Join`. The queue keeps one FIFO per producer, as the moodycamel queue does, and may refuse when full. An index out of the vector leads to `wild` |
| `ThreadPool_proofs` | its proofs | |
| `SqlText` | texts as token sequences, keys, parameters | `Sql`, `Key`, `Binds` for the seven kinds of requests; `Slots`: the `?` of a text |
| `StmtCache` | `SqliteContext::execute` | `Find`, `Create`, `Bind`, `Step`, `Reset`, and the failure of each; `CreateFails` may leave a null entry, because the two operands of the assignment at line 200 are unordered before C++17; `Crash` is `sqlite3_clear_bindings` of a null statement |
| `StmtCache_proofs` | its proofs | |
| `RefObject` | an object, requests made with it at once or through a builder, the worker that runs them later | `Name`, `Compare`, `Order`, `Assign` of the client; `Read`, `Update` make requests; `Begin`, `UnionRead`, `Join`, `SetCond` collect in a `SqliteUnion`, `SqliteJoin` or `SqliteCopy`, `Commit` hands in its address; `Take` to `Step` are the worker's, which reads the builder when it runs and the shared list twice: for the text and for the parameters |
| `RefObject_proofs` | its proofs | |
| `Rows` | objects to rows and back | `Assign`, `Copy` of objects (a member keeps the address of the object it was made in), `Write`, `Update`, `Read`, `ReadOne`, `Count`, `Del`, `CreateTable` make requests, the `Execute...` actions run them on a table |
| `Rows_proofs` | its proofs | |
| `StorageService` | what a Sqlite object promises | abstract: calls, answers, one call in execution, statements executed |
| `Sqlite` | the composition: clients, queue, worker, pool, destructor | `Inserted`, `InsertRefused`, `PrepareThrows` are a call; `TakeEvent` to `SetValue` or `SetException` are `handle()`; `FreePool`, `StopOperators` are the destructor. The pool is `PoolService` |
| `Sqlite_proofs` | its proofs | |
| `Documents` | objects with lists and structures inside, the documents made of them and fetched into them under the members' names or aliases, the filters under their names | `Assign`, `AssignList`, `AssignSon`, `PushBack` of an object; `MakeWriteBson`, `MakeCondBson`, `FetchMongoResult` are the classes of these names, `FetchSon` and `FetchSons` their parts for what is nested, `GetName` the name a member is stored under, `Written` and `Fetched` the traversals that use it |
| `MongoDB` | the composition for MongoDB: clients, queue, worker, collection, destructor | `Inserted`, `InsertRefused`, `PrepareThrows` are a call; `InsertMany`, `Find`, `DeleteMany` and the `...Throws` are the operations of the context, `SetValue` and `SetException` end `handle()`; `FreeContext`, `StopOperators` are the destructor |
| `MongoDB_proofs` | its proofs | |
| `MC...` | the instances for TLC | |

The layers meet through their abstractions. `Sqlite` uses the pool as `PoolService`, which `ConnPool` is
proved to implement; its queue and worker, as those of `MongoDB`, take the steps of `TaskService`, which
`ThreadPool` is proved to implement; its statements are executed or fail, which `StmtCache` shows in detail; its `done` and `answer`
are proved to implement `StorageService`, and so are those of `MongoDB`.

## Runs

| Run | Instance | What it shows |
|---|---|---|
| `conn_pool` | 3 threads, calls without end | mutual exclusion, one owner per connection, no null pointer, at most one connection per thread, a connection is opened only when all are in use, `PoolService` is implemented; when every thread runs the flag is always cleared and some waiting call always returns |
| `thread_pool` | 2 producers of 2 calls, 2 workers, queues of 2; one producer leaves the consumer to the counter, which wraps at 1, one uses keys, numbers in and out of range or the counter; `stop()` anywhere | tasks are run exactly once, in the order of their producer, as `TaskService` says; what was queued before `stop()` is run before it returns, and it returns; only late tasks are left behind; the vector is indexed out of bounds by the number of consumers and by a wrapped counter, and by nothing else |
| `stmt_cache` | 9 requests, 3 statement handles, 2 values | the statement matches the request, parameters are the request's own, the map owns the statements, a request with parameters survives a null entry |
| `stmt_cache_count` | a read and a count of one table | violation: they share a key |
| `stmt_cache_ordered` | the condition of README.md:175-178 | violation: ORDER BY is bound as a parameter it does not have |
| `ref_object` | 1 member, 2 objects, 2 conditions in all, 2 requests, 1 builder of 2 parts and 2 tables | a client that adds no conditions or parts to what a pending request uses gets what it asked for; the hypotheses of `RequestCorrect` hold for all that can be asked within the bounds |
| `ref_object_shared` | a client that does add one | violation: the request runs with the later condition |
| `sqlite` | 2 clients of 2 calls, writes of 2 statements, deletions and updates | connections come back, destruction is safe after the last future, queued calls are answered, `StorageService` is implemented |
| `rows` | 3 members, 3 objects, 2 rows, 3 requests, 2 values | rows hold what their objects held, answers count rows, fetches are faithful |
| `mongo` | 2 clients of 2 calls and 1, a list of two nested objects, aliases for three of their members, conditions on others at two levels and on a list | objects come back as written, answers count documents, queued calls are answered, destruction is safe after the last future, `StorageService` is implemented |
| `mongo_lists` | an object with a list of two objects | violation: the list comes back with one |
| `mongo_alias` | a condition on a member with an alias | violation: it finds nothing |

Why the bounds are enough. Three threads are the least that can hold a lock, wait and hold a connection at
once, and the state of `ConnPool` is finite without a bound of its own. Two tasks per producer and a queue of
two let a queue be full, empty and overtaken by `stop()`; the counter's width `SeqMax` is small so that it
wraps within the run, and a producer whose index left the vector stays `wild`: what follows is undefined. The nine requests of `stmt_cache` hold every kind of request, a shared condition, an
unbindable type and requests without parameters; three handles let two statements stay in the cache while a
third is made, and a connection lives through any number of requests. Two requests are enough for one to be
pending while the other's statement is cached, and two parts for a builder to be committed with one and then
with both. Two calls of two clients let a queue hold calls of both while
one is in execution. Two values tell a value from another's and three objects are a row's object, a copy and
a fetched one. In `mongo` the second client's one call comes between any two of the first; with two calls
each (a million states) the run finds no error either. `MaxCalls`, `MaxObjects`, `MaxConds`, `MaxRequests`, `MaxBuilders`, `MaxParts`, `MaxRows`,
`SeqMax` and `Capacity` are the only bounds, and each is a guard that names it. `Capacity` is also the code's own limit (8192).

Symmetry is used for producers, handles and values, in runs without liveness. Deadlock is not checked where
the system really stops: after `stop()`, after the destructor, when the bounded client has made its calls,
or when the only handles are taken.

## Fairness

- `ConnPool`: a thread inside `get()` or `release()` keeps running (weak fairness of its steps). It need not
  call, and a test-and-set is not promised to succeed. Without this nothing follows: the pool spins on a
  flag and is not lock-free, whatever the comment at conn_pool.h:13 says, because a thread that is stopped
  while it opens a database inside the lock stops all others.
- `ThreadPool`: producers inside a call and workers keep running, the join keeps running, and a worker that
  keeps reading `stop_` sees it at last (strong fairness of `SeeStop`; `stop_` is a plain bool, so the language
  promises less, but the loop contains calls the compiler cannot see through). Nobody has to call `stop()`.
- `Sqlite` and `MongoDB`: the worker runs, and a destructor that was entered goes on. Clients owe nothing.

## Proofs

`ConnPool_proofs`, for every finite set of threads (`ThreadsAssumption`). The inductive invariant is
`TypeOK /\ LockMutualExclusion /\ NeverNullInUse /\ OneOwnerPerConnection`. The lock comes first: a step of
one thread inside the critical section leaves no other inside. Given that, the null pointer is in front of the
deque only while its mover is about to pop it, and every step moves one connection between one thread and one
slot. `ConnectionsBounded` needs more than the invariant: when a connection is created all others are held
by distinct other threads, hence their number is below the number of threads (an injection between finite
sets). `Implementation` is the refinement: the pop is `Take`, the creation is `Open`, the push is `GiveBack`, all
others stutter. `OpensOnlyWhenNeeded` is an action property from the same invariant.

`TaskService_proofs`, for every set of producers and of workers. `TasksInv`: tasks have their types, those of a
producer wait at a worker in the order of its calls, and each task waits or is in a hand once at most. `Sqlite_proofs`
and `MongoDB_proofs` cite its lemmas under the substitution with which these modules instantiate `TaskService`: what
they need of their queue is proved once, from the promise and not from the pool.

`ThreadPool_proofs`, for every set of producers and every number of workers, capacity and width of the counter. `Inv`
is `TypeOK` with `CallsInv` (a producer inside a call has a call left and an index inside the vector), `KnownInv` (what is in the
pool belongs to a call that is over, and the i-th task in a queue is the i-th call or a later one),
`FifoPerProducer`, `PlaceInv` (a call that was not refused has its task queued, in a hand or run, at one worker), `JoinInv` (`stop()`
joins only workers that left) and `ExitedWorkerLeftOnlyLateTasks`. `DrainedBeforeStopReturns` follows from the last three: every
worker left, and an early task is in none of their queues. `ExactlyOnce` needs `FifoPerProducer` as well: two places of one task at
one worker would break the order. `Implementation` is the
refinement of `TaskService`.

`StmtCache_proofs`, for every set of requests, values and handles. What keys, texts and parameters compute is
not looked into. `Inv` has four parts: `Owned` (map and open statements one to one at every step), `Local`
(the variables of `execute()` name the entry it works on), `Clean` (all statements but the current one are reset
and unbound), `Texts` (each statement was prepared for some request with its key). From it `CacheCorrect` follows
on every error path, and `StatementCorrect` under the hypothesis `KeysFaithful`: requests that share a key share
a text. `stmt_cache_count` shows that the code's keys do not satisfy the hypothesis for all requests; the theorem
says that this is the only way to run a wrong statement. `StmtTypes` and `BindInv` add the types and what `Bind` leaves for
the step. `BindsCorrect` has a second hypothesis, `ParametersFit`: a text that has a place for each of its request's
parameters has just these, in their order. TLC evaluates it for the requests of the runs (`ParametersAssumption`).

`Rows_proofs`, for any structure, values, result structures and bounds, and for a client that assigns no new
member in a copy of an object (`~AssignsToCopies`). The code does not enforce that: it notes the member in the original
(ref.h:206), and the text of the copy then lacks it. `Inv` is `ObjInv` (an object has noted exactly the members assigned in
it, a fetched one none), `TableInv`, `RequestInv` (the request holds the positions and the values of its objects) and
`AnswerCountsRows`. Under `RowsHoldTheirObjects` is a pigeonhole argument: a row of a text fits only if its object has noted as
many members as the first, and the table refuses a row that lacks one of the members that are not AUTO_INCREMENT; so a text
that executes has all of them, in the same order, for every object, and values that travel by position arrive. The order is that of `Ascending`; its
lemmas (each member has a place, its rank) and those on concatenation are induction over finite data done without an induction
theorem, by the least counterexample (`NatMin`).

`RefObject_proofs`, for any structure, values and bounds. `TypeInv` holds for every client, also one that adds conditions
while a request is pending: `ObjInv` (the hash of the object is that of its list, and a member that is noted has a value), `ListsInv` (a list
is never empty), `BuildersInv`, and `RequestsInv` (a request has one part per condition list and the values that were assigned, refers to lists and
a builder there are, and is one a client can ask, `CanAsk`). `RequestCorrect` has three hypotheses. `CondsFrozen` is the
client's discipline: no condition for a list that a request or a builder shares, no part for a builder with a request pending; the run
`ref_object_shared` shows what happens without it. Under it `FrozenInv` holds: a part's list is what it was when it was taken and its
hash is the hash of it, and a builder has what its request had, although the worker reads both later. Then what the worker makes its
key, its text and its parameters of is what was asked (`KeyIs`, `TextIs`, `BindsGiven`), which with `WorkerInv` gives the property: each text in the map
was made for some request a client can ask with that key. `KeysFaithful` is that requests with one key have one text, so that the text found is that of the request;
`PlacesFit` that no text has more `?` than there are values, so that none is left unbound. They are about `Key` and `Sql`, which are not
looked into; TLC evaluates both for all that can be asked within the bounds of the run (`KeysAssumption`, `PlacesAssumption`). A structure
with members numbered 1, 2 and 12 does not satisfy the first: assigning 1 and 2 or 12 alone gives one key (ref_ops.h:274).
`NullAssumption` keeps `Null` apart from the values a request has copied. That the parameters bound are a sequence as long as its two
parts needs `FlattenIs`, once more by the least counterexample.

`Sqlite_proofs`, for every set of clients, kinds of calls and bounds. `Inv` is `TypeOK`, `TasksInv` of its queue, `CurInv` (the
thread has a call exactly inside `handle()`), `ConnectionsReturned`, `AnswerInv` (what waits or is handled has no answer, and an
owner in the destructor has all), `PartInv` (how many statements are over at each line of `handle()`) and `DoneInv` (`done` holds
those of the current call it is past, and none of a call that waits). `Implementation` maps `Inserted`, `PrepareThrows` and
`InsertRefused` to `Accept`, `Refuse` and `Lose` of `StorageService`, `TakeEvent` to `Start`, `Statement` to `Execute`, `SetValue` and
`SetException` to `Answer`, and the steps that take or return the connection, or fail, to stuttering.
`ConnectionsCorrect` is a conjunct; `PoolOutlivesCorrect` follows because the call in `handle()` has no answer yet.

`MongoDB_proofs`, the same for `MongoDB`, with the collection: `AnswerCountsDocuments` is an action property from `TypeOK` and
the operations of the context. `ReadsCorrect` is about the documents, for every structure, objects, conditions and bounds. `DataTypes` keeps the
i-th document the one made of an object that held the i-th of `want`, through every insertion and deletion, also one that stopped half done;
`RoundTrip` fetches from such a document what the object held, `AsksTheSame` has the filter find it exactly when the conditions ask for it, and
`FindReads` puts them together: the indices found are the same, so are their order and what is fetched. It assumes of a structure that its members
have different names and are stored under different ones (`NamesAssumption`), of an object that it holds nothing it has not noted (`IsObject`, which `ObjectsMade` shows of what
`Assign`, `AssignList`, `AssignSon` and `PushBack` make of `Blank`), and of a condition other than "in" that it names a basic member, or one of
a structure inside (`IsCondition`); TLC evaluates these for the objects and conditions of the run. Its three hypotheses name what the code loses: `ListsOfOne`, for a list of objects comes
back as one object (ref.h:365, the run `mongo_lists`); `ComparesEqual`, for the operator of a comparison is left out
(mongo_readref.h:158-162); and `ComparesUnaliased`, for a condition names a member as the structure does (ref_ops.h:456) while its
documents have it under its alias (ref.h:502-508; the run `mongo_alias`). Members that are not compared may have aliases, and come back:
`WrittenAt` finds each value under its name, because no two members share one.

Only model-checked: liveness. Liveness under fairness, ENABLED, and what recursive definitions compute on data of
every size are outside what the provers do; no module that is proved about uses a RECURSIVE operator.

## What the code does that its documents do not say

The five violation runs and `findings` in `PROJECT.json`. Besides, seen while modelling and without a run of
their own:

- `insert(num)` and `submit(num)` refuse num > consumers_.size() only (thread_pool.h:121, 154), so the number of
  consumers itself indexes the vector one past its end; the exception says "invalid consumer number".
  `IndexInRange` names this case and that of a negative remainder after the counter wrapped;
- two joins with the same conditions into different structures share a key (sqlite_context.h:179-188), and so
  do updates of the members {1, 2} and {12} (ref_ops.h:274): `KeysFaithful` fails for such requests;
- `submit(f)` and `EventOps::insert` ignore a queue that refuses (thread_pool.h:185, event_ops.h:18): the future
  is never ready. The model has the case (`EnqueueFails`, `InsertRefused`);
- update, copy, and reads, unions and joins into one value do not look at what `sqlite3_step` returns
  (sqlite_context.h:117, 146, 243-249):
  they answer a value for a statement that failed. `StorageService` says for which kinds a value means execution;
- a count whose step fails answers an uninitialised number (sqlite_event.h:138), a read of one object whose step
  fails an object without values (sqlite_context.h:241-250), and a deletion always 0, since a DELETE returns no
  rows (sqlite_context.h:267-275);
- what is collected in a union, join or copy after `commit()` is in the request that was committed, if the worker
  has not run it yet (sqlite_union.h:68); what `hold()` keeps is never freed (sqlite_union.h:21);
- a write of several objects is not atomic: statements before the one that fails stay executed;
- an object that was fetched has its members marked as assigned without their numbers (ref_ops.h:347-357 and
  sqlite_writeref.h), so that assigning one and calling `update` throws, and its members point to an object that
  is gone;
- a member assigned in a copy of an object is noted in the original (ref.h:206), and a copy of an object whose
  list had a `COND()` deletes that condition a second time (ref.h:303-306, 338);
- conditions of MongoDB compare for equality whatever the operator, AND or OR (mongo_readref.h:158-162), those on
  a list use "$eleMatch", which a server does not know (mongo_readref.h:150), also in the example at
  README.md:440-443, and the database has no name (mongo_context.h:95, never assigned), which a server refuses;
- CAN_BE_NULL is defined as false (arch.h:80), and a fourth argument of MEMBER is always taken for an alias
  (ref.h:550), so every column but AUTO_INCREMENT gets NOT NULL and an INSERT that leaves one out fails, although
  README.md:104, 118 let the field be null (`CanBeNull`);
- the size of a list is taken at the start of its object and not at the list (ref.h:282, 370, 702, ref_ops.h:555),
  so an empty list is written as an empty array as long as the object has noted a member;
- the `mongocxx::instance` lives only while `init()` runs (mongo_context.h:21), and after an `init()` that
  returned -1 the first event ends the process at an assertion (mongo_context.h:34).

## Not modelled

The static registry of structures and its race between the first object and the worker.
Allocation failure. Quoting, column types and names, `CHAR(n)`. Transactions, which the README calls under
development. The values of answers, but for writes, reads and counts. An owner that destroys the Sqlite
object before its futures are ready: its queued events then use a destroyed pool (sqlite.h:121-122); the same for
MongoDB. The driver of MongoDB and its server, except as a collection and operations that may fail half done;
lists inside the structures inside a structure; members that cannot be fetched (all but strings, 32-bit integers
and doubles throw, mongo_writeref.h:43-72). A task of a thread pool that throws, which ends the process
(thread_pool.cpp:23). More than one process on
the database: other processes appear as steps that fail.

## Plan

Built, in this order: `PoolService`, `ConnPool`, its proofs; `ThreadPool`; `SqlText`, `StmtCache`, its proofs;
`RefObject`; `StorageService`, `Sqlite`; `Rows`; `TaskService`; `Documents`, `MongoDB`; the builders of
`RefObject`; deletions and counts of `Rows`; the proofs, those of `RefObject` and of the documents of `MongoDB` last.

Next, by importance:

1. `RefObject`: two members in one run, copies of objects with conditions.
2. `Sqlite`: several workers, which `EventOps` allows: one connection and one cache per worker.
3. The registry of structures: first construction by a client beside a worker that reads it.

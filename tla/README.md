# A verification of the stochastic scheduler controller

The controller runs inside a serverless container.  A client posts a request to
run a *manifest* of actions that depend on each other; the controller starts one
subprocess per action, feeds each the results it depends on and answers with
the results of the last ones.  Several containers may run the same manifest at
once, each in another order, and tell each other what they have computed.

This directory holds TLA+ models of it, configurations for TLC and proofs for
TLAPS.  `PROJECT.json` lists the runs, the lines each definition stands for,
the mutations every property is tested with, the hazards and the theorems.

## Inventory

Paths are below `src/controller/src/controller/` (or `src/controller-lib/src/`).

| part | state | operations | correct when |
|---|---|---|---|
| cooperative scheduler (`app/thread-controls.cpp` 400-464) | a deque of handles, each a flag with mutex and condition variable | push, yield, yield finished, time slice | a hand-over reaches somebody, one initializer runs at a time, the deque follows the initializers |
| action scheduler (`app/controller-app.cpp` 360-493, 720-1032, 1341-1621, `app/action-manifest.cpp`) | contexts, values of actions, execution indices pending on threads | SCHED_END, `next`, `notify`, `stop_thread`, rescheduling | the index of a context is neither lost nor duplicated, actions start with their results there, every context is answered |
| thread controls (`app/thread-controls.cpp` 1-400, 466-533) | start and end bits, step of the subprocess, pipes, process group | wait, notify, stop, seven steps from fork to result, cleanup | an executor that is started or stopped goes on and leaves nothing behind; a result is whole and read once |
| mailbox and IO thread (`io/controller-io.*`, `app/controller-app.cpp` 720-813) | signal word, bounded queue, streams of sessions, HTTP sessions | push, pull, signal, wait with timeout, read and route | the queue keeps its bound, data has a message, no end is lost, nobody waits for ever |
| peer mesh (`app/controller-app.cpp` 1034-1268, 1430-1495, 1621-1809) | peer addresses, client and server sessions per context | PUT with 201 or 404, results as a JSON stream, merging of peers | all containers agree on results; a finished context refuses late ones |
| shutdown (`main.cpp`, `Controller::stop` 2075-2081, `IO::stop`) | terminate bit, `destruct_`, `stopped_` | terminate, wait for the main loop, wait for the IO thread | nothing is destroyed while a thread uses it; contexts are still answered |
| API requests (238-358, 495-655) | libcurl handles | one request per concurrent context | every context gets its own index |
| manifest construction (`app/action-manifest.cpp` 13-61, `app/execution-context.cpp`) | relations sorted by depth | emplace, sort | dependencies come after dependents |
| SCTP server (`transport-servers/sctp-server/`, `transport-servers/server/`) | vector of sessions, pending connects, next stream, each session's association and stream | connect, notifications and messages, write, close | issued connects have an outcome, streams are distinct, dead sessions leave, a request reaches the server side |
| HTTP (`application-servers/http/`) | parser states, big numbers, what was written | read and write first lines, headers and chunks | what is written is read back, once, however it arrives |
| JSON scanner (13-84) | cursor | next object of a stream | the objects of the stream, once each |

How they interact: the IO thread turns what arrives on sockets into messages in
the queue; the main thread takes one message per turn of its loop and routes it;
a POST starts an initializer thread, which forks one executor thread per action
and shares the processor with the main thread through the cooperative scheduler;
executors store results in the context's relations and set the SCHED_END bit of
the mailbox signal; the main thread then answers stopped contexts and hands
execution indices to further threads.  There are no queues between the main
thread and the executors: everything goes through atomics, small mutexes and
condition variables, and this is where the difficulty lies:

* two critical sections for one hand-over (`thread_sched_yield`);
* flags set and notifications sent without the mutex of the wait (`notify`,
  `stop_thread`, the mailbox signal);
* two scans of SCHED_END over state the executors change in between;
* three writers of one value (executor, peer's result, refusal) with three rules;
* messages that are written, received and read in pieces that do not match.

## Modules

### ThreadSched

The deque of handles and the handles' flags.  One action per critical section:
`Rotate` (434-450, under `sched_mtx_`), `FlipAndWait` (451-457, under the
handle's mutex), `Resume` (the wait's predicate), `Pop` and
`FlipAndLeave` (the finished initializer), `RunRequest` (push and start),
`TimeSlice`.  Notifications are explicit: `woken` holds the waiters `notify_one`
has chosen, so a notification that reaches nobody is lost in the model as well.
A wait may also end spuriously when its predicate holds.  When a slice is over
is left open.  The variables `held` and `saved` are the locals `handle` and
`flag` of the function.

### ActionScheduler

One controller, any number of contexts, any manifest.  The state of a thread is
`started` and `stopped` (its signal word), `pending` (its execution indices),
`exe` (where its executor is) and `value` (its relation's value, by who wrote
it).  The main thread is a process with a program counter (`main`) so that every
scan and every call of `next` is a step of its own and executors run in between:

| `main` | code | actions |
|---|---|---|
| `loop` | 727-750 | `ReadSignal` |
| `route` | 755-812 | `PostRun`, `PostAgain`, `PeerUpdate`, `PeerRefuses`, `Routed` |
| `refuse` | 1246-1258 | `RefuseOne` |
| `stopped` | 820-919 | `AnswerStopped`, `NoneStopped` |
| `updated` | 921-1024 | `TakeEnded`, `NoneUpdated` |
| `pick`, `next`, `notify` | 461-490, 1007-1017, `ActionManifest::next` | `PickIndex`, `NextIsNone`, `NextRecurses`, `NextFound`, `NotifyNext` |
| `yield`, `leave` | the yields of `notify` (`thread-controls.cpp:480`) and of `reschedule_actions` (477) | `Notified`, `Rescheduled` |
| `out_of_bounds` | 1016 with an index past the end | none: undefined behaviour |

`PeerUpdate` and `PeerRefuses` are what a context sees of its peers: the result
of one action, in a PUT or in the answer to one, and a 404 from the primary.
Executors run through `forked`, `launch`, `ready` (in `wait`), `checked` (between
the predicate and the sleep), `asleep`, `woken`, `run`, `result`, `published`,
`posting`, `ended`.  `notify` sets the flag before its yield and wakes the executor
after it.  An initializer that yields is at `yield` until `InitializerYielded`.
A manifest is a constant: `Deps[a]` are the dependencies of
`a`, all at later positions, because the constructor sorts by depth (Manifest).

Left out here: when a yield returns (module ThreadSched; here it may at any time, or
never), the contents of values, requests before `/init`, and lines 1382-1425, which
release builds leave out.

### Mailbox

The IO thread, the main loop up to and including the dispatch of a message, the
executors' end signals and the thread of `main()` that stops everything.  There
is one condition variable for two kinds of waiters (`Blocked`): the IO thread
waiting for room and the main loop waiting for work; `notify_one` picks either.
`io_mtx` is not a variable: `MutexFree` says at which places of the main loop it
is held, and the IO thread's critical section is one step.  `FallAsleep` is
apart from `Look`, so that what is pushed in between wakes nobody.

| state | code |
|---|---|
| `main`, `local`, `msg` | place in `Controller::start`, `thread_local_signal`, `server_session` |
| `signal`, `mq`, `woken` | `sched_signal`, `mq_`, who was notified |
| `io`, `ioMsg` | place in the read callback of `IO::start`, its session |
| `arrived`, `stream`, `got` | parts received, lying in the stream, read |
| `http`, `ctxs`, `exe` | `hs_` with how far each response is, `ctx_ptrs`, executors |
| `proc`, `destruct`, `stopped` | place in the two `stop`s, their flags |

`http[s]` is `none`, `reading` (no response yet), `streaming` (201, chunks to
come), `answered` (a response with a Content-Length), `finished` (the stream's
last chunk is in the response) or `closed` (erased from `hs_`); lines 798-801 see
the difference between these.  A request arrives in `Parts[s]` parts; a part is
what one read of the socket delivers.  Left out: client sessions (`hcs_`), the
contents of parts, what `route_request` makes of the later chunks of a put.

### SctpServer

The SCTP servers of several controllers, their sessions and the network between
them.  The server has one one-to-many socket: all sessions with a peer share one
association and differ by stream.  A connect is named by its call (`Connects`)
and so is the session it makes; `Earlier` is the order in which a main thread
makes its calls.

| action | code (`sctp-server.cpp` unless said otherwise) |
|---|---|
| `Lookup` | `getsockopt` before the lock, 119-127; `seen` is what it found |
| `Reserve`, `Reuse`, `NoStream` | `async_connect` after it, 129-215 and 219-259 |
| `Connect`, `IsConnected`, `ConnectFails`, `Erase` | the handler that calls `connect()`, 162-214, 264-275 |
| `CommUp`, `CantStart`, `CommLost`, `Message` | `read`, 277-565 |
| `Send`, `SendFails` | `async_write` and `write_` in `sctp-session.cpp` |
| `Close`, `CloseAccepted` | destructors of HTTP sessions (`http-session.hpp` 26-30, 45-49) |
| `Accept`, `Confirm`, `GiveUp`, `Break` | the network: external |

The vector of sessions is kept as the number of entries of each client session
(`listed`: the code may push one twice) and a set of accepted sessions;
`writing` counts writes that wait for the socket; `rq` is what waits in a socket
to be received, in order.  The callback given to `async_connect` is the one at
`controller-app.cpp:1473`: it writes a request.  A handler of the IO thread is one
step, except that `IsConnected` and `ConnectFails` call back before `Erase` takes
the lock again.  A write on an association that is being set up waits again,
which changes nothing: it is `Send` and `SendFails` both being disabled.

`issued`, `answered` and `heard` are history: connects for which `connect()` is to
be called, whose callback was called, and what requests were taken for.  The
properties speak of *issued* connects because the code issues a connect only if
the search for a stream did not move (161), and the vector of used streams starts
with zeros (129): the first connect of a server is never issued.

Left out: a response as a message of its own, more than one message per request,
an association that ends between `connect()` and `getsockopt()` in one handler
(the code throws), SCTP_RESTART as an event of the network (its handler is the
same as that of COMM_LOST), errors with which the handlers are called, and `stop`.

### HttpBigNum, HttpParser, HttpStream and ChunkChannel

One HTTP message on its way from a session of one controller to another's.
`HttpBigNum` holds the sizes of chunks, `HttpParser` the parsers and the writer
of `http-requests.cpp` as operators on readers and messages, `HttpStream` the
state machine around them, `ChunkChannel` what it is for: a sequence of results
that is taken in order.

Text is a sequence of symbols.  The delimiters, digits and first letters the
parsers look at are symbols of their own; words that are only compared (a header's
name, a route) are one symbol.  A parser reads one byte per step of `Advance`,
as the code does, and knows where the available bytes end, because a body of
announced length is complete when they end with it (1160-1164).

| state, action | code |
|---|---|
| `out`, `wire` | the message of the writing session; writes the transport has taken |
| `stream`, `due` | bytes in the stream of the transport session; messages in the mailbox |
| `reader`, `pos` | the request or response of the reading session |
| `Open` | the callback of `async_connect` (1473-1494), the answer to a PUT (1688-1733) |
| `Update`, `Finish` | a result for the peer (950-1003), the end of the context (878-914) |
| `Write`, `Written` | `write` of a session: the text, and what it remembers (`http-session.cpp` 30-57, 99-123) |
| `Deliver` | a receive: bytes into the stream, a message into the mailbox |
| `ReadRequest`, `ReadMore`, `ReadNothing` | a new request, more of one, what 801 skips |
| `ReadResponse` | 758-774 and the loop of `route_response` |

What of a message is handled is counted by `pos` as the code does, a request's
position being saved on one way out of `route_request` only; `handled` and `again`
are history.  The refinement maps the results written to `out.chunks`, those taken
to the chunks of `reader` that were handled, and the taker's leaving to `over`.

Left out: the other direction of the same exchange (its own instance covers it,
except that its end, `over`, may come at any time), reading and writing by two
threads at once (the callback of `async_connect` and the main thread are one step
each), the closing of sessions, by a failed write or once the
last one is done.  The first write of a message
is received whole, since the transport's buffer is longer; later ones may be cut
anywhere.

### PeerMesh and SharedResults

The contexts with one UUID on several controllers, the peers they know and the
streams over which they tell each other results.  A stream is a PUT whose request
and response both stay open; here it is two queues of chunks in order (`up`, `down`),
which is what SctpServer and HttpStream are about.  Of a context's threads only the
execution index (`run`), the stopped ones (`stopped`) and the results (`known`) are
kept; ActionScheduler has the rest.  Lines are of `controller-app.cpp`.

| action | code |
|---|---|
| `StartPrimary`, `StartSecondary` | a post without and with an execution context, 1364-1497; the secondary connects to the primary |
| `Connected`, `ConnectFails` | the callback of `async_connect`, 1473-1494, on the IO thread: the context may be over |
| `Finish`, `Fail` | the end of an executor, with a result or without one (`thread-controls.cpp` 322-336) |
| `Update`, `End` | SCHED_END for a context that goes on (921-1024; peers are told of a result if there is one) and for one that is stopped (820-919) |
| `PutFound`, `PutMissing` | the first chunk of a PUT: merge the peers and answer 201 with the results, or 404, 1627-1742 |
| `RequestResult`, `RequestLast`, `RequestDropped` | its further chunks, 1303-1325 and 1743-1806; what 791-811 drops |
| `ResponseFirst` | the first chunk of a 201, 1101-1175: merge the peers, connect to the new ones, take the results |
| `ResponseResult`, `ResponseLast`, `ResponseDropped` | further ones, 1176-1216 and 1056-1074; those of a session no context lists, 1075-1100 |
| `RefusedAlone`, `RefusedInCompany` | a 404 with fewer than three peers known and with more, 1239-1264 |
| `Lose` | the association goes with what was on its way: external |

`client[c][s]` and `server[c][s]` are the two sessions of the stream `c` made to `s`:
`open` while in the list of a context, `ended` and `finished` once their context has
been answered, `erased` and `closed` once the other side's last chunk was read.
`told` and `failed` are history: the peers a context heard of in a third one's PUT, and
the actions whose executor has ended here without a result.  A failed action is
stopped and not known, so its context may be stopped with results missing; it then
sends an end without them to peers that go on.  Only contexts in `Workers` ever get a
result of their own, and only those in `Failing` ever fail; others hang.

`SharedResults` is what a context promises its peers: results come from an executor
of one's own or from a context that has them, and a context is over with all results
but those its own executors have ended without, unless the primary was over before it.

Left out: a second post for a UUID after its context has ended; lists walked by one
thread while the IO thread changes them (a data race in the code); lines 1382-1429,
which the release build's `-DNDEBUG` removes although the comment there says the
opposite; the update of a stream whose context is gone (1750-1761), which no state of
the model reaches.  What FairSpec does not give, and the code does not either: a
session that was erased at its request's end is never answered, whatever 1303-1306
say of it (`ErasedIsFinished` is violated; the session waits for `End`, which only
walks the list it has left).

### Executor

The subprocess of an action and the threads at work for it, for the actions of all
contexts, because pipes are inherited across them.  `thread_continue` does one step
per call; its counter `state_` is `state`, and `at` is where the initializer or the
executor is between the calls.  A pipe end is a triple (action, pipe, end);
`ends` are those the controller holds, `kept[a]` those subprocess `a` holds.

| action | code (`thread-controls.cpp` unless said otherwise) |
|---|---|
| `Begin`, `Fork`, `CloseTheirs` | step 0, `fork_exec` 88-180: pipes, fork, the wait for the child's group |
| `StartExecutor`, `Return` | `initialize_executor`, `controller-app.cpp` 360-443 |
| `HearLauncher`, `LauncherIsGone` | step 1, `wait_for_launcher` 182-204 |
| `Synced`, `Test` | the tests between the steps, `controller-app.cpp` 386-413 |
| `WaitChecks`, `FallAsleep`, `Wake` | `wait()`, 468-473: the predicate, the sleep and its end |
| `Pause`, `Continue`, `GroupIsGone` | steps 2 and 3, 206-232 |
| `WriteParams`, `NobodyReads` | step 4, 234-272 |
| `Poll`, `ReadPiece`, `ReadEnd`, `ClosePipe` | steps 5, 6 and 7, 274-336, 385-395, 528-530 |
| `KillSoftly`, `KillHard`, `CloseAfterKill` | `cleanup`, 338-383 and 498-503 |
| `Notify`, `StopThread`, `Reap` | the main loop, 475-496 and `controller-app.cpp:818` |
| `BecomeGroup`, `Exec` | the child, `subprocess` 11-86 |
| `ReportReady`, `ReadParams`, `WriteHalf`, `WriteRest`, `Fail`, `Die` | the launcher, and what may kill it: external |

One initializer works at a time (`MyTurn`): initializers yield between actions and
not within `initialize_executor`, and `OneInitializerWorks` of ThreadSched says
that no two run, which is proved.  A subprocess stands for its process group.  SIGTERM may leave a
subprocess alive: always until its `execve`, since a child has the controller's
handler until then, and afterwards if it ignores the signal.

Left out: the 50 seconds after which `initialize_executor` gives up on a launcher,
with an exception; system calls that fail for want of resources; process numbers
that are used again within the 20 ms before SIGKILL; the `condition_variable` on the
initializer's stack, which the executor may still notify after `initialize_executor`
has returned; `"null"` as a result.  An executor whose thread is stopped between the
predicate of `wait()` and the sleep is at `missed`: it may wake up spuriously, and
nothing else will wake it.

### Manifest

How `ActionManifest::emplace`, the depth of a `Relation` and the sort in the
constructor of `ExecutionContext` make an index of actions from a file, as operators
on a function from keys to their dependencies.  `Emplace` is a recursive function
from a key and an index to an index, `InTurn` its loop; `Filled` takes the keys in the
file's order, `Sorted` is every result `std::sort`, which is not stable, may give.
`MCActionScheduler` takes it as `File` and compares every manifest of four
actions, in every order of its keys, with what `ManifestAssumption` says of `Deps`.
That it holds for any number of actions is proved.  Left out: cycles, on which `emplace` does not end; a directory without a manifest,
whose index is one action; keys that are missing.

### JsonScanner

`find_next_json_object` (13-84) symbol by symbol, and the loop that calls it over a
chunk (1307-1325; the one over a response is alike).  `ObjectsAreFound`, in
`MCHttpStream`, compares what the loop gives with the objects a chunk was made from:
nested to any kind of brackets, one or two of them, at the beginning, in the middle
and at the end of the array.  The scanner does not know strings.  A closing or
opening brace in one counts, and the JSON parser then throws; brackets in a string
are harmless, because inside an object only braces count, and are in the texts.
The symbols have names (`lbrace`, `rbracket`), and the loop is a recursive function
of the position, so that what the run compares on bounded texts is also proved for
objects of any depth and arrays of any length (`EveryObjectIsFound`).

### ApiRequests

The requests by which a primary context has its action run on further containers
(`controller-app.cpp` 205-358), over the multi handle of libcurl that the IO thread
drives.  The mutex of `CurlMultiHandle` makes each of its calls one step; what lies
between two calls is the main thread's alone.

| action | code |
|---|---|
| `Call` | the post of a primary context, 1434-1437 |
| `InfoRead`, `RemoveHandle` | the loop that collects handles of finished transfers, 251-272, over 592-626 |
| `Build` | the indices, and new handles for those that are missing, 290-331 |
| `AddHandle`, `MainPerforms` | the loop over the requests, 332-351, over 524-558 |
| `IoLooks`, `IoPerforms` | the loop of `IO::start`, `controller-io.cpp` 215-222: the number is read without the mutex |
| `Network` | connections and responses: external |

A transfer (`stage`) is `added`, `connecting`, `connected`, `waiting`, `answered`,
then `over` until its message is read and `out` once its handle is taken out.  The
network moves it on only between two of libcurl's own steps, which
`curl_multi_perform` alone takes: if nobody calls it, nothing happens.  `sent` is
history.  `Garbage` is what `indices[1]` is when there is no second further context;
it is overwritten before the request is written out.

Left out: `poll`, which nobody calls, and with it `polling_threads_`; calls of
libcurl that fail, for which the code throws; the credentials in a handle that is
used again; the destructor.  A transfer that fails ends like one that is answered.

## What the runs show

| run | instance | states | shows |
|---|---|---|---|
| `threads` | 3 contexts | 41 thousand | deque against initializers, one initializer at work, no lost notification, the thread handed the processor gets it |
| `actions` | 1 context with peers, 3 actions, failures | 6.0 million | the index is conserved, dependencies first, results are kept |
| `actions_live` | 1 context with peers, 2 actions, 2 indices, 2 sessions | 251 thousand | answers come and are complete, the main loop returns to its mailbox; manifests of 4 actions are ordered |
| `actions_bounds` | 1 context with peers, 2 actions | violation | `thread_controls` indexed past the end |
| `actions_asleep` | 1 context with peers, 1 action | violation | a stopped executor sleeps for ever |
| `mailbox` | 1 post, 1 put in 2 parts, queue of 1 | 392 thousand | data has a message, no end is lost, destruction comes last; data is read, the IO thread goes on |
| `sctp` | 2 controllers, 5 connects, 3 streams, 1 fault | 155 thousand | outcomes of issued connects, dead sessions leave, callbacks; issued connects and writes end |
| `sctp_streams` | 2 controllers, 3 connects | violation | a request is taken for the response of another session |
| `http` | one message of each of 4 kinds, up to 4 chunks, queue of 2 | 24 thousand | a split anywhere makes no difference, everything is understood, every chunk is handled in order, the end is seen; big numbers count, objects in a chunk are found |
| `mesh` | 3 contexts, 2 actions, executors that work or fail on one and hang on two, 1 fault | 36 thousand | refusals are understood, ends leave out only what failed, the gaps of the mesh, `SharedResults` is implemented; a context that is done ends those it has a stream with, or leaves them what it has |
| `executor` | 2 actions, one of which may be killed | 256 thousand | ends of pipes stay apart, nothing is left behind, results are whole, stopping a thread ends neither the controller nor waits for an action, unless `wait()` lost its notification |
| `api` | 2 contexts that ask for 2 more each, 5 actions | 10 thousand | every index is asked for once, every transfer is driven to its end |

Eight more configurations are kept beside the runs.  Three hold.
`MCPeerMeshWide.cfg` has the safety properties of the mesh with executors that work or
fail on the primary as well (1.0 million states).  `MCPeerMeshLive.cfg` has
`EndSpreads` with one action whose executor works or hangs on every controller and may
fail on the primary (32 thousand states).  `MCActionSchedulerTwo.cfg` has `Answered`
for two contexts, one of them with peers, of one action each: whatever the main loop
and the initializer of one do in between, the other is answered (444 thousand states).
Five end in a violation.
`MCThreadSchedStranded.cfg` (2 contexts, `YieldsToSomebody`) shows the window in
`thread_sched_yield`: between its two critical sections the thread it yields to may
have finished, and the yielder waits on a handle nobody flips.  It happens with one
context too.
`MCMailboxSplit.cfg` (a post in 2 parts, `OnlyLateIsDropped`) shows that the
condition at `controller-app.cpp:801` drops more than the comment above it (793-795)
says: also the rest of a request that has not been answered at all.  (It drops less,
too: a chunk after a 404 is read.)
`MCHttpStreamTwice.cfg` (`HandledOnce`) shows that the position in a request is not
saved when its end is read (`controller-app.cpp:1305`): the chunks of a request that
has ended are handled again.
`MCExecutorPaused.cfg` (1 action, `BlockedIsPaused`) shows that the order is not the
one the comment at `controller-app.cpp:395` gives: the executor blocks first, and
SIGSTOP is sent once it is unblocked, at once followed by SIGCONT.
`MCApiRequestsLost.cfg` (3 contexts that ask for one more, `NoHandleIsLost`) shows that
of two handles whose transfers are over only one is used again: the other is in no
list any more and is never freed (`controller-app.cpp:329`).

Bounds.  Three handles are the fewest for which removing the front one, somebody
else's, differs from removing one's own or the other's.  Three actions with two
dependencies are the fewest for which the choice of a dependency, the way around
the manifest and a stale index matter; indices 0 and 1 start the search at
different dependencies and 0 is the primary's, which is never refused.  One
context is enough for what happens within a context; that the scans, which erase
from the list they walk, do not mix contexts up is proved for any number
(`AnswersAreComplete`).  `MaxSessions` bounds the posts per context.
`actions_live` has the peers, so that values become `"null"` by a refusal and results
come from elsewhere, and two actions, so that the search has somewhere to go; the
context that is refused has index 1.  What makes the search end there is that a
refused context has no index left: if `stop_thread` kept it, a late result would make
`next` look for an action among values that are all set and not all complete.
A second context with one action each is what TLC can finish
(`MCActionSchedulerTwo.cfg`): the fewest of which one could miss its end while the
other is scanned, answered or yielded for.
In the mailbox a queue of one is full while the IO thread still has parts to
deliver, which is when the two waiters compete for a notification; the put comes in
two parts so that it is read before it is complete.  The safety invariants of
Mailbox are proved for every instance.
In the SCTP instance each controller has to try an address first, since a first
connect is never issued; then both may set up the association, one of them with
a second connect waiting behind the first.  Three streams, of which 0 is never
used, are few enough to run out.  One fault is enough for what is received late:
the association may be set up again after it.
In the mesh three contexts are the fewest for which peers tell each other of a
third, and three known peers decide how a refusal is understood.  Two actions
give an end more than one result and let one fail while the other succeeds;
contexts whose executors hang need the others'
results.  One fault makes the holes the
properties name.  The safety properties are proved for every instance.
The HTTP instance counts in base 2 with words of 3 digits and announces lengths in
base 3: numbers of one and two words with every carry fit into `NumbersCount`.
Data is a plain byte or bytes that look like the size and the end of a chunk.  Two
results before the last one are the fewest for which a write continues a message
that is neither new nor ended; a queue of two lets a message wait while another is
read; every cut of every write is taken.
Two actions are the fewest of which one can inherit the other's pipes; only one of
them may be killed by something else, so that the properties have to hold for the
other while its neighbour dies.  Their initializations may overlap with everything
but each other.
Two contexts are the fewest of which the second finds transfers of the first at
every stage: running, over, or taken out, of one handle or of two.  Two requests
each make the loop go round, and five actions for three contexts make a partition
that does not come out even.  With a single further context `indices[1]` does not
exist, and with fewer actions than contexts indices coincide modulo the manifest's
size: both are left to the proof, which is for any concurrency and size
(`EachAskedOnce`; the indices it tells apart are those that are sent, before
they are taken modulo the size).
Deadlock is not checked: a system without requests stops, and so does a model in
which undefined behaviour was reached.

Fairness.  Threads of the operating system run when they can: weak fairness for
the main thread, each initializer and each executor.  Requests, results of peers,
failures and spurious wake-ups are not fair.  A waiter in ThreadSched is only
fair once notified.  The main loop's wait times out after ten seconds, so its
turn needs no signal; in Mailbox this is `TimeOut`, and without it `DataIsRead`
fails.  The IO thread waits for `io_mtx`, which the main thread takes and gives
back again and again: strong fairness for its critical section.  From its wait
for room it returns only when notified, since that wait has no timeout.  The
arrival of data, the completion of writes, SIGTERM, and the end of an executor's
action are not fair.  In ActionScheduler a yield is not
fair, neither the main thread's nor an initializer's, and an executor asleep in
`wait()` is woken by a notification or not at all.  What the liveness properties need
of them they say as premises.  `MainResponsive` assumes that yields of the main thread
return.  `Answered` assumes that too, that an initializer with a thread to launch
returns from its yield (`YieldsReturn`), and that no executor that was started sleeps
for ever (`NotificationsArrive`); `MCThreadSchedStranded.cfg` and `actions_asleep` show
that the code gives neither.  Without any one of these premises TLC finds a violation.
In SctpServer a call that has
begun goes on, each IO thread runs while one of its handlers is ready, and the
network decides every handshake; nobody has to connect or to close and nothing
has to break.  One weak fairness for the whole IO thread suffices: every handler
uses something up.  In HttpStream the network delivers what was written and the
main loop reads every message; weak fairness of these two is written out with
their guards instead of ENABLED, which TLC would evaluate by parsing.  In PeerMesh
main loops and IO threads go on and what is sent arrives; no post has to come and
no executor has to get its result, so `EndSpreads` rests on the peers alone.  `Update`
is not fair: an index that comes to a thread that has ended stays there, because
nothing signals SCHED_END again.  So `EndSpreads` promises the end of the peers only of
a context that is over with all results; one that failed leaves them what it has
(`GotRest`), and they may go on.
In Executor the threads go on, and so does a subprocess until it has reported that
it is ready and once it has begun to write its result; an action may take for ever.
A sleeping executor is not fair: it goes on when it is notified while it sleeps, so
`NobodyIsHeldUp` excepts the one that missed it (`missed`).
In ApiRequests main and IO thread go on and the API answers or refuses.

The violations are findings of their own (see `PROJECT.json`): the index of an
empty relation, the lost notification in `wait` and the choice of streams by both ends of an association (which explains
the race the comment at `controller-app.cpp:771` wonders about).

What Mailbox allows and no property speaks of, because the repository does not
say what should happen: the process may never end.  The IO thread ends with the
terminate bit and runs no completion handler afterwards, so a response being
written then is never erased from `hs_` and the main loop never finds it empty;
the flags of the two `stop`s are set without the mutex of their waits; and an IO
thread that waits for room when the main loop has ended waits for ever.

What `NumbersCount` leaves out, because no size the controllers exchange comes
near it: `+=` puts a carry in front of the number even if the number is longer
than what is added, so a Content-Length from 2^64 on may be read wrong, and the
constructor from hexadecimal text throws when the text has exactly 16 digits.  `-=`
takes one too many when a word borrows; `http-requests-tests.cpp:219` expects just
that (`{1,1}` less nine is `{max-8}`), and when the difference is one it searches for
a word that is not zero beyond the end.  Nothing but the tests subtracts.

## What is proved

For any number of contexts, any manifest and any indices; of HTTP messages, for any
data, number of chunks and length of the mailbox.

`ThreadSchedProofs`: `TypeOK`, `HandlesMatchInitializers`,
`TimeSliceNeverThrows`, `OneInitializerWorks` and `FlippedIsNotified`.  A first
invariant, `IInv`, relates the length of the deque to the initializers at work; the
throw is unreachable because the caller is one.  That one works at a time is a
token argument (`OneToken`): of all threads that are at work or were flipped back
(`Counted`), that park on a handle somebody is removing (`Loose`), or that park in
twos on one handle (`Pair`), so that one frees the other, there is one.  The main
thread that has started an initializer is the exception (`Ahead`): until somebody
takes the handle that was pushed in front, nobody will be freed by it.  It needs
that a handle is removed once (`Removed`) and that one on which a thread was freed
has another waiter or is out of use (`Freed`), so that no flip takes a freedom back.

`ActionSchedulerProofs`: `TypeOK`, then `IndexConserved`, `OneAtATime`,
`StartedOnlyWhenReady` and `SearchEnds` from one inductive invariant `IInv`,
`AnsweredComplete` from a second one that rests on it, and `ResultsKept` from the
types.  None of the first four is inductive: that one thread
runs follows from every running thread holding the index (`RunnerHoldsIndex`)
and there being one index (`AtMostOneIndex`); that the index is not lost when
`next` finds nothing needs that all threads with a value were started
(`StartedFirst`), so that none of them can still be running without an index;
that the search ends needs that only refused contexts have a `"null"`
(`NullWhenRefused`) and that these have no index left (`RefusedIdle`).  While `notify` yields, its thread
has the only index and none is in hand (`ChosenIsReady`).  Most
steps of the main loop move nothing and are covered by one lemma (`QuietStep`);
the steps that move an index, stop threads or store a value have a lemma each.
The constants' assumptions are the manifest's order (`ManifestAssumption`),
natural indices and peers among the contexts.  The first of them is proved of
every index the constructor makes (`ManifestsInOrder`), for manifests with any number
of keys: `emplace` and the depth of a relation are well defined when keys can be
numbered so that each needs later ones only (`Numbered`, `EmplaceIs`, `DepthIs`, by
induction from the last key); to emplace a key keeps the index free of duplicates
and closed under dependencies and adds nothing numbered lower than it (`Filed`,
`Grown`, `EveryKeyEnters`); and a key is deeper than what it needs
(`NeededIsLessDeep`).  `ManifestIsOrdered` is its instance for four keys.

`MailboxProofs`: every safety invariant of Mailbox, for any sessions, parts and
queue length.  `QueueBounded` is not inductive: `RoomForOne` adds that there is
room whenever the IO thread is between its test and its push.  `DestroyedLast`
follows from what each flag says about the thread that set it (`FlagsMeanLeft`).
`DataHasMessage` and `EndNotLost` are inductive given the types and that the
post of a living context is unanswered (`ContextIsReading`); for data the steps
divide into those that take no message off its way (`StillOnItsWay`), those that
read the stream (`ReadData`) and `Arrive`.  Assumed of the constants: posts and
puts are distinct, every put is about a post, requests have at least one part
and the queue has room for one message.

`SctpServerProofs`: `TypeOK`, `PendingDistinct`, `IssuedHasOutcome`,
`DeadSessionLeaves` and `OnlyLossIsSilent`, for any controllers, calls, streams
and faults.  The invariant `IInv` adds four things.  `Fresh`: a connect the main
thread is at work on is neither pending nor issued nor in the server, and the one
the handler will erase has been called back.  `ClientsLeave` counts: a session
whose association is not established has at least one waiting write for *each*
of its entries, or its end is in the socket.  `AcceptedLeave` says the same of
accepted sessions, and holds because of `EndComesLast`: behind a message of an
ended association its end waits in the queue.  The steps are divided by what they
do to the queues (`AppendKeeps`, `ReceiveKeeps`, `BreakKeeps`, `QueueStep`) and to
associations (`UpKept`, `BreakEnds`, `LeavingKept`).

`PeerMeshProofs`: `TypeOK`, `RefusalIsUnderstood`, `EndIsComplete`,
`OnlyIntroducedAreApart` and `IsShared`, the refinement of `SharedResults`, for any
controllers, actions, working, failing and hanging executors and faults.  The invariant `MeshInv` has
layers, each of which needs those below it: who has a stream with whom (`Graph`),
the order of chunks on a stream (`Order`: one PUT, one answer, results, one end),
who may be unknown to whom (`Strangers`), that every result on its way is known to
its sender and that the stopped threads are those whose result is known or whose
executor failed, or all after a refusal (`Truth`), what an end says about the context
that sent it (`Ending`), and whom the primary tells of whom (`Told`, `Introduced`).  What a step does to one
queue, one session or one context is stated once for all actions (`UpStep`,
`DownStep`, `ClientStep`, `ServerStep`, `CtxStep`, `PeersStep`, `KnowledgeStep`,
`HistoryStep`) and each layer is proved from these.  Assumed: the primary is one of
finitely many controllers and there is an action.

`ExecutorProofs`: every safety invariant of Executor, for any actions and any of
them that something else may kill.  `IInv` says of each action (`Sound`) how far its
subprocess can be given the step of its thread (`Progress`), which ends of its pipes
are open on either side (`Pipes`), which bytes can be in them (`Talk`) and that what
was read is a prefix of one result (`Whole`); and of all together that one is being
forked or worked on (`OneFrame`) and that none holds an end of another's
(`HoldsNoOthersEnd`).  A step concerns one action: `Untouched` and `OthersUntouched`
carry the rest over.

`ApiRequestsProofs`: `TypeOK`, `CounterIsRight`, `CarriesOne` and `EachIndexOnce`, for
any number of contexts, concurrency and length of the manifest.  That the number the
IO thread reads is right whenever a transfer may be waiting for it is inductive with
the types.  The other two need to know where handles are: those in the main thread's
hand are distinct and out of the multi handle (`InHand`), those not made yet are out
(`Made`), and each context has, besides its running and sent requests, exactly those
that are still to be added (`Requested`).  That indices differ is arithmetic
(`IndicesApart`): the quotient by which they are multiplied is not zero.

`HttpStreamProofs`: `TypeOK`, `SplitAnywhere`, `AlwaysUnderstood` and the safety of
`IsChannel`, the refinement of `ChunkChannel` (`ChannelIsKept`: its initial states and
its steps), for any data, number of chunks, queue and bases of the numbers.  None of
them can be had from the state alone, because the parser's state means something
only with the text before it.  The invariant `StreamInv` therefore says that there is
a text `T`, all that was written of the message so far, and the way `R` of a reader along
it, `R[i]` being the reader after `i` bytes (`Path`, `Tape`).  `Under` says that after `n`
bytes the session's reader is `R[n]`, that its stream holds the bytes up to `m`, and
that the writes on their way are the rest, cut anywhere (`Laid`); `Sender` and
`Receiver` say what each side's variables have to do with `T` and with `R[n]`.  From
it, reading what lies in the stream takes the reader from `R[n]` to `R[m]`
(`ParseAlong`), wherever `n` and `m` are.  That a message has such a way is proved from
its parts: first line and headers (`HeadReads`), a chunk (`ChunkReads`), a body of
announced length (`BodyReads`), which `PathsJoin` puts together; a further write makes
`T` longer and leaves the way as it was (`WhereGrows`, `OneMoreReads`).  The size
of a chunk is read back as it was written (`HexReadsText`, for any base and any
size below the last digit's weight), and so is a Content-Length of one digit
(`DecReadsDigit`).  Recursive functions over the positions of a text are reasoned about
by induction over sets of numbers (`Induction`, from the well-foundedness of `<`), which
needs no operator as a parameter.  Assumed (`StreamAssumption` and the assumption
of HttpBigNum on the bases): data is not empty, its length fits into one word with a
digit to spare (so that the constructor that throws at 16 digits does not) and is
one decimal digit where a post announces it; there is room for one chunk and for
one message.  The first write of a message is delivered whole, as in the runs.

The same module proves the two properties of `HttpStream`'s instance that are about
pure code.  `ObjectsFound` (`ObjectsAreFound`) is an instance of `EveryObjectIsFound`.
A text is `Balanced` if it has a depth in braces that begins and ends at 0, and every
value is, however deep (`ValuesBalanced`); what is read between the braces of an
object leaves the scanner with a brace open, so that it stops at the one that closes
the object and nowhere before it (`ObjectScanned`).  The loop then takes one object
a turn from what is left of the array (`ItemsAre`).  `NumbersCounted` (`NumbersCount`) is an
instance of `NumbersAreRight`, for every length, base and width.  `Partial(num)[i]`
is what the first `i` words of a number are worth, and a number is worth what *any*
function that counts its words in this way comes to (`ValueBy`).  So for each
operator such a function is given from those of its operands: with one more where
the carry of `++` passes, with the sum and the carry for `+=`, with the difference
and the borrow for `-=`.  A word of 1 in front, or zeros taken off the front, change
the length and not the value.  `<` compares lengths first, which is right because the
first word is not zero.  A text is the digits of the words one after the other
(`FlattenIs`), and the constructor reads it from the end, a word at a time.  Only
`RadixAssumption` is assumed.

Some of these are proved and not run as well: the types of all modules but
HttpStream (whose types are run too), `OneAtATime`, `SearchEnds`, `PendingDistinct`, `TimeSliceNeverThrows`,
`QueueBounded`, `CounterIsRight` and `CarriesOne`.

So every invariant and action property of a passing run is stated by a theorem.  Only
model-checked, because it is beyond the prover, is liveness: `HandedOverRuns`,
`MainResponsive`, `Answered`, `DataIsRead`, `IoGoesOn`, `IssuedIsAnswered`, `WriteEnds`, `EndSpreads`, `NobodyIsHeldUp`, `DrivenToEnd`, `EndIsSeen` and the
liveness of `IsChannel`.

## What is not modelled, and the plan

Still to be modelled: the life of a Unix session (what holds it, a client that leaves
before its answer, an accept that fails).

Not planned: UUIDs (no state of interest), the Lua
binding, the launchers, the proxy and the image (not part of the controller),
libcurl and boost (external).

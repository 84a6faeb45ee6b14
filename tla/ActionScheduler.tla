-------------------------- MODULE ActionScheduler --------------------------
(***************************************************************************)
(* How one controller runs the actions of its execution contexts           *)
(* (controller-app.cpp, action-manifest.cpp, run.cpp, and ThreadControls    *)
(* of thread-controls.cpp seen from outside).                              *)
(*                                                                         *)
(* A context is one invocation of a manifest of actions that depend on     *)
(* each other.  Each action has a thread (ThreadControls + an executor     *)
(* thread).  The context's execution index is a token: it is pending on    *)
(* one thread, the main loop takes it from a thread that has ended and     *)
(* gives it to the thread of the next action to compute.  Peers of the     *)
(* context run the same manifest from another index and send the values    *)
(* they have computed.                                                     *)
(*                                                                         *)
(* Processes: the main thread, one initializer per context, one executor   *)
(* per action.  Whoever calls thread_sched_yield(false) waits there until   *)
(* it returns, which it need not: when it does is the subject of module     *)
(* ThreadSched.  A message from a peer carries the result of one action.   *)
(* The controller is initialized (/init) and built for release, which      *)
(* leaves out lines 1382-1425 of controller-app.cpp (-D NDEBUG).           *)
(***************************************************************************)
EXTENDS Naturals, Sequences, FiniteSets

CONSTANTS
  Contexts,     \* execution contexts, told apart by their UUIDs
  N,            \* number of actions in the manifest
  Deps,         \* Deps[a]: the dependencies of action a, in manifest order
  Indices,      \* the execution indices a context may be posted with
  Peered,       \* the contexts that have peers in other containers
  MaxSessions,  \* bound on the requests posted for one context
  CanFail       \* TRUE: a subprocess may end without a result

Actions == 0 .. N - 1

\* Action a's position in the manifest is a: the constructor sorts by depth,
\* deepest first, so every dependency comes after the actions it is for.
ASSUME ManifestAssumption ==
  /\ N \in Nat \ {0}
  /\ Deps \in [Actions -> Seq(Actions)]
  /\ \A a \in Actions : \A i \in DOMAIN Deps[a] : Deps[a][i] > a
ASSUME IndexAssumption == Indices \subseteq Nat /\ MaxSessions \in Nat
ASSUME PeerAssumption == Peered \subseteq Contexts /\ CanFail \in BOOLEAN

VARIABLES
  \* Main thread.
  main,      \* where the main loop is
  signal,    \* CTL_IO_SCHED_END_EVENT in the mailbox signal
  local,     \* the same bit in thread_local_signal
  ctxs,      \* ctx_ptrs
  cur,       \* the context the handler works on
  todo,      \* execution indices the handler has taken and not given on
  key,       \* the action ActionManifest::next looks at
  from,      \* the action the search for the next one starts from
  site,      \* the caller of next: "post", "update" or "advance"
  scan,      \* position of the iterator `updated' in ctx_ptrs
  \* Contexts.
  posted,    \* requests received for the context
  index,     \* its first execution index, 0 in the primary context
  answer,    \* what its sessions were answered
  joined,    \* a peer has a session with the context
  refused,   \* the only peer answered 404
  \* Threads, by context and action.
  value,     \* Relation::value: "" (empty), "null", "own" or "peer"
  pending,   \* execution_context_idxs_
  started,   \* CTL_IO_SCHED_START_EVENT in the thread's signal
  stopped,   \* CTL_IO_SCHED_END_EVENT in the thread's signal
  exe,       \* where the executor is
  \* Initializers.
  init       \* the initializer of each context

mainVars == <<main, signal, local, ctxs, cur, todo, key, from, site, scan>>
ctxVars == <<posted, index, answer, joined, refused>>
threadVars == <<value, pending, started, stopped, exe>>
vars == <<mainVars, ctxVars, threadVars, init>>

All(x) == [c \in Contexts |-> [a \in Actions |-> x]]

Init ==
  /\ main = "loop" /\ signal = FALSE /\ local = FALSE
  /\ ctxs = <<>>
  /\ cur \in Contexts
  /\ todo = <<>> /\ key = 0 /\ from = 0 /\ site = "post" /\ scan = 1
  /\ posted = [c \in Contexts |-> 0]
  /\ index = [c \in Contexts |-> 0]
  /\ answer = [c \in Contexts |-> "none"]
  /\ joined = [c \in Contexts |-> FALSE]
  /\ refused = [c \in Contexts |-> FALSE]
  /\ value = All("") /\ pending = All(<<>>)
  /\ started = All(FALSE) /\ stopped = All(FALSE) /\ exe = All("none")
  /\ init = [c \in Contexts |-> [at |-> "none", i |-> 0, start |-> 0,
                              target |-> 0]]

Live == {ctxs[i] : i \in DOMAIN ctxs}

\* std::find_if: the first position with a property.
First(S) == CHOOSE i \in S : \A j \in S : i <= j

-----------------------------------------------------------------------------
(* ThreadControls, as the main thread uses it.                             *)

\* cv_->notify_one(): an executor asleep in wait() is woken.
Woken(e) == IF e = "asleep" THEN "woken" ELSE e

\* ThreadControls::notify(i) on thread a of context c, up to its yield; the
\* rest of it is Notified.
Notify(c, a, i) ==
  /\ pending' = [pending EXCEPT ![c][a] = Append(@, i)]
  /\ started' = [started EXCEPT ![c][a] = TRUE]
  /\ UNCHANGED <<stopped, exe>>

\* A stopped thread keeps its execution indices (a mutation of Cleared).
Retained(p, S) == p

\* stop_thread() takes the execution indices of the threads S.
Cleared(p, S) == [a \in Actions |-> IF a \in S THEN <<>> ELSE p[a]]

\* ThreadControls::stop_thread() on the threads S of context c.
StopThreads(c, S) ==
  LET hit == {a \in S : ~ stopped[c][a]}
  IN  /\ pending' = [pending EXCEPT ![c] = Cleared(pending[c], S)]
      /\ started' = [started EXCEPT ![c] =
                       [a \in Actions |-> a \in hit \/ started[c][a]]]
      /\ stopped' = [stopped EXCEPT ![c] =
                       [a \in Actions |-> a \in hit \/ stopped[c][a]]]
      /\ exe' = [exe EXCEPT ![c] =
                   [a \in Actions |-> IF a \in hit THEN Woken(exe[c][a])
                                                   ELSE exe[c][a]]]

\* A stopped context is one with a stopped thread (a mutation of IsStopped).
SomeStopped(c) == \E a \in Actions : stopped[c][a]

\* ExecutionContext::is_stopped()
IsStopped(c) == \A a \in Actions : stopped[c][a]

\* A thread that has ended with an index still to be given on.
HasEnded(c, a) == stopped[c][a] /\ pending[c][a] # <<>>

-----------------------------------------------------------------------------
(* The main loop, Controller::start.                                       *)

\* The top of the loop: read and clear the signal word.  The wait times out
\* after ten seconds, so the loop turns with or without a signal.
ReadSignal ==
  /\ main = "loop"
  /\ local' = signal
  /\ signal' = FALSE
  /\ main' = "route"
  /\ UNCHANGED <<ctxs, cur, todo, key, from, site, scan, ctxVars, threadVars,
                 init>>

\* POST /run for a new context: search for the action to start with.
PostRun(c, i) ==
  /\ main = "route"
  /\ posted[c] = 0
  /\ posted' = [posted EXCEPT ![c] = 1]
  /\ index' = [index EXCEPT ![c] = i]
  /\ ctxs' = Append(ctxs, c)
  /\ cur' = c
  /\ todo' = <<i>>
  /\ key' = i % N
  /\ site' = "post"
  /\ main' = "next"
  /\ UNCHANGED <<signal, local, from, scan, answer, joined, refused,
                 threadVars, init>>

\* POST /run for a context that exists only adds a session to it.
PostAgain(c) ==
  /\ main = "route"
  /\ c \in Live
  /\ posted[c] < MaxSessions
  /\ posted' = [posted EXCEPT ![c] = @ + 1]
  /\ main' = "routed"
  /\ UNCHANGED <<signal, local, ctxs, cur, todo, key, from, site, scan, index,
                 answer, joined, refused, threadVars, init>>

\* A value that a peer's result replaces: only PUT /run replaces "null".
Replaced(v, viaPut) == v = "" \/ (viaPut /\ v = "null")

\* A peer's result for action a (PUT /run, or the answer to one of ours): the
\* value is kept if there was none, thread a is stopped and its execution
\* indices are given on (reschedule_actions).
PeerUpdate(c, a) ==
  /\ main = "route"
  /\ c \in Peered /\ c \in Live
  /\ \E viaPut \in BOOLEAN :
       value' = [value EXCEPT ![c][a] =
                   IF Replaced(@, viaPut) THEN "peer" ELSE @]
  /\ StopThreads(c, {a})
  /\ joined' = [joined EXCEPT ![c] = TRUE]
  /\ signal' = TRUE
  /\ cur' = c
  /\ todo' = pending[c][a]
  /\ site' = "update"
  /\ main' = "pick"
  /\ UNCHANGED <<local, ctxs, key, from, scan, posted, index, answer, refused,
                 init>>

\* 404 from the primary context, the only peer this secondary context knows:
\* every action without a value gets "null" and every thread is stopped, one
\* after the other.
PeerRefuses(c) ==
  /\ main = "route"
  /\ c \in Peered /\ c \in Live
  /\ index[c] # 0 /\ ~ joined[c] /\ ~ refused[c]
  /\ refused' = [refused EXCEPT ![c] = TRUE]
  /\ cur' = c
  /\ key' = 0
  /\ main' = "refuse"
  /\ UNCHANGED <<signal, local, ctxs, todo, from, site, scan, posted, index,
                 answer, joined, threadVars, init>>

\* Every value becomes "null" (a mutation of Nulled).
Erased(v) == "null"

Nulled(v) == IF v = "" THEN "null" ELSE v

RefuseOne ==
  /\ main = "refuse"
  /\ IF key < N
       THEN /\ value' = [value EXCEPT ![cur][key] = Nulled(@)]
            /\ StopThreads(cur, {key})
            /\ key' = key + 1
            /\ UNCHANGED <<main, signal>>
       ELSE /\ signal' = TRUE
            /\ key' = 0
            /\ main' = "routed"
            /\ UNCHANGED threadVars
  /\ UNCHANGED <<local, ctxs, cur, todo, from, site, scan, ctxVars, init>>

\* The message is dealt with, or there was none: a SCHED_END that was read at
\* the top of the loop is handled next.
Routed ==
  /\ main \in {"route", "routed"}
  /\ main' = IF local THEN "stopped" ELSE "loop"
  /\ UNCHANGED <<signal, local, ctxs, cur, todo, key, from, site, scan,
                 ctxVars, threadVars, init>>

-----------------------------------------------------------------------------
(* ActionManifest::next, one step per recursive call.                      *)

Complete(v) == v \notin {"", "null"}

After(a) == (a + 1) % N

\* The dependencies of a that have no value yet.
Missing(c, a) == {k \in DOMAIN Deps[a] : value[c][Deps[a][k]] = ""}

\* The first of them from the one on that the execution index i points at,
\* around the end of the dependencies.
FirstMissing(c, a, i) ==
  LET later == {k \in Missing(c, a) : k > i % Len(Deps[a])}
  IN  Deps[a][IF later # {} THEN First(later) ELSE First(Missing(c, a))]

\* Start the next action although it misses a dependency (a mutation of
\* IsReady).
NotComputed(c, a) == value[c][a] = ""

IsReady(c, a) == value[c][a] = "" /\ Missing(c, a) = {}

AllComplete(c) == \A a \in Actions : Complete(value[c][a])

\* The next index in todo; when there is none the caller is done.
PickIndex ==
  /\ main = "pick"
  /\ IF todo = <<>>
       THEN /\ main' = IF site = "update" THEN "routed" ELSE "updated"
            /\ UNCHANGED key
       ELSE /\ main' = "next"
            /\ key' = IF site = "update" THEN Head(todo) % N ELSE from
  /\ UNCHANGED <<signal, local, ctxs, cur, todo, from, site, scan, ctxVars,
                 threadVars, init>>

\* next() returns an empty relation.  reschedule_actions stops the context and
\* yields; the main loop takes thread_controls[N], which does not exist: undefined
\* behaviour, where the model stops.  A context just posted has nothing
\* computed, so for "post" (which would only signal SCHED_END) the relation
\* is never empty.
NextIsNone ==
  /\ main = "next"
  /\ AllComplete(cur)
  /\ \/ /\ site = "update"
        /\ StopThreads(cur, Actions)
        /\ todo' = <<>>
        /\ main' = "leave"
     \/ /\ site = "advance"
        /\ main' = "out_of_bounds"
        /\ UNCHANGED <<todo, pending, started, stopped, exe>>
  /\ UNCHANGED <<signal, local, ctxs, cur, key, from, site, scan, ctxVars,
                 value, init>>

\* next() calls itself: for the following action when this one has a value,
\* for a dependency when that has none.
NextRecurses ==
  /\ main = "next"
  /\ ~ AllComplete(cur)
  /\ ~ IsReady(cur, key)
  /\ key' = IF value[cur][key] # "" THEN After(key)
                                    ELSE FirstMissing(cur, key, Head(todo))
  /\ UNCHANGED <<main, signal, local, ctxs, cur, todo, from, site, scan,
                 ctxVars, threadVars, init>>

\* next() returns action key; a new context starts its initializer there.
NextFound ==
  /\ main = "next"
  /\ ~ AllComplete(cur)
  /\ IsReady(cur, key)
  /\ init' = IF site = "post"
               THEN [init EXCEPT ![cur] = [at |-> "loop", i |-> 0, start |-> key,
                                     target |-> key]]
               ELSE init
  /\ main' = "notify"
  /\ UNCHANGED <<signal, local, ctxs, cur, todo, key, from, site, scan, ctxVars,
                 threadVars>>

NotifyNext ==
  /\ main = "notify"
  /\ Notify(cur, key, Head(todo))
  /\ todo' = Tail(todo)
  /\ main' = "yield"
  /\ UNCHANGED <<signal, local, ctxs, cur, key, from, site, scan, ctxVars,
                 value, init>>

\* The yield of notify() returns: the executor is woken if it is asleep by now,
\* and the caller goes on.
Notified ==
  /\ main = "yield"
  /\ exe' = [exe EXCEPT ![cur][key] = Woken(@)]
  /\ main' = IF site = "post" THEN "routed" ELSE "pick"
  /\ UNCHANGED <<signal, local, ctxs, cur, todo, key, from, site, scan, ctxVars,
                 value, pending, started, stopped, init>>

\* The yield of reschedule_actions returns.
Rescheduled ==
  /\ main = "leave"
  /\ main' = "routed"
  /\ UNCHANGED <<signal, local, ctxs, cur, todo, key, from, site, scan,
                 ctxVars, threadVars, init>>

-----------------------------------------------------------------------------
(* SCHED_END: answer the contexts that have stopped, then give the indices *)
(* of ended threads on.                                                    *)

\* The actions of the greatest depth, whose values are the result.
Depth[a \in Actions] ==
  LET below == {Depth[Deps[a][i]] : i \in DOMAIN Deps[a]}
  IN  IF below = {} THEN 1 ELSE 1 + CHOOSE d \in below : \A e \in below : e <= d
Results == {a \in Actions : Depth[a] = Depth[0]}

\* Controller::create_response
Response(c) ==
  LET good == {a \in Results : Complete(value[c][a])}
  IN  IF good = Results THEN "complete"
      ELSE IF good = {} THEN "preempted" ELSE "partial"

StoppedContexts == {i \in DOMAIN ctxs : IsStopped(ctxs[i])}

AnswerStopped ==
  /\ main = "stopped"
  /\ StoppedContexts # {}
  /\ LET i == First(StoppedContexts)
         c == ctxs[i]
     IN  /\ pending' = [pending EXCEPT ![c] = [a \in Actions |-> <<>>]]
         /\ answer' = [answer EXCEPT ![c] = Response(c)]
         /\ ctxs' = SubSeq(ctxs, 1, i - 1) \o SubSeq(ctxs, i + 1, Len(ctxs))
  /\ UNCHANGED <<main, signal, local, cur, todo, key, from, site, scan, posted,
                 index, joined, refused, value, started, stopped, exe, init>>

NoneStopped ==
  /\ main = "stopped"
  /\ StoppedContexts = {}
  /\ main' = "updated"
  /\ scan' = 1
  /\ UNCHANGED <<signal, local, ctxs, cur, todo, key, from, site, ctxVars,
                 threadVars, init>>

UpdatedContexts ==
  {i \in scan .. Len(ctxs) : \E a \in Actions : HasEnded(ctxs[i], a)}

\* Copying the indices instead of taking them (a mutation of Taken).
Copied(p, a) == p

\* pop_idxs() of thread a.
Taken(p, a) == [p EXCEPT ![a] = <<>>]

TakeEnded ==
  /\ main = "updated"
  /\ UpdatedContexts # {}
  /\ LET i == First(UpdatedContexts)
         c == ctxs[i]
         a == First({b \in Actions : HasEnded(c, b)})
     IN  /\ todo' = pending[c][a]
         /\ pending' = [pending EXCEPT ![c] = Taken(@, a)]
         /\ cur' = c
         /\ from' = After(a)
         /\ scan' = i + 1
  /\ site' = "advance"
  /\ main' = "pick"
  /\ UNCHANGED <<signal, local, ctxs, key, ctxVars, value, started, stopped,
                 exe, init>>

NoneUpdated ==
  /\ main = "updated"
  /\ UpdatedContexts = {}
  /\ main' = "loop"
  /\ UNCHANGED <<signal, local, ctxs, cur, todo, key, from, site, scan, ctxVars,
                 threadVars, init>>

-----------------------------------------------------------------------------
(* The initializer thread of a context forks the subprocess of every action *)
(* and starts its executor, beginning with the first action to run.         *)

\* Ending without telling the main loop (a mutation of SignalEnd).
EndSilently == UNCHANGED signal

\* fetch_or(CTL_IO_SCHED_END_EVENT) on the mailbox signal.
SignalEnd == signal' = TRUE

Goto(c, a, place) == exe' = [exe EXCEPT ![c][a] = place]

Mine(c) == (init[c].i + init[c].start) % N

Fork(c, a) ==
  /\ Goto(c, a, "forked")
  /\ init' = [init EXCEPT ![c].at = "fork", ![c].target = a]

\* The top of the initializer's loop over the manifest.
InitializerNext(c) ==
  /\ init[c].at = "loop"
  /\ LET a == Mine(c)
     IN  \/ /\ init[c].i = N \/ IsStopped(c)
            /\ init' = [init EXCEPT ![c].at = "done"]
            /\ UNCHANGED <<signal, exe>>
         \/ /\ init[c].i < N /\ ~ IsStopped(c) /\ stopped[c][a]
            /\ init' = [init EXCEPT ![c].i = @ + 1]
            /\ SignalEnd
            /\ UNCHANGED exe
         \/ /\ init[c].i < N /\ ~ stopped[c][a] /\ exe[c][a] = "none"
            /\ Fork(c, a)
            /\ UNCHANGED signal
         \/ /\ init[c].i < N /\ ~ stopped[c][a] /\ exe[c][a] # "none"
            /\ init' = [init EXCEPT ![c].at = "slice"]
            /\ UNCHANGED <<signal, exe>>

\* initialize_executor after the fork: start the executor, unless the thread
\* has been stopped meanwhile.
InitializerForked(c) ==
  /\ init[c].at = "fork"
  /\ LET a == init[c].target
     IN  IF stopped[c][a]
           THEN /\ Goto(c, a, "ended")
                /\ SignalEnd
                /\ init' = [init EXCEPT ![c].at = "slice"]
           ELSE /\ Goto(c, a, "launch")
                /\ init' = [init EXCEPT ![c].at = "sync"]
                /\ UNCHANGED signal

\* Wait for the executor to have heard from the launcher (sflag).
InitializerSynced(c) ==
  /\ init[c].at = "sync"
  /\ exe[c][init[c].target] # "launch"
  /\ init' = [init EXCEPT ![c].at = "slice"]
  /\ UNCHANGED <<signal, exe>>

\* The time slice is not over: on to the next action.  Else yield.
InitializerSlice(c) ==
  /\ init[c].at = "slice"
  /\ \/ init' = [init EXCEPT ![c].at = "loop", ![c].i = @ + 1]
     \/ init' = [init EXCEPT ![c].at = "yield"]
  /\ UNCHANGED <<signal, exe>>

\* The threads of c that have been notified and have no executor yet.
Waiting(c) ==
  {a \in Actions : started[c][a] /\ ~ stopped[c][a] /\ exe[c][a] = "none"}

\* The yield returns: the first of those is given its executor, and the time is
\* looked at again, unless the context has stopped meanwhile.
InitializerYielded(c) ==
  /\ init[c].at = "yield"
  /\ \/ /\ IsStopped(c)
        /\ init' = [init EXCEPT ![c].at = "loop", ![c].i = @ + 1]
        /\ UNCHANGED exe
     \/ ~ IsStopped(c) /\ Waiting(c) # {} /\ Fork(c, First(Waiting(c)))
     \/ /\ ~ IsStopped(c) /\ Waiting(c) = {}
        /\ init' = [init EXCEPT ![c].at = "slice"]
        /\ UNCHANGED exe
  /\ UNCHANGED signal

initializerFrame ==
  <<main, local, ctxs, cur, todo, key, from, site, scan, ctxVars, value,
    pending, started, stopped>>

InitializerStep(c) ==
  /\ \/ InitializerNext(c) \/ InitializerForked(c)
     \/ InitializerSynced(c) \/ InitializerSlice(c)
  /\ UNCHANGED initializerFrame

InitializerReturns(c) == InitializerYielded(c) /\ UNCHANGED initializerFrame

-----------------------------------------------------------------------------
(* The executor of an action, from the launcher's first byte on.           *)

\* A stopped thread kills its subprocess and ends.
Preempted(c, a) ==
  /\ exe[c][a] \in {"ready", "woken", "run", "result", "published"}
  /\ stopped[c][a]
  /\ Goto(c, a, "ended")
  /\ SignalEnd
  /\ UNCHANGED <<value, stopped>>

Launched(c, a) ==
  /\ exe[c][a] = "launch"
  /\ Goto(c, a, "ready")
  /\ UNCHANGED <<signal, value, stopped>>

\* ThreadControls::wait(): the predicate is evaluated, then the thread sleeps.
\* Nothing orders notify() and stop_thread() with the two.
WaitChecks(c, a) ==
  /\ exe[c][a] = "ready" /\ ~ stopped[c][a]
  /\ Goto(c, a, IF started[c][a] THEN "woken" ELSE "checked")
  /\ UNCHANGED <<signal, value, stopped>>

FallAsleep(c, a) ==
  /\ exe[c][a] = "checked"
  /\ Goto(c, a, "asleep")
  /\ UNCHANGED <<signal, value, stopped>>

SpuriousWake(c, a) ==
  /\ exe[c][a] = "asleep" /\ started[c][a]
  /\ Goto(c, a, "woken")
  /\ UNCHANGED <<signal, value, stopped>>

Unblocked(c, a) ==
  /\ exe[c][a] = "woken" /\ ~ stopped[c][a]
  /\ Goto(c, a, "run")
  /\ UNCHANGED <<signal, value, stopped>>

\* The executor leaves its loop: END in its own signal now, in the mailbox
\* signal with the next step.
Leave(c, a) ==
  /\ stopped' = [stopped EXCEPT ![c][a] = TRUE]
  /\ Goto(c, a, "posting")
  /\ UNCHANGED <<signal, value>>

\* The parameters are the values of the dependencies, when there are any.
HasParams(c, a) ==
  \A i \in DOMAIN Deps[a] : Complete(value[c][Deps[a][i]])

WriteParams(c, a) ==
  /\ exe[c][a] = "run" /\ ~ stopped[c][a]
  /\ IF HasParams(c, a)
       THEN Goto(c, a, "result") /\ UNCHANGED <<signal, value, stopped>>
       ELSE Leave(c, a)

\* The subprocess is gone.
SubprocessGone(c, a) ==
  /\ CanFail
  /\ exe[c][a] = "run" /\ ~ stopped[c][a]
  /\ Leave(c, a)

\* read_result_from_subprocess stores what it read, whether or not the value
\* has come from a peer or the thread was stopped while it read.
ReadResult(c, a) ==
  /\ exe[c][a] = "result"
  /\ \/ value' = [value EXCEPT ![c][a] = "own"]
     \/ CanFail /\ UNCHANGED value
  /\ Goto(c, a, "published")
  /\ UNCHANGED <<signal, stopped>>

Finish(c, a) ==
  /\ exe[c][a] = "published" /\ ~ stopped[c][a]
  /\ Leave(c, a)

PostEnd(c, a) ==
  /\ exe[c][a] = "posting"
  /\ Goto(c, a, "ended")
  /\ SignalEnd
  /\ UNCHANGED <<value, stopped>>

ExecutorRuns(c, a) ==
  \/ Preempted(c, a) \/ Launched(c, a) \/ WaitChecks(c, a) \/ FallAsleep(c, a)
  \/ Unblocked(c, a) \/ WriteParams(c, a) \/ ReadResult(c, a) \/ Finish(c, a)
  \/ PostEnd(c, a)

executorFrame ==
  <<main, local, ctxs, cur, todo, key, from, site, scan, ctxVars, pending,
    started, init>>

ExecutorStep(c, a) == ExecutorRuns(c, a) /\ UNCHANGED executorFrame

ExecutorFault(c, a) ==
  (SpuriousWake(c, a) \/ SubprocessGone(c, a)) /\ UNCHANGED executorFrame

-----------------------------------------------------------------------------
MainStep ==
  \/ ReadSignal \/ Routed \/ RefuseOne
  \/ PickIndex \/ NextIsNone \/ NextRecurses \/ NextFound \/ NotifyNext
  \/ AnswerStopped \/ NoneStopped \/ TakeEnded \/ NoneUpdated

\* A yield of the main thread returns.
MainReturns == Notified \/ Rescheduled

Request ==
  \E c \in Contexts :
    \/ \E i \in Indices : PostRun(c, i)
    \/ PostAgain(c)
    \/ \E a \in Actions : PeerUpdate(c, a)
    \/ PeerRefuses(c)

Next ==
  \/ MainStep \/ MainReturns
  \/ Request
  \/ \E c \in Contexts : InitializerStep(c) \/ InitializerReturns(c)
  \/ \E c \in Contexts, a \in Actions : ExecutorStep(c, a) \/ ExecutorFault(c, a)

Spec == Init /\ [][Next]_vars

\* Every thread runs on until it yields; requests, spurious wake-ups and failures
\* need not come, and a yield need not return.
Fairness ==
  /\ WF_vars(MainStep)
  /\ \A c \in Contexts : WF_vars(InitializerStep(c))
  /\ \A c \in Contexts, a \in Actions : WF_vars(ExecutorStep(c, a))

FairSpec == Spec /\ Fairness

-----------------------------------------------------------------------------
(* Properties.                                                             *)

Values == {"", "null", "own", "peer"}
Executor == {"none", "forked", "launch", "ready", "checked", "asleep", "woken",
             "run", "result", "published", "posting", "ended"}
MainLocations == {"loop", "route", "routed", "refuse", "pick", "next", "notify",
                  "yield", "leave", "stopped", "updated", "out_of_bounds"}
Initializers == [at : {"none", "loop", "fork", "sync", "slice", "yield", "done"},
                 i : 0 .. N, start : Actions, target : Actions]

\* The type of the state: `from' and the initializer's positions stay inside
\* the manifest, and `key' does except at the end of RefuseOne's loop.
TypeOK ==
  /\ main \in MainLocations /\ site \in {"post", "update", "advance"}
  /\ signal \in BOOLEAN /\ local \in BOOLEAN
  /\ ctxs \in Seq(Contexts) /\ cur \in Contexts
  /\ todo \in Seq(Nat) /\ from \in Actions
  /\ key \in 0 .. N
  /\ main \in {"next", "notify"} => key \in Actions /\ todo # <<>>
  /\ main = "yield" => key \in Actions
  /\ scan \in Nat \ {0}
  /\ posted \in [Contexts -> Nat] /\ index \in [Contexts -> Nat]
  /\ answer \in [Contexts -> {"none", "complete", "partial", "preempted"}]
  /\ joined \in [Contexts -> BOOLEAN] /\ refused \in [Contexts -> BOOLEAN]
  /\ value \in [Contexts -> [Actions -> Values]]
  /\ pending \in [Contexts -> [Actions -> Seq(Nat)]]
  /\ started \in [Contexts -> [Actions -> BOOLEAN]]
  /\ stopped \in [Contexts -> [Actions -> BOOLEAN]]
  /\ exe \in [Contexts -> [Actions -> Executor]]
  /\ init \in [Contexts -> Initializers]
  /\ \A c \in Contexts :
       init[c].at \in {"fork", "sync", "slice", "yield"} => init[c].i # N

\* The execution indices of c that the handler holds in a local vector.
InHand(c) ==
  IF cur = c /\ main \in {"pick", "next", "notify", "yield"} THEN todo ELSE <<>>

NoIndex(c) == \A a \in Actions : pending[c][a] = <<>>

\* The execution index of a context is neither lost nor duplicated while the
\* context runs: it is pending on one thread, or the handler holds it.  If it
\* were lost the context would never be answered, if there were two it would
\* compute two actions at a time.
IndexConserved ==
  \A c \in Live :
    \/ refused[c] \/ IsStopped(c)
    \/ NoIndex(c) /\ InHand(c) = <<index[c]>>
    \/ /\ InHand(c) = <<>>
       /\ \E a \in Actions :
            /\ pending[c][a] = <<index[c]>>
            /\ \A b \in Actions \ {a} : pending[c][b] = <<>>

\* A context computes one action at a time: whatever order the results of its
\* peers, the ends of its own executors and the requests come in, at most one
\* of its threads has been started and not stopped.
OneAtATime ==
  \A c \in Contexts, a, b \in Actions :
    (started[c][a] /\ ~ stopped[c][a] /\ started[c][b] /\ ~ stopped[c][b])
      => a = b

\* A thread that is started to run has the results of all its dependencies,
\* so that write_params_to_subprocess finds them.
StartedOnlyWhenReady ==
  \A c \in Contexts, a \in Actions :
    started[c][a] /\ ~ stopped[c][a] => HasParams(c, a)

\* ActionManifest::next finds an action, or finds all of them complete.  Were
\* every value set and some of them "null" it would call itself for ever: a
\* refused context has no execution index left to search for.
SearchEnds ==
  main = "next" =>
    AllComplete(cur) \/ \E a \in Actions : value[cur][a] = ""

\* A result once known is never lost, whoever answers or fails after it.
ResultsKept ==
  [][\A c \in Contexts, a \in Actions :
       Complete(value[c][a]) => Complete(value'[c][a])]_vars

\* When no subprocess fails and the context was not refused, its sessions are
\* answered with the complete result, never with a partial one.
AnsweredComplete ==
  ~ CanFail => \A c \in Contexts :
                 answer[c] # "none" /\ ~ refused[c] => answer[c] = "complete"

\* If no yield keeps the main thread for ever, it comes back to its mailbox or has
\* indexed past the end of the threads (IndexInBounds): the search of next ends,
\* whatever values peers, refusals and executors have set while it went on.
MainResponsive ==
  []<>(main \notin {"yield", "leave"}) => []<>(main \in {"loop", "out_of_bounds"})

\* The yields of the main thread return, and that of an initializer does when it
\* has a thread to launch.  This is assumed: whoever yields may find that the
\* handle it waits on has left the deque (ThreadSched, YieldsToSomebody).
YieldsReturn ==
  /\ []<>(main \notin {"yield", "leave"})
  /\ \A c \in Contexts : []<> ~ (init[c].at = "yield" /\ Waiting(c) # {})

\* No executor that was started stays asleep: wait() has lost no notification,
\* which StoppedIsUnblocked shows that it may.
NotificationsArrive ==
  \A c \in Contexts, a \in Actions : []<> ~ (exe[c][a] = "asleep" /\ started[c][a])

\* When no subprocess fails, the yields return and no notification is lost, every
\* context is answered, whatever the others and its peers do meanwhile, or the
\* main loop has indexed past the end of the threads.
Answered ==
  ~ CanFail /\ YieldsReturn /\ NotificationsArrive
    => \A c \in Contexts :
         c \in Live ~> answer[c] # "none" \/ main = "out_of_bounds"

\* The relation next returns to the main loop is in the manifest, so that its
\* thread exists (controller-app.cpp:1010-1016).
IndexInBounds == main # "out_of_bounds"

\* stop_thread guarantees that the thread is unblocked before it is preempted
\* (the comment at thread-controls.cpp:491).
StoppedIsUnblocked ==
  \A c \in Contexts, a \in Actions :
    (stopped[c][a] /\ exe[c][a] = "asleep") ~> exe[c][a] # "asleep"

=============================================================================

------------------------------- MODULE Mailbox -------------------------------
(***************************************************************************)
(* The mailbox between the IO thread and the main thread, with the intake  *)
(* of requests and the shutdown (controller-io.cpp, controller-io.hpp,     *)
(* Controller::start and stop in controller-app.cpp).                      *)
(*                                                                         *)
(* The IO thread puts the bytes it receives in the stream of a transport   *)
(* session and a message naming the session in a bounded queue.  The main  *)
(* thread takes one message per turn and reads the whole stream, whatever  *)
(* message announced it.  Both threads wait on one condition variable,     *)
(* with io_mtx; pushes, signal bits and notifications happen outside that  *)
(* mutex.  Executors announce the end of a context with a signal bit.      *)
(*                                                                         *)
(* A request arrives in one or more parts.  A post is complete, and starts *)
(* a context, with its last part; a put speaks of the context of a post    *)
(* and each of its parts is a complete chunk.  How contexts run is module  *)
(* ActionScheduler: here one executor per context ends it.  The client     *)
(* sessions of hcs_ are left out.                                          *)
(***************************************************************************)
EXTENDS Naturals, Sequences, FiniteSets

CONSTANTS
  Posts, Puts,  \* transport sessions, by the request they carry
  Of,           \* Of[p]: the post whose context the put p is about
  Parts,        \* Parts[s]: the parts the request of s arrives in
  MaxQueue,     \* MAX_QUEUE_LENGTH
  NoSession

Sessions == Posts \union Puts

ASSUME SessionAssumption ==
  /\ Posts \intersect Puts = {}
  /\ NoSession \notin Sessions
  /\ Of \in [Puts -> Posts]
  /\ Parts \in [Sessions -> Nat \ {0}]
ASSUME QueueAssumption == MaxQueue \in Nat \ {0}

VARIABLES
  \* Main thread.
  main,      \* where the main loop is
  local,     \* thread_local_signal
  msg,       \* server_session
  ctxs,      \* ctx_ptrs: a context is named after its post
  \* Shared.
  signal,    \* the bits set in sched_signal
  mq,        \* mq_: the sessions of the messages queued
  woken,     \* waiters of the condition variable a notify_one has chosen
  \* IO thread.
  io,        \* where the IO thread is
  ioMsg,     \* the session it handles
  \* Sessions.
  arrived,   \* parts received
  stream,    \* parts received and not read
  got,       \* parts read
  http,      \* the HttpSession in hs_
  dropped,   \* sessions a part of which was left unread on purpose
  \* Executors, by context.
  exe,
  \* The thread of main(), which stops and destroys the controller.
  proc,
  destruct,  \* Controller::destruct_
  stopped    \* IO::stopped_

mainVars == <<main, local, msg, ctxs>>
ioVars == <<io, ioMsg>>
sessionVars == <<arrived, stream, got, http, dropped>>
procVars == <<proc, destruct, stopped>>
vars == <<mainVars, signal, mq, woken, ioVars, sessionVars, exe, procVars>>

Init ==
  /\ main = "top" /\ local = {} /\ msg = NoSession /\ ctxs = {}
  /\ signal = {} /\ mq = <<>> /\ woken = {}
  /\ io = "poll" /\ ioMsg = NoSession
  /\ arrived = [s \in Sessions |-> 0]
  /\ stream = [s \in Sessions |-> 0]
  /\ got = [s \in Sessions |-> 0]
  /\ http = [s \in Sessions |-> "none"]
  /\ dropped = {}
  /\ exe = [c \in Posts |-> "none"]
  /\ proc = "serving" /\ destruct = FALSE /\ stopped = FALSE

-----------------------------------------------------------------------------
(* The condition variable both threads wait on, and io_mtx.                *)

Blocked == ({w \in {"main"} : main = "asleep"} \union
            {w \in {"io"} : io = "full"}) \ woken

NotifyOne ==
  IF Blocked = {} THEN woken' = woken
                  ELSE \E w \in Blocked : woken' = woken \union {w}

\* The main thread holds io_mtx from the top of its loop to the pull, but
\* not asleep; the IO thread only while it looks whether the queue is full.
MutexFree == main \notin {"sleepy", "read", "clear", "pull"}

\* IO::mq_is_full()
Full == Len(mq) >= MaxQueue

\* What the main thread waits for: the terminate bit alone does not wake it.
Wanted == mq # <<>> \/ signal \ {"term"} # {}

-----------------------------------------------------------------------------
(* The IO thread, IO::start.                                               *)

\* Handlers run until the thread is told to stop.
Polling == io = "poll" /\ proc \notin {"join", "join_sleepy", "join_asleep"}

\* Bytes for session s: they go to its stream first.
Arrive(s) ==
  /\ Polling
  /\ arrived[s] < Parts[s]
  /\ arrived' = [arrived EXCEPT ![s] = @ + 1]
  /\ stream' = [stream EXCEPT ![s] = @ + 1]
  /\ io' = "arrived" /\ ioMsg' = s
  /\ UNCHANGED <<mainVars, signal, mq, woken, got, http, dropped, exe,
                 procVars>>

\* A full queue that drops messages (a mutation of LookFull).
DropFull ==
  /\ io = "arrived" /\ MutexFree
  /\ io' = IF Full THEN "poll" ELSE "flag"
  /\ UNCHANGED <<mainVars, signal, mq, woken, ioMsg, sessionVars, exe,
                 procVars>>

\* Under io_mtx: wait while the queue is full.
LookFull ==
  /\ io = "arrived" /\ MutexFree
  /\ io' = IF Full THEN "full" ELSE "flag"
  /\ UNCHANGED <<mainVars, signal, mq, woken, ioMsg, sessionVars, exe,
                 procVars>>

\* The wait ends once there is room; a notified waiter without room sleeps
\* again.
LeaveFull ==
  /\ io = "full" /\ MutexFree
  /\ "io" \in woken \/ ~ Full
  /\ woken' = woken \ {"io"}
  /\ io' = IF Full THEN "full" ELSE "flag"
  /\ UNCHANGED <<mainVars, signal, mq, ioMsg, sessionVars, exe, procVars>>

SetReadBit ==
  /\ io = "flag"
  /\ signal' = signal \union {"read"}
  /\ io' = "push"
  /\ UNCHANGED <<mainVars, mq, woken, ioMsg, sessionVars, exe, procVars>>

Push ==
  /\ io = "push"
  /\ mq' = Append(mq, ioMsg)
  /\ io' = "notify"
  /\ UNCHANGED <<mainVars, signal, woken, ioMsg, sessionVars, exe, procVars>>

NotifyMain ==
  /\ io = "notify"
  /\ NotifyOne
  /\ io' = "poll" /\ ioMsg' = NoSession
  /\ UNCHANGED <<mainVars, signal, mq, sessionVars, exe, procVars>>

\* A response is written: its completion handler closes the HTTP session.
Written(s) ==
  /\ Polling
  /\ http[s] \in {"answered", "finished"}
  /\ http' = [http EXCEPT ![s] = "closed"]
  /\ UNCHANGED <<mainVars, signal, mq, woken, ioVars, arrived, stream, got,
                 dropped, exe, procVars>>

\* The loop ends when it finds the terminate bit.
LeaveLoop ==
  /\ io = "poll"
  /\ "term" \in signal
  /\ stopped' = TRUE
  /\ io' = "stopping"
  /\ UNCHANGED <<mainVars, signal, mq, woken, ioMsg, sessionVars, exe, proc,
                 destruct>>

\* stop_cv_.notify_all()
NotifyStopped ==
  /\ io = "stopping"
  /\ io' = "exited"
  /\ proc' = IF proc = "join_asleep" THEN "join" ELSE proc
  /\ UNCHANGED <<mainVars, signal, mq, woken, ioMsg, sessionVars, exe,
                 destruct, stopped>>

-----------------------------------------------------------------------------
(* The main thread, Controller::start.                                     *)

\* The top of the loop: take io_mtx, look whether there is anything to do.
Look ==
  /\ main = "top"
  /\ main' = IF Wanted THEN "read" ELSE "sleepy"
  /\ UNCHANGED <<local, msg, ctxs, signal, mq, woken, ioVars, sessionVars,
                 exe, procVars>>

\* wait_for() releases io_mtx and sleeps.  What is pushed or set between Look
\* and this step wakes nobody.
FallAsleep ==
  /\ main = "sleepy"
  /\ main' = "asleep"
  /\ UNCHANGED <<local, msg, ctxs, signal, mq, woken, ioVars, sessionVars,
                 exe, procVars>>

WakeUp ==
  /\ main = "asleep" /\ "main" \in woken
  /\ woken' = woken \ {"main"}
  /\ main' = IF Wanted THEN "read" ELSE "sleepy"
  /\ UNCHANGED <<local, msg, ctxs, signal, mq, ioVars, sessionVars, exe,
                 procVars>>

\* A wait without a timeout (a mutation of TimeOut).
NeverTimesOut == FALSE /\ UNCHANGED vars

\* Ten seconds have passed.
TimeOut ==
  /\ main = "asleep"
  /\ woken' = woken \ {"main"}
  /\ main' = "read"
  /\ UNCHANGED <<local, msg, ctxs, signal, mq, ioVars, sessionVars, exe,
                 procVars>>

ReadSignal ==
  /\ main = "read"
  /\ local' = signal
  /\ main' = "clear"
  /\ UNCHANGED <<msg, ctxs, signal, mq, woken, ioVars, sessionVars, exe,
                 procVars>>

\* All bits are cleared, also those set since (a mutation of ClearSignal).
ClearAll ==
  /\ main = "clear"
  /\ signal' = signal \intersect {"term"}
  /\ main' = "pull"
  /\ UNCHANGED <<local, msg, ctxs, mq, woken, ioVars, sessionVars, exe,
                 procVars>>

\* fetch_and: clear the bits that were read, except the terminate bit.
ClearSignal ==
  /\ main = "clear"
  /\ signal' = signal \ (local \ {"term"})
  /\ main' = "pull"
  /\ UNCHANGED <<local, msg, ctxs, mq, woken, ioVars, sessionVars, exe,
                 procVars>>

\* A pull that does not tell the IO thread (a mutation of Pull).
PullSilently ==
  /\ main = "pull"
  /\ IF mq = <<>> THEN msg' = NoSession /\ UNCHANGED mq
                  ELSE msg' = Head(mq) /\ mq' = Tail(mq)
  /\ main' = "check"
  /\ UNCHANGED <<local, ctxs, signal, woken, ioVars, sessionVars, exe,
                 procVars>>

\* mq_pull() and notify_one(); then io_mtx is released.
Pull ==
  /\ main = "pull"
  /\ IF mq = <<>> THEN msg' = NoSession /\ UNCHANGED <<mq, woken>>
                  ELSE msg' = Head(mq) /\ mq' = Tail(mq) /\ NotifyOne
  /\ main' = "check"
  /\ UNCHANGED <<local, ctxs, signal, ioVars, sessionVars, exe, procVars>>

\* hs_ and ctx_ptrs are empty.
Idle == ctxs = {} /\ \A s \in Sessions : http[s] \in {"none", "closed"}

\* The loop ends only when there is no work left; what was pulled is lost.
CheckTerminate ==
  /\ main = "check"
  /\ LET leave == "term" \in local /\ Idle
     IN  /\ destruct' = (destruct \/ leave)
         /\ main' = IF leave THEN "leaving" ELSE "route"
  /\ UNCHANGED <<local, msg, ctxs, signal, mq, woken, ioVars, sessionVars,
                 exe, proc, stopped>>

\* controller_signalp->notify_all(), after destruct_ was set without a mutex.
Leave ==
  /\ main = "leaving"
  /\ main' = "exited"
  /\ proc' = IF proc = "asleep" THEN "stop" ELSE proc
  /\ UNCHANGED <<local, msg, ctxs, signal, mq, woken, ioVars, sessionVars,
                 exe, destruct, stopped>>

\* HttpSession::read() empties the stream.
Read(s) ==
  /\ got' = [got EXCEPT ![s] = @ + stream[s]]
  /\ stream' = [stream EXCEPT ![s] = 0]

NothingToRoute ==
  /\ main = "route" /\ msg = NoSession
  /\ main' = "sched"
  /\ UNCHANGED <<local, msg, ctxs, signal, mq, woken, ioVars, sessionVars,
                 exe, procVars>>

\* The first message of a post: a new HttpSession, and a context if the
\* request is complete.
RoutePost ==
  /\ main = "route" /\ msg \in Posts /\ http[msg] = "none"
  /\ Read(msg)
  /\ http' = [http EXCEPT ![msg] = "reading"]
  /\ IF got'[msg] = Parts[msg]
       THEN /\ ctxs' = ctxs \union {msg}
            /\ exe' = [exe EXCEPT ![msg] = "run"]
       ELSE UNCHANGED <<ctxs, exe>>
  /\ main' = "sched"
  /\ UNCHANGED <<local, msg, signal, mq, woken, ioVars, arrived, dropped,
                 procVars>>

\* The first message of a put: 201 opens a stream with the context, 404 has
\* a Content-Length and is complete.
RoutePut ==
  /\ main = "route" /\ msg \in Puts /\ http[msg] = "none"
  /\ Read(msg)
  /\ http' = [http EXCEPT ![msg] =
                IF Of[msg] \in ctxs THEN "streaming" ELSE "answered"]
  /\ main' = "sched"
  /\ UNCHANGED <<local, msg, ctxs, signal, mq, woken, ioVars, arrived, dropped,
                 exe, procVars>>

\* A further message: it is read and routed if the response has a
\* Content-Length or is a stream that is not closed.  What route_request
\* makes of it does not change the state of the session.
RouteMore ==
  /\ main = "route" /\ msg \in Sessions
  /\ http[msg] \in {"streaming", "answered"}
  /\ Read(msg)
  /\ main' = "sched"
  /\ UNCHANGED <<local, msg, ctxs, signal, mq, woken, ioVars, arrived, http,
                 dropped, exe, procVars>>

\* Otherwise it is dropped, and what is in the stream stays there.
DropMore ==
  /\ main = "route" /\ msg \in Sessions
  /\ http[msg] \in {"reading", "finished"}
  /\ dropped' = IF stream[msg] > 0 THEN dropped \union {msg} ELSE dropped
  /\ main' = "sched"
  /\ UNCHANGED <<local, msg, ctxs, signal, mq, woken, ioVars, arrived, stream,
                 got, http, exe, procVars>>

\* A message for a session whose HttpSession is closed: the new HttpSession
\* finds no verb and goes away.
IgnoreMore ==
  /\ main = "route" /\ msg \in Sessions
  /\ http[msg] = "closed"
  /\ main' = "sched"
  /\ UNCHANGED <<local, msg, ctxs, signal, mq, woken, ioVars, sessionVars,
                 exe, procVars>>

\* Contexts whose executor has stopped.
StoppedContexts == {c \in ctxs : exe[c] # "run"}

\* The turn ends with the end signal: stopped contexts are answered, the
\* streams of their peers are closed.
Sched ==
  /\ main = "sched"
  /\ LET over == IF "end" \in local THEN StoppedContexts ELSE {}
     IN  /\ ctxs' = ctxs \ over
         /\ http' = [s \in Sessions |->
              IF s \in over THEN "answered"
              ELSE IF http[s] = "streaming" /\ Of[s] \in over THEN "finished"
              ELSE http[s]]
  /\ main' = "top"
  /\ UNCHANGED <<local, msg, signal, mq, woken, ioVars, arrived, stream, got,
                 dropped, exe, procVars>>

-----------------------------------------------------------------------------
(* Executors: stop, set the bit, notify; no mutex.                         *)

ExecutorEnds(c) ==
  /\ exe[c] = "run"
  /\ exe' = [exe EXCEPT ![c] = "stopped"]
  /\ UNCHANGED <<mainVars, signal, mq, woken, ioVars, sessionVars, procVars>>

ExecutorSignals(c) ==
  /\ exe[c] = "stopped"
  /\ exe' = [exe EXCEPT ![c] = "signalled"]
  /\ signal' = signal \union {"end"}
  /\ UNCHANGED <<mainVars, mq, woken, ioVars, sessionVars, procVars>>

ExecutorNotifies(c) ==
  /\ exe[c] = "signalled"
  /\ exe' = [exe EXCEPT ![c] = "done"]
  /\ NotifyOne
  /\ UNCHANGED <<mainVars, signal, mq, ioVars, sessionVars, procVars>>

-----------------------------------------------------------------------------
(* The thread of main(): SIGTERM, Controller::stop, IO::stop.              *)

Terminate ==
  /\ proc = "serving"
  /\ proc' = "notify"
  /\ signal' = signal \union {"term"}
  /\ UNCHANGED <<mainVars, mq, woken, ioVars, sessionVars, exe, destruct,
                 stopped>>

NotifyTerminate ==
  /\ proc = "notify"
  /\ proc' = "stop"
  /\ NotifyOne
  /\ UNCHANGED <<mainVars, signal, mq, ioVars, sessionVars, exe, destruct,
                 stopped>>

\* Not waiting for the IO thread (a mutation of WaitFor).
WaitForNothing(flag) == TRUE

\* The predicates of the two waits.
WaitFor(flag) == flag

\* Wait for the main loop to end, then for the IO thread.  The flags are set
\* without the mutex of the wait, so they may be set between its predicate
\* and its sleep.
StopStep ==
  \/ /\ proc = "stop"
     /\ proc' = IF WaitFor(destruct) THEN "join" ELSE "sleepy"
  \/ /\ proc = "sleepy"
     /\ proc' = "asleep"
  \/ /\ proc = "join"
     /\ proc' = IF WaitFor(stopped) THEN "destroyed" ELSE "join_sleepy"
  \/ /\ proc = "join_sleepy"
     /\ proc' = "join_asleep"

Stop ==
  /\ StopStep
  /\ UNCHANGED <<mainVars, signal, mq, woken, ioVars, sessionVars, exe,
                 destruct, stopped>>

-----------------------------------------------------------------------------
HandlerStep ==
  \/ SetReadBit \/ Push \/ NotifyMain
  \/ LeaveLoop \/ NotifyStopped

MainLoop ==
  \/ Look \/ FallAsleep \/ WakeUp \/ TimeOut
  \/ ReadSignal \/ ClearSignal \/ Pull \/ CheckTerminate \/ Leave
  \/ NothingToRoute \/ RoutePost \/ RoutePut \/ RouteMore \/ DropMore
  \/ IgnoreMore \/ Sched

Executor(c) == ExecutorEnds(c) \/ ExecutorSignals(c) \/ ExecutorNotifies(c)

Next ==
  \/ LookFull \/ LeaveFull \/ HandlerStep \/ MainLoop
  \/ \E s \in Sessions : Arrive(s) \/ Written(s)
  \/ \E c \in Posts : Executor(c)
  \/ Terminate \/ NotifyTerminate \/ Stop

Spec == Init /\ [][Next]_vars

(***************************************************************************)
(* Threads run when they can.  The main loop's wait times out.  The main   *)
(* thread holds io_mtx for moments only and then sleeps or works without   *)
(* it, so the IO thread gets the mutex in the end: strong fairness.  It    *)
(* leaves its wait only when notified, for a spurious wake-up is not to be *)
(* counted on.  Nothing obliges data to arrive, an executor to stop or the *)
(* process to be terminated.                                               *)
(***************************************************************************)
FairSpec ==
  /\ Spec
  /\ WF_vars(MainLoop)
  /\ WF_vars(HandlerStep)
  /\ SF_vars(LookFull)
  /\ SF_vars("io" \in woken /\ LeaveFull)
  /\ \A c \in Posts : WF_vars(ExecutorSignals(c) \/ ExecutorNotifies(c))

-----------------------------------------------------------------------------
Queued == {mq[i] : i \in DOMAIN mq}

MainTypes ==
  /\ main \in {"top", "sleepy", "asleep", "read", "clear", "pull", "check",
               "route", "sched", "leaving", "exited"}
  /\ local \subseteq {"read", "end", "term"}
  /\ msg \in Sessions \union {NoSession}

SharedTypes ==
  /\ signal \subseteq {"read", "end", "term"}
  /\ mq \in Seq(Sessions)
  /\ woken \subseteq {"main", "io"}

IOTypes ==
  /\ io \in {"poll", "arrived", "full", "flag", "push", "notify", "stopping",
             "exited"}
  /\ ioMsg \in Sessions \union {NoSession}
  /\ io \in {"arrived", "full", "flag", "push"} => ioMsg \in Sessions

ProcTypes ==
  /\ proc \in {"serving", "notify", "stop", "sleepy", "asleep", "join",
               "join_sleepy", "join_asleep", "destroyed"}
  /\ destruct \in BOOLEAN /\ stopped \in BOOLEAN

ThreadTypes == MainTypes /\ SharedTypes /\ IOTypes /\ ProcTypes

PartTypes ==
  /\ arrived \in [Sessions -> Nat]
  /\ stream \in [Sessions -> Nat]
  /\ got \in [Sessions -> Nat]
  /\ \A s \in Sessions :
       got[s] + stream[s] = arrived[s] /\ arrived[s] <= Parts[s]

RequestTypes ==
  /\ http \in [Sessions -> {"none", "reading", "streaming", "answered",
                            "finished", "closed"}]
  /\ \A s \in Sessions : http[s] \in {"streaming", "finished"} => s \in Puts
  /\ dropped \in SUBSET Sessions
  /\ ctxs \in SUBSET Posts
  /\ exe \in [Posts -> {"none", "run", "stopped", "signalled", "done"}]

TypeOK == ThreadTypes /\ PartTypes /\ RequestTypes

\* The queue keeps its bound although the IO thread looks at its length under
\* one mutex and pushes later, under another (controller-io.cpp:169-178).
QueueBounded == Len(mq) <= MaxQueue

\* The message for s is on its way from the IO thread to the main thread.
OnItsWay(s) ==
  \/ ioMsg = s /\ io \in {"arrived", "full", "flag", "push"}
  \/ s \in Queued
  \/ msg = s /\ main \in {"check", "route"}

\* Messages carry no data: bytes in a stream are read only if a message for
\* the session is still to come, unless the main loop has dropped or closed
\* the session or has ended.
DataHasMessage ==
  \A s \in Sessions :
    stream[s] > 0 => \/ OnItsWay(s)
                     \/ s \in dropped \/ http[s] = "closed"
                     \/ main \in {"leaving", "exited"}

\* The end of a context is not lost between the two accesses to the signal
\* word: until the context is answered its bit is set, or is in the copy this
\* turn of the loop still looks at.
EndNotLost ==
  \A c \in ctxs : exe[c] \in {"signalled", "done"} =>
    \/ "end" \in signal
    \/ "end" \in local /\ main \in {"clear", "pull", "check", "route", "sched"}

\* The controller, which the two detached threads use, is destroyed after
\* both have left their loops.
DestroyedLast ==
  proc = "destroyed" =>
    main \in {"leaving", "exited"} /\ io \in {"stopping", "exited"}

\* Data that has arrived is read, unless its session is dropped or closed or
\* the loop ends first: the notification of a message may be lost, the message
\* is not.
DataIsRead ==
  \A s \in Sessions :
    stream[s] > 0 ~> \/ stream[s] = 0
                     \/ s \in dropped \/ http[s] = "closed"
                     \/ main = "exited"

\* The IO thread does not wait for ever on a queue the main thread empties.
IoGoesOn == io = "full" ~> (io # "full" \/ main = "exited")

\* "if a client request http chunk is received AFTER the server response has
\* been completed, but BEFORE the server response has been received by the
\* client, then we simply drop" it (controller-app.cpp:793-795): what is
\* dropped comes after the response.
OnlyLateIsDropped ==
  [][\A s \in Sessions :
       s \in dropped' \ dropped => http[s] \in {"answered", "finished"}]_vars

=============================================================================

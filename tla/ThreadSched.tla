---------------------------- MODULE ThreadSched ----------------------------
(***************************************************************************)
(* The cooperative scheduler of ThreadControls (thread-controls.cpp): one  *)
(* static deque of handles, sched_handles_, through which the controller's *)
(* main thread and the initializer threads (one per execution context)     *)
(* hand the processor to each other.                                       *)
(*                                                                         *)
(* A handle is a flag with a mutex and a condition variable.  A thread     *)
(* that yields rotates the front handle to the back of the deque, flips    *)
(* its flag, wakes one waiter and waits until somebody flips the flag      *)
(* back.  A thread that has finished removes the front handle and flips    *)
(* it.  The deque is protected by sched_mtx_, the flag by the handle's own *)
(* mutex, and neither critical section covers the other: a step below is   *)
(* one critical section.                                                   *)
(***************************************************************************)
EXTENDS Naturals, Sequences, FiniteSets

CONSTANTS Contexts,   \* execution contexts, one initializer thread each
          Main        \* the controller's main thread

ASSUME MainAssumption == Main \notin Contexts

Threads == Contexts \union {Main}
NoHandle == Main      \* any value that is not a handle

VARIABLES
  handles,  \* sched_handles_: the handle pushed for context c is named c
  flag,     \* flag[h]: the flag of handle h
  pc,       \* pc[t]: where thread t is
  held,     \* held[t]: the local variable `handle' of thread_sched_yield
  saved,    \* saved[t]: the local variable `flag' of thread_sched_yield
  woken     \* waiters a notify_one has chosen that have not yet rechecked

vars == <<handles, flag, pc, held, saved, woken>>

Locations == {"unborn", "running", "spawned", "slice", "rotated", "waiting",
              "popped", "done", "threw"}

Init ==
  /\ handles = <<>>
  /\ flag = [c \in Contexts |-> FALSE]
  /\ pc = [t \in Threads |-> IF t = Main THEN "running" ELSE "unborn"]
  /\ held = [t \in Threads |-> NoHandle]
  /\ saved = [t \in Threads |-> FALSE]
  /\ woken = {}

Goto(t, loc) == pc' = [pc EXCEPT ![t] = loc]

-----------------------------------------------------------------------------
(* The condition variable of a handle.                                     *)

\* The threads blocked on handle h that no notification has chosen yet.
Sleepers(h) == {t \in Threads : pc[t] = "waiting" /\ held[t] = h} \ woken

\* A notification nobody receives (a mutation of NotifyOne).
NotifyNobody(h) == woken' = woken

\* cv.notify_one(): some sleeper is woken, if there is one.
NotifyOne(h) ==
  IF Sleepers(h) = {} THEN woken' = woken
                      ELSE \E t \in Sleepers(h) : woken' = woken \union {t}

\* A wait without its predicate (a mutation of FlippedBack).
Unconditionally(t) == TRUE

\* The predicate of cv.wait(): somebody has flipped t's handle back.
FlippedBack(t) == flag[held[t]] = saved[t]

-----------------------------------------------------------------------------
(* POST /run on the main thread: push a handle, start the initializer.     *)
(* The call of notify() that follows always yields.                        *)

RunRequest(c) ==
  /\ pc[Main] = "running"
  /\ pc[c] = "unborn"
  /\ handles' = <<c>> \o handles
  /\ pc' = [pc EXCEPT ![c] = "running", ![Main] = "spawned"]
  /\ UNCHANGED <<flag, held, saved, woken>>

\* The initializer asks for its time slice, which throws on an empty deque;
\* when the slice is used up the initializer goes on to yield.
TimeSlice(c) ==
  /\ pc[c] = "running"
  /\ Goto(c, IF handles = <<>> THEN "threw" ELSE "slice")
  /\ UNCHANGED <<handles, flag, held, saved, woken>>

\* Where thread_sched_yield(false) is called: anywhere in the main thread's
\* handlers, and by an initializer whose slice is over.
Yields(t) == IF t = Main THEN pc[t] \in {"running", "spawned"}
                         ELSE pc[t] = "slice"

\* The front handle is never pushed back (a mutation of Rotated).
RotatedAway == Tail(handles)

Rotated == Append(Tail(handles), Head(handles))

\* thread_sched_yield(false), under sched_mtx_.
Rotate(t) ==
  /\ Yields(t)
  /\ handles # <<>>
  /\ handles' = Rotated
  /\ held' = [held EXCEPT ![t] = Head(handles)]
  /\ Goto(t, "rotated")
  /\ UNCHANGED <<flag, saved, woken>>

\* thread_sched_yield(false) with nobody to yield to returns at once.
YieldToNobody(t) ==
  /\ Yields(t)
  /\ handles = <<>>
  /\ Goto(t, "running")
  /\ UNCHANGED <<handles, flag, held, saved, woken>>

\* thread_sched_yield(false), under the handle's mutex: notify, flip, wait.
FlipAndWait(t) ==
  /\ pc[t] = "rotated"
  /\ NotifyOne(held[t])
  /\ saved' = [saved EXCEPT ![t] = flag[held[t]]]
  /\ flag' = [flag EXCEPT ![held[t]] = ~ @]
  /\ Goto(t, "waiting")
  /\ UNCHANGED <<handles, held>>

\* A waiter that was notified, or woke spuriously, finds its flag flipped.  One
\* that is notified always does (FlippedIsNotified), so none sleeps again.
Resume(t) ==
  /\ pc[t] = "waiting"
  /\ FlippedBack(t)
  /\ woken' = woken \ {t}
  /\ Goto(t, "running")
  /\ UNCHANGED <<handles, flag, held, saved>>

\* thread_sched_yield(true), under sched_mtx_: the initializer has finished
\* and removes the front handle, whosever it is.
Pop(c) ==
  /\ pc[c] = "running"
  /\ IF handles = <<>>
       THEN /\ Goto(c, "done")
            /\ UNCHANGED <<handles, held>>
       ELSE /\ handles' = Tail(handles)
            /\ held' = [held EXCEPT ![c] = Head(handles)]
            /\ Goto(c, "popped")
  /\ UNCHANGED <<flag, saved, woken>>

\* A finished initializer that forgets to notify (a mutation of FlipAndLeave).
FlipSilently(c) ==
  /\ pc[c] = "popped"
  /\ flag' = [flag EXCEPT ![held[c]] = ~ @]
  /\ Goto(c, "done")
  /\ UNCHANGED <<handles, held, saved, woken>>

\* thread_sched_yield(true), under the handle's mutex: flip and notify.
FlipAndLeave(c) ==
  /\ pc[c] = "popped"
  /\ NotifyOne(held[c])
  /\ flag' = [flag EXCEPT ![held[c]] = ~ @]
  /\ Goto(c, "done")
  /\ UNCHANGED <<handles, held, saved>>

-----------------------------------------------------------------------------
InitializerStep(c) ==
  RunRequest(c) \/ TimeSlice(c) \/ Pop(c) \/ FlipAndLeave(c)

YieldStep(t) ==
  Rotate(t) \/ YieldToNobody(t) \/ FlipAndWait(t) \/ Resume(t)

Next ==
  \/ \E c \in Contexts : InitializerStep(c)
  \/ \E t \in Threads : YieldStep(t)

Spec == Init /\ [][Next]_vars

(***************************************************************************)
(* The operating system runs every thread that can run.  A waiter is only  *)
(* sure to look at its flag once it has been notified, and nothing obliges *)
(* the main thread to yield except having started an initializer.          *)
(***************************************************************************)
InitializerRuns(c) ==
  \/ TimeSlice(c) \/ Pop(c) \/ FlipAndLeave(c)
  \/ Rotate(c) \/ YieldToNobody(c) \/ FlipAndWait(c)
MainRuns ==
  /\ pc[Main] \in {"spawned", "rotated"}
  /\ Rotate(Main) \/ YieldToNobody(Main) \/ FlipAndWait(Main)
NotifiedRuns(t) == t \in woken /\ Resume(t)

FairSpec ==
  /\ Spec
  /\ \A c \in Contexts : WF_vars(InitializerRuns(c))
  /\ WF_vars(MainRuns)
  /\ \A t \in Threads : WF_vars(NotifiedRuns(t))

-----------------------------------------------------------------------------
\* The initializers that own a handle of the deque.
Live == {c \in Contexts : pc[c] \notin {"unborn", "popped", "done"}}

Parked == {t \in Threads : pc[t] = "waiting" /\ ~ FlippedBack(t)}

\* No handle is in the deque twice.
Distinct(s) == \A i, j \in DOMAIN s : s[i] = s[j] => i = j

\* Every variable has its type; the handles in the deque are different and
\* have all been pushed.
TypeOK ==
  /\ handles \in Seq(Contexts)
  /\ Distinct(handles)
  /\ \A i \in DOMAIN handles : pc[handles[i]] # "unborn"
  /\ flag \in [Contexts -> BOOLEAN]
  /\ pc \in [Threads -> Locations]
  /\ held \in [Threads -> Threads]
  /\ \A t \in Threads : pc[t] \in {"rotated", "waiting", "popped"}
                          => held[t] \in Contexts
  /\ saved \in [Threads -> BOOLEAN]
  /\ woken \in SUBSET Threads

\* A finished initializer removes the front handle and not its own, yet the
\* deque has a handle for every initializer still at work and no other.
HandlesMatchInitializers == Len(handles) = Cardinality(Live)

\* thread_sched_time_slice never finds the deque empty, so its throw, which
\* would end the process, is not reached.
TimeSliceNeverThrows == \A c \in Contexts : pc[c] # "threw"

\* Of the initializers at most one is at work, although handles are flipped by
\* position and not by name: fork_exec, and with it the pipes an action's
\* subprocess inherits (thread-controls.cpp:97-142), is never in two of them.
OneInitializerWorks ==
  \A c, d \in Contexts : pc[c] = "running" /\ pc[d] = "running" => c = d

\* Wake-ups and flags agree, although notify_one does not look at whom it
\* wakes: a waiter whose flag was flipped back has been notified, and a waiter
\* that was notified finds its flag flipped back and does not sleep again.
FlippedIsNotified ==
  \A t \in Threads : pc[t] = "waiting" => (FlippedBack(t) <=> t \in woken)

\* A flag that was flipped back for a waiter is not flipped again before the
\* waiter has seen it: the thread handed the processor does get it.
HandedOverRuns ==
  \A t \in Threads :
    (pc[t] = "waiting" /\ FlippedBack(t)) ~> pc[t] = "running"

\* "Yield to the initializer thread here" (controller-app.cpp:476): whoever
\* parks does so on a handle that an initializer can still flip, one that is
\* in the deque or in the hands of a thread about to flip it.
YieldsToSomebody ==
  \A t \in Parked :
    \/ \E i \in DOMAIN handles : handles[i] = held[t]
    \/ \E u \in Threads : pc[u] \in {"rotated", "popped"} /\ held[u] = held[t]

=============================================================================

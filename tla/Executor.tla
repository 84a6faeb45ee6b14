------------------------------ MODULE Executor ------------------------------
(***************************************************************************)
(* The subprocess of an action and the threads at work for it              *)
(* (thread-controls.cpp): an initializer forks it and waits for its        *)
(* executor to hear from the launcher; the executor pauses, continues,     *)
(* feeds and reads it, or kills it once its thread is stopped.             *)
(*                                                                         *)
(* A subprocess has two pipes: `down' for its parameters and `up' for its  *)
(* launcher's first byte and its result.  Pipes are inherited by whatever  *)
(* is forked while they are open, and a result ends when nobody holds the  *)
(* write end.  A subprocess stands for its process group.                  *)
(***************************************************************************)
EXTENDS Naturals, FiniteSets

CONSTANTS
  Actions,  \* Actions of all contexts, each with a subprocess.
  Dying     \* Those whose subprocess may be killed by something else.

ASSUME DyingAssumption == Dying \subseteq Actions

VARIABLES
  state,   \* state_: the step thread_continue takes next.
  at,      \* Where the thread at work for the action is.
  signal,  \* signal_: "start" and "end".
  frames,  \* Actions whose initialize_executor has not returned.
  ends,    \* Ends of pipes the controller holds.
  kept,    \* Ends each subprocess holds.
  group,   \* How far the subprocess is.
  paused,  \* Whether it is stopped by SIGSTOP.
  params,  \* Whether its parameters have been written.
  out,     \* What lies in its `up' pipe.
  val,     \* What the executor has read of the result.
  value,   \* What it has stored.
  down     \* Whether the controller has been terminated by an exception.

threadVars == <<state, at, signal, frames>>
processVars == <<group, paused>>
resultVars == <<val, value>>
vars == <<threadVars, ends, kept, processVars, params, out, resultVars, down>>

Init ==
  /\ state = [a \in Actions |-> 0]
  /\ at = [a \in Actions |-> "none"]
  /\ signal = [a \in Actions |-> {}]
  /\ frames = {}
  /\ ends = {}
  /\ kept = [a \in Actions |-> {}]
  /\ group = [a \in Actions |-> "none"]
  /\ paused = [a \in Actions |-> FALSE]
  /\ params = [a \in Actions |-> FALSE]
  /\ out = [a \in Actions |-> {}]
  /\ val = [a \in Actions |-> {}]
  /\ value = [a \in Actions |-> {}]
  /\ down = FALSE

-----------------------------------------------------------------------------
(* Pipes.                                                                  *)

\* The ends the controller keeps, pipe_, and those it leaves to the subprocess.
Ours(a) == {<<a, "up", "read">>, <<a, "down", "write">>}
Theirs(a) == {<<a, "down", "read">>, <<a, "up", "write">>}

IsOpen(e) == e \in ends \/ \E b \in Actions : e \in kept[b]

\* read() finds the end of file, poll() POLLHUP.
HungUp(a) == ~ IsOpen(<<a, "up", "write">>)

\* write() fails, and SIGPIPE is neither blocked nor ignored.
Broken(a) == ~ IsOpen(<<a, "down", "read">>)

-----------------------------------------------------------------------------
(* Processes.                                                              *)

\* It has a process group of its own, one that kill(-pid) finds.
HasGroup(a) == group[a] \notin {"none", "child", "gone"}

\* It runs code of its own: the launcher.
Executes(a) == group[a] \in {"launcher", "ready", "works", "writes"}

\* All that it holds goes with it.
Exits(a) ==
  /\ group' = [group EXCEPT ![a] = "dead"]
  /\ kept' = [kept EXCEPT ![a] = {}]
  /\ paused' = [paused EXCEPT ![a] = FALSE]

-----------------------------------------------------------------------------
(* The threads.                                                            *)

IsStopped(a) == "end" \in signal[a]

Goto(a, place) == at' = [at EXCEPT ![a] = place]

\* The next step of thread_continue, which returned true.
Done(a) ==
  /\ state' = [state EXCEPT ![a] = @ + 1]
  /\ Goto(a, "test")

\* An exception nobody catches.
Terminates == down' = TRUE

\* The main loop: ThreadControls::notify.  Its notify_one comes after a yield
\* that may take long: Wake.
Notify(a) ==
  /\ "start" \notin signal[a]
  /\ signal' = [signal EXCEPT ![a] = @ \union {"start"}]
  /\ UNCHANGED <<state, at, frames, ends, kept, processVars, params, out,
                 resultVars, down>>

\* wait() has not returned.
Sleeps(a) == at[a] \in {"asleep", "missed"}

\* Stopping does not unblock (a mutation of StopThread).
StopOnly(a) ==
  /\ ~ IsStopped(a)
  /\ signal' = [signal EXCEPT ![a] = @ \union {"end"}]
  /\ UNCHANGED <<state, at, frames, ends, kept, processVars, params, out,
                 resultVars, down>>

\* The main loop: ThreadControls::stop_thread.
StopThread(a) ==
  /\ ~ IsStopped(a)
  /\ signal' = [signal EXCEPT ![a] = {"start", "end"}]
  /\ Goto(a, IF Sleeps(a) THEN "test" ELSE at[a])
  /\ UNCHANGED <<state, frames, ends, kept, processVars, params, out,
                 resultVars, down>>

\* waitpid(-1) in the main loop.
Reap(a) ==
  /\ group[a] = "dead"
  /\ group' = [group EXCEPT ![a] = "gone"]
  /\ UNCHANGED <<threadVars, ends, kept, paused, params, out, resultVars, down>>

-----------------------------------------------------------------------------
(* initialize_executor and fork_exec, on an initializer thread.            *)

\* Initializers would fork at the same time (a mutation of MyTurn).
Anytime == TRUE

\* Initializers give the processor away between two actions, not within one
\* (module ThreadSched, OneInitializerWorks).
MyTurn == frames = {}

Begin(a) ==
  /\ MyTurn
  /\ at[a] = "none" /\ ~ IsStopped(a)
  /\ state' = [state EXCEPT ![a] = 1]
  /\ frames' = frames \union {a}
  /\ ends' = ends \union Ours(a) \union Theirs(a)
  /\ Goto(a, "piped")
  /\ UNCHANGED <<signal, kept, processVars, params, out, resultVars, down>>

\* fork(): the child has every end the controller has.
Fork(a) ==
  /\ at[a] = "piped"
  /\ group' = [group EXCEPT ![a] = "child"]
  /\ kept' = [kept EXCEPT ![a] = ends]
  /\ Goto(a, "forked")
  /\ UNCHANGED <<state, signal, frames, ends, paused, params, out, resultVars,
                 down>>

\* The child has written to the eventfd.
Noticed(a) == group[a] # "child"

CloseTheirs(a) ==
  /\ at[a] = "forked" /\ Noticed(a)
  /\ ends' = ends \ Theirs(a)
  /\ Goto(a, "forkdone")
  /\ UNCHANGED <<state, signal, frames, kept, processVars, params, out,
                 resultVars, down>>

\* A stopped thread gets an executor although its subprocess is killed (a
\* mutation of StartExecutor).
StartAnyway(a) ==
  /\ at[a] = "forkdone"
  /\ Goto(a, "launcher")
  /\ IF IsStopped(a) THEN Exits(a) ELSE UNCHANGED <<group, kept, paused>>
  /\ UNCHANGED <<state, signal, frames, ends, params, out, resultVars, down>>

\* A thread that has been stopped meanwhile gets no executor.
StartExecutor(a) ==
  /\ at[a] = "forkdone"
  /\ Goto(a, IF IsStopped(a) THEN "cleanup" ELSE "launcher")
  /\ UNCHANGED <<state, signal, frames, ends, kept, processVars, params, out,
                 resultVars, down>>

\* initialize_executor returns once it has cleaned up, or has seen sflag.
Return(a) ==
  /\ a \in frames
  /\ at[a] = "ended" \/ state[a] >= 2
  /\ frames' = frames \ {a}
  /\ UNCHANGED <<state, at, signal, ends, kept, processVars, params, out,
                 resultVars, down>>

-----------------------------------------------------------------------------
(* The executor.                                                           *)

\* wait_for_launcher: the first byte, after which sflag is set.
HearLauncher(a) ==
  /\ at[a] = "launcher" /\ out[a] # {}
  /\ out' = [out EXCEPT ![a] = {}]
  /\ state' = [state EXCEPT ![a] = 2]
  /\ Goto(a, "synced")
  /\ UNCHANGED <<signal, frames, ends, kept, processVars, params, resultVars,
                 down>>

\* The end of file instead: an exception.
LauncherIsGone(a) ==
  /\ at[a] = "launcher" /\ out[a] = {} /\ HungUp(a)
  /\ Terminates
  /\ UNCHANGED <<threadVars, ends, kept, processVars, params, out, resultVars>>

\* The test before wait().
Synced(a) ==
  /\ at[a] = "synced"
  /\ Goto(a, IF IsStopped(a) THEN "cleanup" ELSE "wait")
  /\ UNCHANGED <<state, signal, frames, ends, kept, processVars, params, out,
                 resultVars, down>>

\* wait() evaluates its predicate, then sleeps.  notify() and stop_thread() do
\* not take mtx_, so that a thread stopped between the two sleeps all the same.
WaitChecks(a) ==
  /\ at[a] = "wait"
  /\ Goto(a, IF "start" \in signal[a] THEN "test" ELSE "checked")
  /\ UNCHANGED <<state, signal, frames, ends, kept, processVars, params, out,
                 resultVars, down>>

FallAsleep(a) ==
  /\ at[a] = "checked"
  /\ Goto(a, IF IsStopped(a) THEN "missed" ELSE "asleep")
  /\ UNCHANGED <<state, signal, frames, ends, kept, processVars, params, out,
                 resultVars, down>>

\* The notify_one of notify(), or a wake-up nobody caused.
Wake(a) ==
  /\ Sleeps(a) /\ "start" \in signal[a]
  /\ Goto(a, "test")
  /\ UNCHANGED <<state, signal, frames, ends, kept, processVars, params, out,
                 resultVars, down>>

\* The test after wait() and after each step.
Test(a) ==
  /\ at[a] = "test"
  /\ Goto(a, IF IsStopped(a) THEN "cleanup" ELSE "continue")
  /\ UNCHANGED <<state, signal, frames, ends, kept, processVars, params, out,
                 resultVars, down>>

At(a, s) == at[a] = "continue" /\ state[a] = s

\* subprocess_pause: SIGSTOP.  A process that is dead and not reaped is still
\* there.
Pause(a) ==
  /\ At(a, 2) /\ HasGroup(a)
  /\ paused' = [paused EXCEPT ![a] = group[a] # "dead"]
  /\ Done(a)
  /\ UNCHANGED <<signal, frames, ends, kept, group, params, out, resultVars,
                 down>>

\* subprocess_continue: SIGCONT.
Continue(a) ==
  /\ At(a, 3) /\ HasGroup(a)
  /\ paused' = [paused EXCEPT ![a] = FALSE]
  /\ Done(a)
  /\ UNCHANGED <<signal, frames, ends, kept, group, params, out, resultVars,
                 down>>

\* Neither finds the group (ESRCH): the executor leaves its loop.
GroupIsGone(a) ==
  /\ At(a, 2) \/ At(a, 3)
  /\ ~ HasGroup(a)
  /\ state' = [state EXCEPT ![a] = @ + 1]
  /\ Goto(a, "leave")
  /\ UNCHANGED <<signal, frames, ends, kept, processVars, params, out,
                 resultVars, down>>

\* write_params_to_subprocess.  That there are parameters is shown by
\* ActionScheduler (StartedOnlyWhenReady).
WriteParams(a) ==
  /\ At(a, 4) /\ ~ Broken(a)
  /\ params' = [params EXCEPT ![a] = TRUE]
  /\ Done(a)
  /\ UNCHANGED <<signal, frames, ends, kept, processVars, out, resultVars, down>>

NobodyReads(a) ==
  /\ At(a, 4) /\ Broken(a)
  /\ Terminates
  /\ UNCHANGED <<threadVars, ends, kept, processVars, params, out, resultVars>>

\* wait_for_result_from_subprocess: poll for five milliseconds at a time.
Poll(a) ==
  /\ At(a, 5)
  /\ Goto(a, "test")
  /\ state' = [state EXCEPT ![a] = IF out[a] # {} \/ HungUp(a) THEN 6 ELSE 5]
  /\ UNCHANGED <<signal, frames, ends, kept, processVars, params, out,
                 resultVars, down>>

\* read_result_from_subprocess reads until the end of file.
ReadPiece(a) ==
  /\ At(a, 6) /\ out[a] # {}
  /\ val' = [val EXCEPT ![a] = @ \union out[a]]
  /\ out' = [out EXCEPT ![a] = {}]
  /\ UNCHANGED <<threadVars, ends, kept, processVars, params, value, down>>

\* Reading stops when the pipe is empty (a mutation of EndOfFile).
Empty(a) == out[a] = {} /\ val[a] # {}

EndOfFile(a) == out[a] = {} /\ HungUp(a)

ReadEnd(a) ==
  /\ At(a, 6) /\ EndOfFile(a)
  /\ value' = [value EXCEPT ![a] = val[a]]
  /\ Done(a)
  /\ UNCHANGED <<signal, frames, ends, kept, processVars, params, out, val, down>>

\* The default of the switch: the pipe is closed, the loop is over.
ClosePipe(a) ==
  /\ At(a, 7)
  /\ ends' = ends \ Ours(a)
  /\ Goto(a, "leave")
  /\ UNCHANGED <<state, signal, frames, kept, processVars, params, out,
                 resultVars, down>>

Leave(a) ==
  /\ at[a] = "leave"
  /\ signal' = [signal EXCEPT ![a] = @ \union {"end"}]
  /\ Goto(a, "ended")
  /\ UNCHANGED <<state, frames, ends, kept, processVars, params, out,
                 resultVars, down>>

-----------------------------------------------------------------------------
(* cleanup().                                                              *)

\* SIGTERM and SIGCONT, unless there is no group: then SIGKILL is left out.
\* Before its execve a child has the controller's handler for SIGTERM.
KillSoftly(a) ==
  /\ at[a] = "cleanup"
  /\ IF HasGroup(a)
       THEN /\ Goto(a, "killing")
            /\ \/ Executes(a) /\ Exits(a)
               \/ /\ paused' = [paused EXCEPT ![a] = FALSE]
                  /\ UNCHANGED <<group, kept>>
       ELSE Goto(a, "close") /\ UNCHANGED <<group, kept, paused>>
  /\ UNCHANGED <<state, signal, frames, ends, params, out, resultVars, down>>

\* SIGTERM was enough (a mutation of KillHard).
KillNot(a) ==
  /\ at[a] = "killing"
  /\ Goto(a, "close")
  /\ UNCHANGED <<state, signal, frames, ends, kept, processVars, params, out,
                 resultVars, down>>

\* SIGKILL, 20 ms later.
KillHard(a) ==
  /\ at[a] = "killing"
  /\ Goto(a, "close")
  /\ IF group[a] = "gone" THEN UNCHANGED <<group, kept, paused>> ELSE Exits(a)
  /\ UNCHANGED <<state, signal, frames, ends, params, out, resultVars, down>>

CloseAfterKill(a) ==
  /\ at[a] = "close"
  /\ ends' = ends \ Ours(a)
  /\ Goto(a, "ended")
  /\ UNCHANGED <<state, signal, frames, kept, processVars, params, out,
                 resultVars, down>>

-----------------------------------------------------------------------------
(* The subprocess.  The launchers are scripts outside the controller.      *)

Runs(a, place) == group[a] = place /\ ~ paused[a]

\* setpgid, the notice on the eventfd, and the ends that are the parent's.
BecomeGroup(a) ==
  /\ Runs(a, "child")
  /\ group' = [group EXCEPT ![a] = "boot"]
  /\ kept' = [kept EXCEPT ![a] = @ \ Ours(a)]
  /\ UNCHANGED <<threadVars, ends, paused, params, out, resultVars, down>>

\* dup2 and execve keep the ends; the pipes are not closed on exec.
Exec(a) ==
  /\ Runs(a, "boot")
  /\ group' = [group EXCEPT ![a] = "launcher"]
  /\ UNCHANGED <<threadVars, ends, kept, paused, params, out, resultVars, down>>

ReportReady(a) ==
  /\ Runs(a, "launcher")
  /\ group' = [group EXCEPT ![a] = "ready"]
  /\ out' = [out EXCEPT ![a] = {"ready"}]
  /\ UNCHANGED <<threadVars, ends, kept, paused, params, resultVars, down>>

ReadParams(a) ==
  /\ Runs(a, "ready") /\ params[a]
  /\ group' = [group EXCEPT ![a] = "works"]
  /\ UNCHANGED <<threadVars, ends, kept, paused, params, out, resultVars, down>>

\* A long result is written in more than one piece.
WriteHalf(a) ==
  /\ Runs(a, "works")
  /\ group' = [group EXCEPT ![a] = "writes"]
  /\ out' = [out EXCEPT ![a] = @ \union {"half"}]
  /\ UNCHANGED <<threadVars, ends, kept, paused, params, resultVars, down>>

WriteRest(a) ==
  /\ Runs(a, "writes")
  /\ out' = [out EXCEPT ![a] = @ \union {"rest"}]
  /\ Exits(a)
  /\ UNCHANGED <<threadVars, ends, params, resultVars, down>>

\* An action that fails leaves no result.
Fail(a) ==
  /\ Runs(a, "works")
  /\ Exits(a)
  /\ UNCHANGED <<threadVars, ends, params, out, resultVars, down>>

Die(a) ==
  /\ a \in Dying
  /\ group[a] = "boot" \/ Executes(a)
  /\ Exits(a)
  /\ UNCHANGED <<threadVars, ends, params, out, resultVars, down>>

-----------------------------------------------------------------------------
InitializerStep(a) ==
  Begin(a) \/ Fork(a) \/ CloseTheirs(a) \/ StartExecutor(a) \/ Return(a)

ContinueStep(a) ==
  \/ Pause(a) \/ Continue(a) \/ GroupIsGone(a) \/ WriteParams(a)
  \/ NobodyReads(a) \/ Poll(a) \/ ReadPiece(a) \/ ReadEnd(a) \/ ClosePipe(a)

CleanupStep(a) == KillSoftly(a) \/ KillHard(a) \/ CloseAfterKill(a)

ExecutorStep(a) ==
  \/ HearLauncher(a) \/ LauncherIsGone(a) \/ Synced(a) \/ WaitChecks(a)
  \/ FallAsleep(a) \/ Test(a) \/ ContinueStep(a) \/ Leave(a) \/ CleanupStep(a)

\* What a subprocess does soon, whatever its action is.
Launch(a) == BecomeGroup(a) \/ Exec(a) \/ ReportReady(a) \/ WriteRest(a)

SubprocessStep(a) ==
  Launch(a) \/ ReadParams(a) \/ WriteHalf(a) \/ Fail(a) \/ Die(a)

MainStep(a) == Notify(a) \/ StopThread(a) \/ Reap(a)

Next ==
  /\ ~ down
  /\ \E a \in Actions :
       \/ InitializerStep(a) \/ ExecutorStep(a)
       \/ SubprocessStep(a) \/ MainStep(a) \/ Wake(a)

Spec == Init /\ [][Next]_vars

(***************************************************************************)
(* Threads and subprocesses run; an action may take for ever, but what has *)
(* begun to write its result goes on.  Who sleeps in wait() need not wake. *)
(***************************************************************************)
FairSpec ==
  /\ Spec
  /\ \A a \in Actions :
       /\ WF_vars(~ down /\ InitializerStep(a) /\ a \in frames)
       /\ WF_vars(~ down /\ ExecutorStep(a))
       /\ WF_vars(~ down /\ Launch(a))

-----------------------------------------------------------------------------
Places ==
  {"none", "piped", "forked", "forkdone", "launcher", "synced", "wait",
   "checked", "asleep", "missed", "test", "continue", "leave", "cleanup",
   "killing", "close", "ended"}

AllEnds == Actions \X {"up", "down"} \X {"read", "write"}

\* Every variable keeps its type.
TypeOK ==
  /\ state \in [Actions -> 0 .. 7]
  /\ at \in [Actions -> Places]
  /\ signal \in [Actions -> SUBSET {"start", "end"}]
  /\ frames \in SUBSET Actions
  /\ ends \in SUBSET AllEnds
  /\ kept \in [Actions -> SUBSET AllEnds]
  /\ group \in [Actions -> {"none", "child", "boot", "launcher", "ready",
                            "works", "writes", "dead", "gone"}]
  /\ paused \in [Actions -> BOOLEAN]
  /\ params \in [Actions -> BOOLEAN]
  /\ out \in [Actions -> SUBSET {"ready", "half", "rest"}]
  /\ val \in [Actions -> SUBSET {"half", "rest"}]
  /\ value \in [Actions -> SUBSET {"half", "rest"}]
  /\ down \in BOOLEAN

\* A subprocess holds no end of another's that the other's executor relies on
\* to see it gone: results end and writes fail when the own subprocess ends,
\* although the pipes are not closed on exec (thread-controls.cpp:97-104).
HoldsNoOthersEnd ==
  \A a \in Actions, b \in Actions : kept[b] \cap Theirs(a) # {} => a = b

\* An executor that is done leaves nothing behind: its subprocess is dead, and
\* its pipe is closed unless the subprocess was gone when it was to be paused
\* or continued (thread-controls.cpp:206-232, 498-503, 529).
NothingLeft ==
  \A a \in Actions :
    at[a] = "ended" =>
      /\ group[a] \in {"dead", "gone"}
      /\ ends \cap (Ours(a) \union Theirs(a)) = {} \/ state[a] \in {3, 4}

\* What is stored is a whole result, however it arrives and whenever the thread
\* is stopped, unless something else killed the subprocess
\* (thread-controls.cpp:307-336).
ResultIsWhole ==
  \A a \in Actions : value[a] = {"half", "rest"} \/ value[a] = {} \/ a \in Dying

\* The exceptions of wait_for_launcher and write_params_to_subprocess, which end
\* the controller (thread-controls.cpp:196-198, 257-266), are only reached when
\* something else killed the subprocess, however starting and stopping threads
\* interleave with its own cleaning up.
OnlyDeathTerminates ==
  down => \E a \in Dying : /\ at[a] \in {"launcher", "continue"}
                          /\ group[a] \in {"dead", "gone"}

\* An action that hangs holds up nobody: the executor of a stopped thread ends,
\* be it asleep, polling or cleaning up, unless its wait() lost the notification
\* of stop_thread (StoppedIsUnblocked of ActionScheduler), and calls of
\* initialize_executor return (thread-controls.cpp:485-503, 268-305).
NobodyIsHeldUp ==
  /\ \A a \in Actions :
       IsStopped(a) ~> at[a] \in {"none", "ended", "missed"} \/ down
  /\ frames # {} ~> frames = {} \/ down

\* "After we are synchronized with the exec'd launcher, we send a SIGSTOP to the
\* subprocess group, and block the executor thread" (controller-app.cpp:395).
BlockedIsPaused ==
  \A a \in Actions : at[a] = "asleep" /\ Executes(a) => paused[a]

=============================================================================

--------------------------- MODULE ExecutorProofs ---------------------------
(***************************************************************************)
(* Proofs about Executor, for any actions and any of them that something   *)
(* else may kill: pipes reach their own subprocess only, an executor that  *)
(* is done leaves nothing behind, results are whole, and only what died by *)
(* itself ends the controller.                                             *)
(***************************************************************************)
EXTENDS Executor, TLAPS

-----------------------------------------------------------------------------
(* The inductive invariant.                                                *)

IsDead(a) == group[a] \in {"dead", "gone"}

\* The subprocess has been forked and has not ended.
Alive(a) == group[a] \notin {"none", "dead", "gone"}

\* initialize_executor has not handed over to an executor that has heard.
Early(a) == at[a] \in {"piped", "forked", "forkdone", "launcher"}

\* How far the two threads and the subprocess are goes together.
Progress(a) ==
  /\ at[a] = "none" => state[a] = 0
  /\ at[a] \in {"none", "piped"} => group[a] = "none"
  /\ at[a] = "forked" => group[a] # "none"
  /\ at[a] \notin {"none", "piped", "forked"} => group[a] \notin {"none", "child"}
  /\ Early(a) => a \in frames /\ state[a] = 1
  /\ at[a] \in {"leave", "close", "ended"} => IsDead(a)
  /\ state[a] = 7 => IsDead(a)

\* The pipes of an action: what the subprocess holds tells whether it is dead.
Pipes(a) ==
  /\ at[a] \in {"piped", "forked"} => Theirs(a) \subseteq ends
  /\ at[a] \notin {"piped", "forked"} => ends \cap Theirs(a) = {}
  /\ Alive(a) => Theirs(a) \subseteq kept[a]
  /\ at[a] \in {"leave", "ended"} => ends \cap Ours(a) = {} \/ state[a] \in {3, 4}

\* What the launcher and the executor tell each other.
Talk(a) ==
  /\ group[a] \in {"none", "child", "boot", "launcher"} => out[a] = {}
  /\ state[a] >= 2 => /\ group[a] \notin {"none", "child", "boot", "launcher"}
                      /\ "ready" \notin out[a]
  /\ params[a] => state[a] >= 5
  /\ ~ params[a] => out[a] \subseteq {"ready"} /\ group[a] \notin {"works", "writes"}

Told(a) == out[a] \union val[a]

\* Nobody kills the subprocess: it has ended by itself or goes on.
Whole(a) ==
  a \in Dying \/ at[a] \in {"killing", "close", "ended"} \/
    /\ IsDead(a) => params[a] /\ ("half" \in Told(a) <=> "rest" \in Told(a))
    /\ group[a] = "writes" => "half" \in Told(a)
    /\ ~ IsDead(a) /\ group[a] # "writes" => Told(a) \cap {"half", "rest"} = {}

\* All that is said of one action.
Sound(a) ==
  /\ Progress(a) /\ Pipes(a) /\ Talk(a) /\ Whole(a)
  /\ value[a] = {"half", "rest"} \/ value[a] = {} \/ a \in Dying

\* Of the initializers one at most is in initialize_executor.
OneFrame == \A a, b \in frames : a = b

IInv ==
  /\ TypeOK
  /\ OneFrame
  /\ HoldsNoOthersEnd
  /\ \A a \in Actions : Sound(a)
  /\ OnlyDeathTerminates

-----------------------------------------------------------------------------
(* One step is one action's.                                               *)

\* Nothing of b has changed.
Same(b) ==
  /\ state'[b] = state[b] /\ at'[b] = at[b] /\ group'[b] = group[b]
  /\ kept'[b] = kept[b] /\ params'[b] = params[b] /\ out'[b] = out[b]
  /\ val'[b] = val[b] /\ value'[b] = value[b]
  /\ b \in frames' <=> b \in frames
  /\ \A e \in Ours(b) \union Theirs(b) : e \in ends' <=> e \in ends

LEMMA Untouched ==
  ASSUME NEW b \in Actions, Sound(b), Same(b)
  PROVE  Sound(b)'
<1>1. /\ ends' \cap Theirs(b) = ends \cap Theirs(b)
      /\ ends' \cap Ours(b) = ends \cap Ours(b)
  BY DEF Same
<1>2. Theirs(b) \subseteq ends <=> Theirs(b) \subseteq ends'
  BY DEF Same
<1>3. Progress(b)'
  BY DEF Sound, Same, Progress, Early, IsDead
<1>4. Pipes(b)'
  BY <1>1, <1>2 DEF Sound, Same, Pipes, Alive, Ours, Theirs
<1>5. Talk(b)'
  BY DEF Sound, Same, Talk
<1>6. Whole(b)'
  BY DEF Sound, Same, Whole, Told, IsDead
<1> QED
  BY <1>3, <1>4, <1>5, <1>6 DEF Sound, Same

\* What a thread or subprocess of a does.
Step(a) ==
  \/ InitializerStep(a) \/ ExecutorStep(a) \/ SubprocessStep(a) \/ MainStep(a)
  \/ Wake(a)

\* The steps of an executor's thread that are neither thread_continue's nor cleanup's.
Waits(a) ==
  \/ HearLauncher(a) \/ LauncherIsGone(a) \/ Synced(a) \/ WaitChecks(a)
  \/ FallAsleep(a) \/ Wake(a) \/ Test(a) \/ Leave(a)

LEMMA StepCases ==
  ASSUME NEW a \in Actions, Step(a)
  PROVE  \/ InitializerStep(a) \/ Waits(a) \/ ContinueStep(a) \/ CleanupStep(a)
         \/ SubprocessStep(a) \/ MainStep(a)
BY DEF Step, ExecutorStep, Waits

\* Nothing of another action changes: its ends are its own.
LEMMA OthersUntouched ==
  ASSUME IInv, NEW a \in Actions, Step(a)
  PROVE  \A b \in Actions \ {a} : Same(b)
<1>0. Sound(a) /\ TypeOK
  BY DEF IInv
<1> USE <1>0 DEF Goto, threadVars, processVars, resultVars, TypeOK, Same, Ours, Theirs
<1>1. CASE InitializerStep(a)
  BY <1>1 DEF InitializerStep, Begin, Fork, CloseTheirs, StartExecutor, Return
<1>2. CASE Waits(a)
  BY <1>2 DEF Waits, HearLauncher, LauncherIsGone, Synced, WaitChecks,
              FallAsleep, Wake, Sleeps, Test, Leave, Terminates
<1>3. CASE ContinueStep(a)
  BY <1>3 DEF ContinueStep, Pause, Continue, GroupIsGone, WriteParams,
              NobodyReads, Poll, ReadPiece, ReadEnd, ClosePipe, At, Done, Terminates
<1>4. CASE CleanupStep(a)
  BY <1>4 DEF CleanupStep, KillSoftly, KillHard, CloseAfterKill, Exits
<1>5. CASE SubprocessStep(a)
  BY <1>5 DEF SubprocessStep, Launch, Runs, BecomeGroup, Exec,
              ReportReady, ReadParams, WriteHalf, WriteRest, Fail, Die, Exits
<1>6. CASE MainStep(a)
  BY <1>6 DEF MainStep, Notify, StopThread, Sleeps, Reap
<1> QED
  BY <1>1, <1>2, <1>3, <1>4, <1>5, <1>6, StepCases

\* The types of what controls the threads, and of what they pass on.
ControlTypes ==
  /\ state \in [Actions -> 0 .. 7]
  /\ at \in [Actions -> Places]
  /\ group \in [Actions -> {"none", "child", "boot", "launcher", "ready",
                            "works", "writes", "dead", "gone"}]

FlagTypes ==
  /\ paused \in [Actions -> BOOLEAN]
  /\ params \in [Actions -> BOOLEAN]
  /\ down \in BOOLEAN

SignalTypes ==
  signal \in [Actions -> SUBSET {"start", "end"}] /\ frames \in SUBSET Actions

EndTypes == ends \in SUBSET AllEnds /\ kept \in [Actions -> SUBSET AllEnds]

DataTypes ==
  /\ out \in [Actions -> SUBSET {"ready", "half", "rest"}]
  /\ val \in [Actions -> SUBSET {"half", "rest"}]
  /\ value \in [Actions -> SUBSET {"half", "rest"}]

LEMMA ControlTypesKept ==
  ASSUME IInv, NEW a \in Actions, Step(a)
  PROVE  ControlTypes'
<1>0. Sound(a) /\ TypeOK
  BY DEF IInv
<1> USE <1>0 DEF Goto, threadVars, processVars, resultVars, TypeOK, ControlTypes, Places
<1>1. CASE InitializerStep(a)
  BY <1>1 DEF InitializerStep, Begin, Fork, CloseTheirs, StartExecutor, Return
<1>2. CASE Waits(a)
  BY <1>2 DEF Waits, HearLauncher, LauncherIsGone, Synced, WaitChecks,
              FallAsleep, Wake, Sleeps, Test, Leave, Terminates
<1>3. CASE ContinueStep(a)
  BY <1>3 DEF ContinueStep, Pause, Continue, GroupIsGone, WriteParams,
              NobodyReads, Poll, ReadPiece, ReadEnd, ClosePipe, At, Done, Terminates
<1>4. CASE CleanupStep(a)
  BY <1>4 DEF CleanupStep, KillSoftly, KillHard, CloseAfterKill, Exits
<1>5. CASE SubprocessStep(a)
  BY <1>5 DEF SubprocessStep, Launch, Runs, BecomeGroup, Exec,
              ReportReady, ReadParams, WriteHalf, WriteRest, Fail, Die, Exits
<1>6. CASE MainStep(a)
  BY <1>6 DEF MainStep, Notify, StopThread, Sleeps, Reap
<1> QED
  BY <1>1, <1>2, <1>3, <1>4, <1>5, <1>6, StepCases

LEMMA FlagTypesKept ==
  ASSUME IInv, NEW a \in Actions, Step(a)
  PROVE  FlagTypes'
<1>0. Sound(a) /\ TypeOK
  BY DEF IInv
<1> USE <1>0 DEF Goto, threadVars, processVars, resultVars, TypeOK, FlagTypes
<1>1. CASE InitializerStep(a)
  BY <1>1 DEF InitializerStep, Begin, Fork, CloseTheirs, StartExecutor, Return
<1>2. CASE Waits(a)
  BY <1>2 DEF Waits, HearLauncher, LauncherIsGone, Synced, WaitChecks,
              FallAsleep, Wake, Sleeps, Test, Leave, Terminates
<1>3. CASE ContinueStep(a)
  BY <1>3 DEF ContinueStep, Pause, Continue, GroupIsGone, WriteParams,
              NobodyReads, Poll, ReadPiece, ReadEnd, ClosePipe, At, Done, Terminates
<1>4. CASE CleanupStep(a)
  BY <1>4 DEF CleanupStep, KillSoftly, KillHard, CloseAfterKill, Exits
<1>5. CASE SubprocessStep(a)
  BY <1>5 DEF SubprocessStep, Launch, Runs, BecomeGroup, Exec,
              ReportReady, ReadParams, WriteHalf, WriteRest, Fail, Die, Exits
<1>6. CASE MainStep(a)
  BY <1>6 DEF MainStep, Notify, StopThread, Sleeps, Reap
<1> QED
  BY <1>1, <1>2, <1>3, <1>4, <1>5, <1>6, StepCases

LEMMA SignalTypesKept ==
  ASSUME IInv, NEW a \in Actions, Step(a)
  PROVE  SignalTypes'
<1>0. Sound(a) /\ TypeOK
  BY DEF IInv
<1> USE <1>0 DEF Goto, threadVars, processVars, resultVars, TypeOK, SignalTypes
<1>1. CASE InitializerStep(a)
  BY <1>1 DEF InitializerStep, Begin, Fork, CloseTheirs, StartExecutor, Return
<1>2. CASE Waits(a)
  BY <1>2 DEF Waits, HearLauncher, LauncherIsGone, Synced, WaitChecks,
              FallAsleep, Wake, Sleeps, Test, Leave, Terminates
<1>3. CASE ContinueStep(a)
  BY <1>3 DEF ContinueStep, Pause, Continue, GroupIsGone, WriteParams,
              NobodyReads, Poll, ReadPiece, ReadEnd, ClosePipe, At, Done, Terminates
<1>4. CASE CleanupStep(a)
  BY <1>4 DEF CleanupStep, KillSoftly, KillHard, CloseAfterKill, Exits
<1>5. CASE SubprocessStep(a)
  BY <1>5 DEF SubprocessStep, Launch, Runs, BecomeGroup, Exec,
              ReportReady, ReadParams, WriteHalf, WriteRest, Fail, Die, Exits
<1>6. CASE MainStep(a)
  BY <1>6 DEF MainStep, Notify, StopThread, Sleeps, Reap
<1> QED
  BY <1>1, <1>2, <1>3, <1>4, <1>5, <1>6, StepCases

LEMMA EndTypesKept ==
  ASSUME IInv, NEW a \in Actions, Step(a)
  PROVE  EndTypes'
<1>0. Sound(a) /\ TypeOK
  BY DEF IInv
<1> USE <1>0 DEF Goto, threadVars, processVars, resultVars, TypeOK, EndTypes, AllEnds, Ours, Theirs
<1>1. CASE InitializerStep(a)
  BY <1>1 DEF InitializerStep, Begin, Fork, CloseTheirs, StartExecutor, Return
<1>2. CASE Waits(a)
  BY <1>2 DEF Waits, HearLauncher, LauncherIsGone, Synced, WaitChecks,
              FallAsleep, Wake, Sleeps, Test, Leave, Terminates
<1>3. CASE ContinueStep(a)
  BY <1>3 DEF ContinueStep, Pause, Continue, GroupIsGone, WriteParams,
              NobodyReads, Poll, ReadPiece, ReadEnd, ClosePipe, At, Done, Terminates
<1>4. CASE CleanupStep(a)
  BY <1>4 DEF CleanupStep, KillSoftly, KillHard, CloseAfterKill, Exits
<1>5. CASE SubprocessStep(a)
  BY <1>5 DEF SubprocessStep, Launch, Runs, BecomeGroup, Exec,
              ReportReady, ReadParams, WriteHalf, WriteRest, Fail, Die, Exits
<1>6. CASE MainStep(a)
  BY <1>6 DEF MainStep, Notify, StopThread, Sleeps, Reap
<1> QED
  BY <1>1, <1>2, <1>3, <1>4, <1>5, <1>6, StepCases

\* The executor reads the result after the launcher's first byte.
LEMMA DataTypesKept ==
  ASSUME IInv, NEW a \in Actions, Step(a)
  PROVE  DataTypes'
<1>0. Sound(a) /\ TypeOK
  BY DEF IInv
<1> USE <1>0 DEF Goto, threadVars, processVars, resultVars, TypeOK, DataTypes, Sound, Talk
<1>1. CASE InitializerStep(a)
  BY <1>1 DEF InitializerStep, Begin, Fork, CloseTheirs, StartExecutor, Return
<1>2. CASE Waits(a)
  BY <1>2 DEF Waits, HearLauncher, LauncherIsGone, Synced, WaitChecks,
              FallAsleep, Wake, Sleeps, Test, Leave, Terminates
<1>3. CASE ContinueStep(a)
  BY <1>3 DEF ContinueStep, Pause, Continue, GroupIsGone, WriteParams,
              NobodyReads, Poll, ReadPiece, ReadEnd, ClosePipe, At, Done, Terminates
<1>4. CASE CleanupStep(a)
  BY <1>4 DEF CleanupStep, KillSoftly, KillHard, CloseAfterKill, Exits
<1>5. CASE SubprocessStep(a)
  BY <1>5 DEF SubprocessStep, Launch, Runs, BecomeGroup, Exec,
              ReportReady, ReadParams, WriteHalf, WriteRest, Fail, Die, Exits
<1>6. CASE MainStep(a)
  BY <1>6 DEF MainStep, Notify, StopThread, Sleeps, Reap
<1> QED
  BY <1>1, <1>2, <1>3, <1>4, <1>5, <1>6, StepCases

\* A result is only over when the own subprocess has ended: it holds the pipe.
LEMMA ProgressKept ==
  ASSUME IInv, NEW a \in Actions, Step(a)
  PROVE  Progress(a)'
<1>0. Sound(a) /\ TypeOK
  BY DEF IInv
<1> USE <1>0 DEF Goto, threadVars, processVars, resultVars, Sound, TypeOK, Progress, Early, IsDead,
         HasGroup, Executes, Noticed, EndOfFile, HungUp, IsOpen, Pipes, Alive,
         Theirs
<1>1. CASE InitializerStep(a)
  BY <1>1 DEF InitializerStep, Begin, Fork, CloseTheirs, StartExecutor, Return
<1>2. CASE Waits(a)
  BY <1>2 DEF Waits, HearLauncher, LauncherIsGone, Synced, WaitChecks,
              FallAsleep, Wake, Sleeps, Test, Leave, Terminates
<1>3. CASE ContinueStep(a)
  BY <1>3 DEF ContinueStep, Pause, Continue, GroupIsGone, WriteParams,
              NobodyReads, Poll, ReadPiece, ReadEnd, ClosePipe, At, Done, Terminates
<1>4. CASE CleanupStep(a)
  BY <1>4 DEF CleanupStep, KillSoftly, KillHard, CloseAfterKill, Exits
<1>5. CASE SubprocessStep(a)
  BY <1>5 DEF SubprocessStep, Launch, Runs, BecomeGroup, Exec,
              ReportReady, ReadParams, WriteHalf, WriteRest, Fail, Die, Exits
<1>6. CASE MainStep(a)
  BY <1>6 DEF MainStep, Notify, StopThread, Sleeps, Reap
<1> QED
  BY <1>1, <1>2, <1>3, <1>4, <1>5, <1>6, StepCases

\* The child inherits its ends and keeps them as long as it lives.
LEMMA PipesKept ==
  ASSUME IInv, NEW a \in Actions, Step(a)
  PROVE  Pipes(a)'
<1>0. Sound(a) /\ TypeOK
  BY DEF IInv
<1> USE <1>0 DEF Goto, threadVars, processVars, resultVars, Sound, TypeOK, Progress, Early, IsDead,
         HasGroup, Executes, Pipes, Alive, Ours, Theirs
<1>1. CASE InitializerStep(a)
  BY <1>1 DEF InitializerStep, Begin, Fork, CloseTheirs, StartExecutor, Return
<1>2. CASE Waits(a)
  BY <1>2 DEF Waits, HearLauncher, LauncherIsGone, Synced, WaitChecks,
              FallAsleep, Wake, Sleeps, Test, Leave, Terminates
<1>3. CASE ContinueStep(a)
  BY <1>3 DEF ContinueStep, Pause, Continue, GroupIsGone, WriteParams,
              NobodyReads, Poll, ReadPiece, ReadEnd, ClosePipe, At, Done, Terminates
<1>4. CASE CleanupStep(a)
  BY <1>4 DEF CleanupStep, KillSoftly, KillHard, CloseAfterKill, Exits
<1>5. CASE SubprocessStep(a)
  BY <1>5 DEF SubprocessStep, Launch, Runs, BecomeGroup, Exec,
              ReportReady, ReadParams, WriteHalf, WriteRest, Fail, Die, Exits
<1>6. CASE MainStep(a)
  BY <1>6 DEF MainStep, Notify, StopThread, Sleeps, Reap
<1> QED
  BY <1>1, <1>2, <1>3, <1>4, <1>5, <1>6, StepCases

\* The launcher speaks first, once, and hears its parameters afterwards.
LEMMA TalkKept ==
  ASSUME IInv, NEW a \in Actions, Step(a)
  PROVE  Talk(a)'
<1>0. Sound(a) /\ TypeOK
  BY DEF IInv
<1> USE <1>0 DEF Goto, threadVars, processVars, resultVars, Sound, TypeOK, Progress, Early, IsDead,
         HasGroup, Executes, Talk
<1>1. CASE InitializerStep(a)
  BY <1>1 DEF InitializerStep, Begin, Fork, CloseTheirs, StartExecutor, Return
<1>2. CASE Waits(a)
  BY <1>2 DEF Waits, HearLauncher, LauncherIsGone, Synced, WaitChecks,
              FallAsleep, Wake, Sleeps, Test, Leave, Terminates
<1>3. CASE ContinueStep(a)
  BY <1>3 DEF ContinueStep, Pause, Continue, GroupIsGone, WriteParams,
              NobodyReads, Poll, ReadPiece, ReadEnd, ClosePipe, At, Done, Terminates
<1>4. CASE CleanupStep(a)
  BY <1>4 DEF CleanupStep, KillSoftly, KillHard, CloseAfterKill, Exits
<1>5. CASE SubprocessStep(a)
  BY <1>5 DEF SubprocessStep, Launch, Runs, BecomeGroup, Exec,
              ReportReady, ReadParams, WriteHalf, WriteRest, Fail, Die, Exits
<1>6. CASE MainStep(a)
  BY <1>6 DEF MainStep, Notify, StopThread, Sleeps, Reap
<1> QED
  BY <1>1, <1>2, <1>3, <1>4, <1>5, <1>6, StepCases

\* A subprocess nobody kills ends with all of its result or with nothing.
LEMMA WholeKept ==
  ASSUME IInv, NEW a \in Actions, Step(a)
  PROVE  Whole(a)'
<1>0. Sound(a) /\ TypeOK
  BY DEF IInv
<1> USE <1>0 DEF Goto, threadVars, processVars, resultVars, Sound, TypeOK, Progress, Early, IsDead,
         HasGroup, Executes, Talk, Whole, Told
<1>1. CASE InitializerStep(a)
  BY <1>1 DEF InitializerStep, Begin, Fork, CloseTheirs, StartExecutor, Return
<1>2. CASE Waits(a)
  BY <1>2 DEF Waits, HearLauncher, LauncherIsGone, Synced, WaitChecks,
              FallAsleep, Wake, Sleeps, Test, Leave, Terminates
<1>3. CASE ContinueStep(a)
  BY <1>3 DEF ContinueStep, Pause, Continue, GroupIsGone, WriteParams,
              NobodyReads, Poll, ReadPiece, ReadEnd, ClosePipe, At, Done, Terminates
<1>4. CASE CleanupStep(a)
  BY <1>4 DEF CleanupStep, KillSoftly, KillHard, CloseAfterKill, Exits
<1>5. CASE SubprocessStep(a)
  BY <1>5 DEF SubprocessStep, Launch, Runs, BecomeGroup, Exec,
              ReportReady, ReadParams, WriteHalf, WriteRest, Fail, Die, Exits
<1>6. CASE MainStep(a)
  BY <1>6 DEF MainStep, Notify, StopThread, Sleeps, Reap
<1> QED
  BY <1>1, <1>2, <1>3, <1>4, <1>5, <1>6, StepCases

\* What is stored when the result is over is therefore whole.
LEMMA ValueKept ==
  ASSUME IInv, NEW a \in Actions, Step(a)
  PROVE  value'[a] = {"half", "rest"} \/ value'[a] = {} \/ a \in Dying
<1>0. Sound(a) /\ TypeOK
  BY DEF IInv
<1> USE <1>0 DEF Goto, threadVars, processVars, resultVars, Sound, TypeOK, Progress, Early, IsDead,
         HasGroup, Executes, Talk, Whole, Told, EndOfFile, HungUp,
         IsOpen, Pipes, Alive, Theirs
<1>1. CASE InitializerStep(a)
  BY <1>1 DEF InitializerStep, Begin, Fork, CloseTheirs, StartExecutor, Return
<1>2. CASE Waits(a)
  BY <1>2 DEF Waits, HearLauncher, LauncherIsGone, Synced, WaitChecks,
              FallAsleep, Wake, Sleeps, Test, Leave, Terminates
<1>3. CASE ContinueStep(a)
  BY <1>3 DEF ContinueStep, Pause, Continue, GroupIsGone, WriteParams,
              NobodyReads, Poll, ReadPiece, ReadEnd, ClosePipe, At, Done, Terminates
<1>4. CASE CleanupStep(a)
  BY <1>4 DEF CleanupStep, KillSoftly, KillHard, CloseAfterKill, Exits
<1>5. CASE SubprocessStep(a)
  BY <1>5 DEF SubprocessStep, Launch, Runs, BecomeGroup, Exec,
              ReportReady, ReadParams, WriteHalf, WriteRest, Fail, Die, Exits
<1>6. CASE MainStep(a)
  BY <1>6 DEF MainStep, Notify, StopThread, Sleeps, Reap
<1> QED
  BY <1>1, <1>2, <1>3, <1>4, <1>5, <1>6, StepCases

\* initialize_executor is entered when nobody is in it.
LEMMA FramesKept ==
  ASSUME IInv, NEW a \in Actions, Step(a)
  PROVE  OneFrame'
<1>0. Sound(a) /\ TypeOK
  BY DEF IInv
<1> USE <1>0 DEF Goto, threadVars, processVars, resultVars, OneFrame, IInv, MyTurn
<1>1. CASE InitializerStep(a)
  BY <1>1 DEF InitializerStep, Begin, Fork, CloseTheirs, StartExecutor, Return
<1>2. CASE Waits(a)
  BY <1>2 DEF Waits, HearLauncher, LauncherIsGone, Synced, WaitChecks,
              FallAsleep, Wake, Sleeps, Test, Leave, Terminates
<1>3. CASE ContinueStep(a)
  BY <1>3 DEF ContinueStep, Pause, Continue, GroupIsGone, WriteParams,
              NobodyReads, Poll, ReadPiece, ReadEnd, ClosePipe, At, Done, Terminates
<1>4. CASE CleanupStep(a)
  BY <1>4 DEF CleanupStep, KillSoftly, KillHard, CloseAfterKill, Exits
<1>5. CASE SubprocessStep(a)
  BY <1>5 DEF SubprocessStep, Launch, Runs, BecomeGroup, Exec,
              ReportReady, ReadParams, WriteHalf, WriteRest, Fail, Die, Exits
<1>6. CASE MainStep(a)
  BY <1>6 DEF MainStep, Notify, StopThread, Sleeps, Reap
<1> QED
  BY <1>1, <1>2, <1>3, <1>4, <1>5, <1>6, StepCases

\* So a child inherits no end that belongs to another's subprocess.
LEMMA NoOthersEnd ==
  ASSUME IInv, NEW a \in Actions, Step(a)
  PROVE  HoldsNoOthersEnd'
<1>1. SUFFICES ASSUME NEW c \in Actions, NEW b \in Actions,
                      kept'[b] \cap Theirs(c) # {}
               PROVE  c = b
  BY DEF HoldsNoOthersEnd, Theirs
<1>2. kept'[b] \subseteq kept[b] \/ (Fork(a) /\ b = a)
  <2>0. TypeOK
    BY DEF IInv
  <2> USE <2>0 DEF TypeOK, Goto, threadVars, processVars, resultVars
  <2>1. CASE InitializerStep(a)
    BY <2>1 DEF InitializerStep, Begin, Fork, CloseTheirs, StartExecutor, Return
  <2>2. CASE Waits(a)
    BY <2>2 DEF Waits, HearLauncher, LauncherIsGone, Synced, WaitChecks, FallAsleep,
             Wake, Sleeps, Test, Leave, Terminates
  <2>3. CASE ContinueStep(a)
    BY <2>3 DEF ContinueStep, Pause, Continue, GroupIsGone, WriteParams, NobodyReads, Poll,
          ReadPiece, ReadEnd, ClosePipe, At, Done, Terminates
  <2>4. CASE CleanupStep(a)
    BY <2>4 DEF CleanupStep, KillSoftly, KillHard, CloseAfterKill, Exits
  <2>5. CASE SubprocessStep(a)
    BY <2>5 DEF SubprocessStep, Launch, Runs, BecomeGroup, Exec, ReportReady, ReadParams,
          WriteHalf, WriteRest, Fail, Die, Exits
  <2>6. CASE MainStep(a)
    BY <2>6 DEF MainStep, Notify, StopThread, Sleeps, Reap
  <2> QED
    BY <2>1, <2>2, <2>3, <2>4, <2>5, <2>6, StepCases
<1>3. CASE kept'[b] \subseteq kept[b]
  BY <1>1, <1>3 DEF IInv, HoldsNoOthersEnd
<1>4. CASE Fork(a) /\ b = a
  <2>1. kept'[a] = ends /\ a \in frames
    BY <1>4 DEF Fork, IInv, TypeOK, Sound, Progress, Early
  <2>2. ends \cap Theirs(c) # {}
    BY <1>1, <1>4, <2>1
  <2>3. c \in frames
    BY <2>2 DEF IInv, Sound, Pipes, Progress, Early
  <2> QED
    BY <1>4, <2>1, <2>3 DEF IInv, OneFrame
<1> QED
  BY <1>2, <1>3, <1>4

\* While the executor waits for its launcher or writes parameters nobody but
\* something else can have ended the subprocess.
LEMMA OnlyDeath ==
  ASSUME IInv, NEW a \in Actions, Step(a), ~ down
  PROVE  OnlyDeathTerminates'
<1>1. down' => LauncherIsGone(a) \/ NobodyReads(a)
  <2> USE DEF Goto, threadVars, processVars, resultVars
  <2>1. CASE InitializerStep(a)
    BY <2>1 DEF InitializerStep, Begin, Fork, CloseTheirs, StartExecutor, Return
  <2>2. CASE Waits(a)
    BY <2>2 DEF Waits, HearLauncher, LauncherIsGone, Synced, WaitChecks, FallAsleep,
             Wake, Sleeps, Test, Leave, Terminates
  <2>3. CASE ContinueStep(a)
    BY <2>3 DEF ContinueStep, Pause, Continue, GroupIsGone, WriteParams, NobodyReads, Poll,
          ReadPiece, ReadEnd, ClosePipe, At, Done, Terminates
  <2>4. CASE CleanupStep(a)
    BY <2>4 DEF CleanupStep, KillSoftly, KillHard, CloseAfterKill, Exits
  <2>5. CASE SubprocessStep(a)
    BY <2>5 DEF SubprocessStep, Launch, Runs, BecomeGroup, Exec, ReportReady, ReadParams,
          WriteHalf, WriteRest, Fail, Die, Exits
  <2>6. CASE MainStep(a)
    BY <2>6 DEF MainStep, Notify, StopThread, Sleeps, Reap
  <2> QED
    BY <2>1, <2>2, <2>3, <2>4, <2>5, <2>6, StepCases
<1>2. ASSUME LauncherIsGone(a) \/ NobodyReads(a)
      PROVE  /\ at[a] \in {"launcher", "continue"} /\ IsDead(a) /\ a \in Dying
             /\ UNCHANGED <<at, group>>
  BY <1>2 DEF LauncherIsGone, NobodyReads, IInv, Sound, Progress, Pipes, Talk,
              Whole, Alive, IsDead, Early, At, HungUp, Broken, IsOpen, Theirs,
              threadVars, processVars
<1> QED
  BY <1>1, <1>2 DEF OnlyDeathTerminates, IsDead

LEMMA Invariance == IInv /\ [Next]_vars => IInv'
<1> SUFFICES ASSUME IInv, [Next]_vars PROVE IInv'
  OBVIOUS
<1>1. ASSUME ~ down, NEW a \in Actions, Step(a)
      PROVE  IInv'
  <2>1. TypeOK' /\ OneFrame' /\ HoldsNoOthersEnd' /\ OnlyDeathTerminates'
    BY <1>1, ControlTypesKept, FlagTypesKept, SignalTypesKept, EndTypesKept,
       DataTypesKept, FramesKept, NoOthersEnd, OnlyDeath
       DEF TypeOK, ControlTypes, FlagTypes, SignalTypes, EndTypes, DataTypes
  <2>2. Sound(a)'
    BY <1>1, ProgressKept, PipesKept, TalkKept, WholeKept, ValueKept DEF Sound
  <2>3. ASSUME NEW b \in Actions \ {a} PROVE Sound(b)'
    BY <1>1, OthersUntouched, Untouched DEF IInv
  <2> QED
    BY <2>1, <2>2, <2>3 DEF IInv
<1>2. CASE UNCHANGED vars
  <2> USE <1>2 DEF vars, threadVars, processVars, resultVars
  <2>1. TypeOK' /\ OneFrame' /\ HoldsNoOthersEnd' /\ OnlyDeathTerminates'
    BY DEF IInv, TypeOK, OneFrame, HoldsNoOthersEnd, OnlyDeathTerminates
  <2>2. ASSUME NEW b \in Actions PROVE Sound(b)'
    BY Untouched DEF IInv, Same
  <2> QED
    BY <2>1, <2>2 DEF IInv
<1> QED
  BY <1>1, <1>2 DEF Next, Step

LEMMA Initially == Init => IInv
<1> SUFFICES ASSUME Init PROVE IInv
  OBVIOUS
<1>1. ControlTypes
  BY DEF Init, ControlTypes, Places
<1>2. FlagTypes /\ SignalTypes
  BY DEF Init, FlagTypes, SignalTypes
<1>3. EndTypes /\ DataTypes
  BY DEF Init, EndTypes, DataTypes
<1>4. OneFrame /\ HoldsNoOthersEnd /\ OnlyDeathTerminates
  BY DEF Init, OneFrame, HoldsNoOthersEnd, OnlyDeathTerminates
<1>5. ASSUME NEW a \in Actions PROVE Sound(a)
  BY DEF Init, Sound, Progress, Pipes, Talk, Whole, Told, IsDead, Alive,
         Early, Theirs
<1> QED
  BY <1>1, <1>2, <1>3, <1>4, <1>5
     DEF IInv, TypeOK, ControlTypes, FlagTypes, SignalTypes, EndTypes, DataTypes

LEMMA Inductive == Spec => []IInv
<1> QED
  BY Initially, Invariance, PTL DEF Spec

-----------------------------------------------------------------------------
(* The theorems.                                                           *)

\* Every variable keeps its type.
THEOREM TypeCorrect == Spec => []TypeOK
<1>1. IInv => TypeOK
  BY DEF IInv
<1> QED
  BY <1>1, Inductive, PTL

\* No subprocess holds an end of a pipe that another's executor relies on,
\* however many actions are forked and whenever (thread-controls.cpp:88-180).
THEOREM PipesAreApart == Spec => []HoldsNoOthersEnd
<1>1. IInv => HoldsNoOthersEnd
  BY DEF IInv
<1> QED
  BY <1>1, Inductive, PTL

\* An executor that is done has a dead subprocess and, but for the named steps,
\* a closed pipe, at whatever step it was stopped (thread-controls.cpp:498).
THEOREM CleansUp == Spec => []NothingLeft
<1>1. IInv => NothingLeft
  <2> SUFFICES ASSUME IInv, NEW a \in Actions, at[a] = "ended"
               PROVE  /\ group[a] \in {"dead", "gone"}
                      /\ \/ ends \cap (Ours(a) \union Theirs(a)) = {}
                         \/ state[a] \in {3, 4}
    BY DEF NothingLeft
  <2> QED
    BY DEF IInv, Sound, Progress, Pipes, IsDead
<1> QED
  BY <1>1, Inductive, PTL

\* A result that is stored is whole, unless something else killed its
\* subprocess (thread-controls.cpp:307-336).
THEOREM ResultsAreWhole == Spec => []ResultIsWhole
<1>1. IInv => ResultIsWhole
  BY DEF IInv, Sound, ResultIsWhole
<1> QED
  BY <1>1, Inductive, PTL

\* The controller's own stopping and killing never makes it throw
\* (thread-controls.cpp:196, 264).
THEOREM StoppingIsHarmless == Spec => []OnlyDeathTerminates
<1>1. IInv => OnlyDeathTerminates
  BY DEF IInv
<1> QED
  BY <1>1, Inductive, PTL

=============================================================================

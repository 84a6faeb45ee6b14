---------------------------- MODULE MailboxProofs ----------------------------
(***************************************************************************)
(* Proofs about Mailbox, for any sessions, any division of requests into   *)
(* parts and any length of the queue: the queue keeps its bound, data that *)
(* has arrived has a message on its way, the end of a context is not lost, *)
(* and the controller is destroyed last.                                   *)
(***************************************************************************)
EXTENDS Mailbox, SequenceTheorems, TLAPS

-----------------------------------------------------------------------------
(* The condition variable.                                                 *)

\* notify_one chooses among the two threads.
LEMMA NotifyType ==
  ASSUME woken \subseteq {"main", "io"}, NotifyOne
  PROVE  woken' \subseteq {"main", "io"}
<1>1. Blocked \subseteq {"main", "io"}
  BY DEF Blocked
<1> QED
  BY <1>1 DEF NotifyOne

\* Pushing adds one message, pulling takes the first.
LEMMA PushPull ==
  ASSUME NEW q \in Seq(Sessions)
  PROVE  /\ \A s \in Sessions :
              /\ Append(q, s) \in Seq(Sessions)
              /\ Len(Append(q, s)) = Len(q) + 1
              /\ {Append(q, s)[i] : i \in DOMAIN Append(q, s)}
                   = {q[i] : i \in DOMAIN q} \union {s}
         /\ q # <<>> =>
              /\ Head(q) \in Sessions /\ Tail(q) \in Seq(Sessions)
              /\ Len(Tail(q)) = Len(q) - 1 /\ Len(q) \in Nat
              /\ {q[i] : i \in DOMAIN q}
                   \subseteq {Tail(q)[i] : i \in DOMAIN Tail(q)} \union {Head(q)}
<1>1. ASSUME NEW s \in Sessions
      PROVE  /\ Append(q, s) \in Seq(Sessions)
             /\ Len(Append(q, s)) = Len(q) + 1
             /\ {Append(q, s)[i] : i \in DOMAIN Append(q, s)}
                  = {q[i] : i \in DOMAIN q} \union {s}
  <2>1. /\ Append(q, s) \in Seq(Sessions)
        /\ Len(Append(q, s)) = Len(q) + 1
        /\ \A i \in 1 .. Len(q) : Append(q, s)[i] = q[i]
        /\ Append(q, s)[Len(q) + 1] = s
    BY AppendProperties
  <2>2. Len(q) \in Nat /\ DOMAIN q = 1 .. Len(q)
        /\ DOMAIN Append(q, s) = 1 .. Len(q) + 1
    BY <2>1, LenProperties
  <2>3. 1 .. Len(q) + 1 = 1 .. Len(q) \union {Len(q) + 1}
    BY <2>2
  <2> QED
    BY <2>1, <2>2, <2>3
<1>2. ASSUME q # <<>>
      PROVE  /\ Head(q) \in Sessions /\ Tail(q) \in Seq(Sessions)
             /\ Len(Tail(q)) = Len(q) - 1 /\ Len(q) \in Nat
             /\ {q[i] : i \in DOMAIN q}
                  \subseteq {Tail(q)[i] : i \in DOMAIN Tail(q)} \union {Head(q)}
  <2>1. /\ Head(q) = q[1] /\ Head(q) \in Sessions
        /\ Tail(q) \in Seq(Sessions) /\ Len(Tail(q)) = Len(q) - 1
        /\ \A i \in 1 .. Len(q) - 1 : Tail(q)[i] = q[i + 1]
    BY <1>2, HeadTailProperties
  <2>2. Len(q) \in Nat /\ DOMAIN q = 1 .. Len(q)
        /\ DOMAIN Tail(q) = 1 .. Len(q) - 1
    BY <2>1, LenProperties
  <2>3. ASSUME NEW i \in DOMAIN q
        PROVE  q[i] \in {Tail(q)[j] : j \in DOMAIN Tail(q)} \union {Head(q)}
    <3>1. CASE i = 1
      BY <2>1, <3>1
    <3>2. CASE i # 1
      <4>1. i - 1 \in DOMAIN Tail(q) /\ (i - 1) + 1 = i
        BY <2>2, <3>2
      <4>2. Tail(q)[i - 1] = q[i]
        BY <2>1, <2>2, <4>1
      <4> QED
        BY <4>1, <4>2
    <3> QED
      BY <3>1, <3>2
  <2> QED
    BY <2>1, <2>2, <2>3
<1> QED
  BY <1>1, <1>2

-----------------------------------------------------------------------------
(* The inductive invariant.                                                *)

\* There is room for the message the IO thread is about to push.
RoomForOne ==
  /\ Len(mq) <= MaxQueue
  /\ io \in {"flag", "push"} => Len(mq) < MaxQueue

\* A flag is set by the thread that leaves its loop, and the process waits
\* for one after the other.
FlagsMeanLeft ==
  /\ destruct => main \in {"leaving", "exited"}
  /\ stopped => io \in {"stopping", "exited"}
  /\ proc \in {"join", "join_sleepy", "join_asleep", "destroyed"} => destruct
  /\ proc = "destroyed" => stopped

\* A context lives until its post is answered.
ContextIsReading == \A c \in ctxs : http[c] = "reading"

IInv ==
  /\ TypeOK /\ RoomForOne /\ FlagsMeanLeft
  /\ ContextIsReading /\ EndNotLost /\ DataHasMessage

LEMMA InitIInv == Init => IInv
<1> SUFFICES ASSUME Init PROVE IInv
  OBVIOUS
<1> USE DEF Init
<1>1. TypeOK
  <2>1. \A s \in Sessions : Parts[s] \in Nat
    BY SessionAssumption
  <2>2. <<>> \in Seq(Sessions)
    OBVIOUS
  <2>3. \A s \in Sessions :
          got[s] + stream[s] = arrived[s] /\ arrived[s] <= Parts[s]
    BY <2>1
  <2>4. /\ arrived \in [Sessions -> Nat]
        /\ stream \in [Sessions -> Nat]
        /\ got \in [Sessions -> Nat]
        /\ mq \in Seq(Sessions)
    BY <2>2
  <2>5. /\ http \in [Sessions -> {"none", "reading", "streaming", "answered",
                               "finished", "closed"}]
        /\ \A s \in Sessions : http[s] \in {"streaming", "finished"} => s \in Puts
        /\ exe \in [Posts -> {"none", "run", "stopped", "signalled", "done"}]
    OBVIOUS
  <2> QED
    BY <2>3, <2>4, <2>5 DEF TypeOK, ThreadTypes, MainTypes, SharedTypes, IOTypes,
       ProcTypes, PartTypes, RequestTypes
<1>2. RoomForOne
  BY QueueAssumption DEF RoomForOne
<1>3. DataHasMessage
  BY DEF DataHasMessage
<1>4. EndNotLost
  BY DEF EndNotLost
<1>5. FlagsMeanLeft
  BY DEF FlagsMeanLeft
<1>6. ContextIsReading
  BY DEF ContextIsReading
<1> QED
  BY <1>1, <1>2, <1>3, <1>4, <1>5, <1>6 DEF IInv

-----------------------------------------------------------------------------
(* Types.                                                                  *)

\* Most steps leave what the main thread keeps alone.
LEMMA MainQuiet ==
  ASSUME Next, ~ MainLoop
  PROVE  UNCHANGED <<main, local, msg>>
<1> USE DEF mainVars
<1>1. CASE LookFull \/ LeaveFull \/ HandlerStep
  BY <1>1 DEF LookFull, LeaveFull, HandlerStep, SetReadBit, Push, NotifyMain,
              LeaveLoop, NotifyStopped
<1>2. CASE \E s \in Sessions : Arrive(s) \/ Written(s)
  BY <1>2 DEF Arrive, Written
<1>3. CASE \E c \in Posts : Executor(c)
  BY <1>3 DEF Executor, ExecutorEnds, ExecutorSignals, ExecutorNotifies
<1>4. CASE Terminate \/ NotifyTerminate \/ Stop
  BY <1>4 DEF Terminate, NotifyTerminate, Stop
<1> QED
  BY <1>1, <1>2, <1>3, <1>4 DEF Next

\* The main thread goes from one of its places to another.
LEMMA MainTypesStep == MainTypes /\ SharedTypes /\ Next => MainTypes'
<1> SUFFICES ASSUME MainTypes, SharedTypes, Next PROVE MainTypes'
  OBVIOUS
<1>1. CASE ~ MainLoop
  BY <1>1, MainQuiet DEF MainTypes
<1>2. CASE Look
  BY <1>2 DEF Look, MainTypes
<1>3. CASE FallAsleep
  BY <1>3 DEF FallAsleep, MainTypes
<1>4. CASE WakeUp
  BY <1>4 DEF WakeUp, MainTypes
<1>5. CASE TimeOut
  BY <1>5 DEF TimeOut, MainTypes
<1>6. CASE ReadSignal
  BY <1>6 DEF ReadSignal, MainTypes, SharedTypes
<1>7. CASE ClearSignal
  BY <1>7 DEF ClearSignal, MainTypes
<1>8. CASE Pull
  <2>1. msg' \in Sessions \union {NoSession}
    BY <1>8, PushPull DEF Pull, SharedTypes
  <2>2. main' = "check" /\ local' = local
    BY <1>8 DEF Pull
  <2> QED
    BY <2>1, <2>2 DEF MainTypes
<1>9. CASE CheckTerminate
  BY <1>9 DEF CheckTerminate, MainTypes
<1>10. CASE Leave
  BY <1>10 DEF Leave, MainTypes
<1>11. CASE NothingToRoute \/ IgnoreMore \/ DropMore
  BY <1>11 DEF NothingToRoute, IgnoreMore, DropMore, MainTypes
<1>12. CASE RoutePost \/ RoutePut \/ RouteMore
  <2>1. main' = "sched" /\ UNCHANGED <<local, msg>>
    BY <1>12 DEF RoutePost, RoutePut, RouteMore
  <2> QED
    BY <2>1 DEF MainTypes
<1>13. CASE Sched
  <2>1. main' = "top" /\ UNCHANGED <<local, msg>>
    BY <1>13 DEF Sched
  <2> QED
    BY <2>1 DEF MainTypes
<1> QED
  BY <1>1, <1>2, <1>3, <1>4, <1>5, <1>6, <1>7, <1>8, <1>9, <1>10, <1>11,
     <1>12, <1>13 DEF MainLoop

\* The other steps leave the bits, the queue and the condition alone.
LEMMA SharedQuiet ==
  ASSUME Next, ~ LeaveFull, ~ SetReadBit, ~ Push, ~ NotifyMain, ~ WakeUp,
         ~ TimeOut, ~ ClearSignal, ~ Pull, ~ Terminate, ~ NotifyTerminate,
         ~ \E c \in Posts : Executor(c)
  PROVE  UNCHANGED <<signal, mq, woken>>
<1>1. CASE LookFull \/ LeaveLoop \/ NotifyStopped
  BY <1>1 DEF LookFull, LeaveLoop, NotifyStopped
<1>2. CASE Look \/ FallAsleep \/ ReadSignal \/ CheckTerminate \/ Leave
  BY <1>2 DEF Look, FallAsleep, ReadSignal, CheckTerminate, Leave
<1>3. CASE NothingToRoute \/ DropMore \/ IgnoreMore \/ Sched
  BY <1>3 DEF NothingToRoute, DropMore, IgnoreMore, Sched
<1>4. CASE RoutePost \/ RoutePut \/ RouteMore
  BY <1>4 DEF RoutePost, RoutePut, RouteMore
<1>5. CASE \E s \in Sessions : Arrive(s) \/ Written(s)
  BY <1>5 DEF Arrive, Written
<1>6. CASE Stop
  BY <1>6 DEF Stop
<1> QED
  BY <1>1, <1>2, <1>3, <1>4, <1>5, <1>6 DEF Next, HandlerStep, MainLoop

\* What the threads share keeps its type.
LEMMA SharedTypesStep ==
  SharedTypes /\ IOTypes /\ Next => SharedTypes'
<1> SUFFICES ASSUME SharedTypes, IOTypes, Next PROVE SharedTypes'
  OBVIOUS
<1>1. CASE LeaveFull
  BY <1>1 DEF LeaveFull, SharedTypes
<1>2. CASE SetReadBit
  BY <1>2 DEF SetReadBit, SharedTypes
<1>3. CASE Push
  <2>1. mq' \in Seq(Sessions)
    BY <1>3, PushPull DEF Push, SharedTypes, IOTypes
  <2>2. UNCHANGED <<signal, woken>>
    BY <1>3 DEF Push
  <2> QED
    BY <2>1, <2>2 DEF SharedTypes
<1>4. CASE NotifyMain
  BY <1>4, NotifyType DEF NotifyMain, SharedTypes
<1>5. CASE WakeUp \/ TimeOut
  BY <1>5 DEF WakeUp, TimeOut, SharedTypes
<1>6. CASE ClearSignal
  BY <1>6 DEF ClearSignal, SharedTypes
<1>7. CASE Pull
  <2>1. woken' \subseteq {"main", "io"}
    BY <1>7, NotifyType DEF Pull, SharedTypes
  <2>2. mq' \in Seq(Sessions)
    BY <1>7, PushPull DEF Pull, SharedTypes
  <2>3. signal' = signal
    BY <1>7 DEF Pull
  <2> QED
    BY <2>1, <2>2, <2>3 DEF SharedTypes
<1>8. CASE Terminate
  BY <1>8 DEF Terminate, SharedTypes
<1>9. CASE NotifyTerminate
  BY <1>9, NotifyType DEF NotifyTerminate, SharedTypes
<1>10. ASSUME NEW c \in Posts, Executor(c) PROVE SharedTypes'
  <2>1. CASE ExecutorNotifies(c)
    BY <2>1, NotifyType DEF ExecutorNotifies, SharedTypes
  <2>2. CASE ExecutorEnds(c)
    BY <2>2 DEF ExecutorEnds, SharedTypes
  <2>3. CASE ExecutorSignals(c)
    BY <2>3 DEF ExecutorSignals, SharedTypes
  <2> QED
    BY <1>10, <2>1, <2>2, <2>3 DEF Executor
<1>11. CASE UNCHANGED <<signal, mq, woken>>
  BY <1>11 DEF SharedTypes
<1> QED
  BY <1>1, <1>2, <1>3, <1>4, <1>5, <1>6, <1>7, <1>8, <1>9, <1>10, <1>11,
     SharedQuiet

\* Most steps leave the IO thread alone.
LEMMA IOQuiet ==
  ASSUME Next, ~ LookFull, ~ LeaveFull, ~ HandlerStep,
         ~ \E s \in Sessions : Arrive(s)
  PROVE  UNCHANGED <<io, ioMsg>>
<1> USE DEF ioVars
<1>1. CASE Look \/ FallAsleep \/ WakeUp \/ TimeOut \/ ReadSignal
  BY <1>1 DEF Look, FallAsleep, WakeUp, TimeOut, ReadSignal
<1>2. CASE ClearSignal \/ Pull \/ CheckTerminate \/ Leave
  BY <1>2 DEF ClearSignal, Pull, CheckTerminate, Leave
<1>3. CASE NothingToRoute \/ DropMore \/ IgnoreMore \/ Sched
  BY <1>3 DEF NothingToRoute, DropMore, IgnoreMore, Sched
<1>4. CASE RoutePost \/ RoutePut \/ RouteMore
  BY <1>4 DEF RoutePost, RoutePut, RouteMore
<1>5. CASE \E s \in Sessions : Written(s)
  BY <1>5 DEF Written
<1>6. CASE \E c \in Posts : Executor(c)
  BY <1>6 DEF Executor, ExecutorEnds, ExecutorSignals, ExecutorNotifies
<1>7. CASE Terminate \/ NotifyTerminate \/ Stop
  BY <1>7 DEF Terminate, NotifyTerminate, Stop
<1> QED
  BY <1>1, <1>2, <1>3, <1>4, <1>5, <1>6, <1>7 DEF Next, MainLoop

\* The IO thread has a message in hand until it has pushed it.
LEMMA IOTypesStep == IOTypes /\ Next => IOTypes'
<1> SUFFICES ASSUME IOTypes, Next PROVE IOTypes'
  OBVIOUS
<1>1. CASE LookFull
  BY <1>1 DEF LookFull, IOTypes
<1>2. CASE LeaveFull
  <2>1. io = "full" /\ io' \in {"full", "flag"} /\ ioMsg' = ioMsg
    BY <1>2 DEF LeaveFull
  <2> QED
    BY <2>1 DEF IOTypes
<1>3. CASE SetReadBit
  BY <1>3 DEF SetReadBit, IOTypes
<1>4. CASE Push
  <2>1. io' = "notify" /\ ioMsg' = ioMsg
    BY <1>4 DEF Push
  <2> QED
    BY <2>1 DEF IOTypes
<1>5. CASE NotifyMain
  <2>1. io' = "poll" /\ ioMsg' = NoSession
    BY <1>5 DEF NotifyMain
  <2> QED
    BY <2>1 DEF IOTypes
<1>6. CASE LeaveLoop \/ NotifyStopped
  <2>1. io' \in {"stopping", "exited"} /\ ioMsg' = ioMsg
    BY <1>6 DEF LeaveLoop, NotifyStopped
  <2> QED
    BY <2>1 DEF IOTypes
<1>7. ASSUME NEW s \in Sessions, Arrive(s) PROVE IOTypes'
  <2>1. io' = "arrived" /\ ioMsg' = s
    BY <1>7 DEF Arrive
  <2> QED
    BY <2>1 DEF IOTypes
<1>8. CASE UNCHANGED <<io, ioMsg>>
  BY <1>8 DEF IOTypes
<1> QED
  BY <1>1, <1>2, <1>3, <1>4, <1>5, <1>6, <1>7, <1>8, IOQuiet DEF HandlerStep

\* Most steps leave the thread of main() alone.
LEMMA ProcQuiet ==
  ASSUME Next, ~ LeaveLoop, ~ NotifyStopped, ~ CheckTerminate, ~ Leave,
         ~ Terminate, ~ NotifyTerminate, ~ Stop
  PROVE  UNCHANGED <<proc, destruct, stopped>>
<1> USE DEF procVars
<1>1. CASE LookFull \/ LeaveFull \/ SetReadBit \/ Push \/ NotifyMain
  BY <1>1 DEF LookFull, LeaveFull, SetReadBit, Push, NotifyMain
<1>2. CASE Look \/ FallAsleep \/ WakeUp \/ TimeOut
  BY <1>2 DEF Look, FallAsleep, WakeUp, TimeOut
<1>3. CASE ReadSignal \/ ClearSignal \/ Pull
  BY <1>3 DEF ReadSignal, ClearSignal, Pull
<1>4. CASE NothingToRoute \/ DropMore \/ IgnoreMore \/ Sched
  BY <1>4 DEF NothingToRoute, DropMore, IgnoreMore, Sched
<1>5. CASE RoutePost \/ RoutePut \/ RouteMore
  BY <1>5 DEF RoutePost, RoutePut, RouteMore
<1>6. CASE \E s \in Sessions : Arrive(s) \/ Written(s)
  BY <1>6 DEF Arrive, Written
<1>7. CASE \E c \in Posts : Executor(c)
  BY <1>7 DEF Executor, ExecutorEnds, ExecutorSignals, ExecutorNotifies
<1> QED
  BY <1>1, <1>2, <1>3, <1>4, <1>5, <1>6, <1>7 DEF Next, HandlerStep, MainLoop

\* The thread of main() goes from one of its places to another.
LEMMA ProcTypesStep == ProcTypes /\ Next => ProcTypes'
<1> SUFFICES ASSUME ProcTypes, Next PROVE ProcTypes'
  OBVIOUS
<1>1. CASE LeaveLoop
  BY <1>1 DEF LeaveLoop, ProcTypes
<1>2. CASE NotifyStopped
  BY <1>2 DEF NotifyStopped, ProcTypes
<1>3. CASE CheckTerminate
  BY <1>3 DEF CheckTerminate, ProcTypes
<1>4. CASE Leave
  BY <1>4 DEF Leave, ProcTypes
<1>5. CASE Terminate
  BY <1>5 DEF Terminate, ProcTypes
<1>6. CASE NotifyTerminate
  BY <1>6 DEF NotifyTerminate, ProcTypes
<1>7. CASE Stop
  <2>1. proc' \in {"join", "sleepy", "asleep", "destroyed", "join_sleepy",
                   "join_asleep"}
    BY <1>7 DEF Stop, StopStep
  <2>2. UNCHANGED <<destruct, stopped>>
    BY <1>7 DEF Stop
  <2> QED
    BY <2>1, <2>2 DEF ProcTypes
<1>8. CASE UNCHANGED <<proc, destruct, stopped>>
  BY <1>8 DEF ProcTypes
<1> QED
  BY <1>1, <1>2, <1>3, <1>4, <1>5, <1>6, <1>7, <1>8, ProcQuiet

\* No step takes the state of a thread out of its type.
LEMMA ThreadTypesStep == ThreadTypes /\ Next => ThreadTypes'
  BY MainTypesStep, SharedTypesStep, IOTypesStep, ProcTypesStep
  DEF ThreadTypes

\* Most steps leave the streams alone.
LEMMA PartsQuiet ==
  ASSUME Next, ~ \E s \in Sessions : Arrive(s),
         ~ RoutePost, ~ RoutePut, ~ RouteMore
  PROVE  UNCHANGED <<arrived, stream, got>>
<1> USE DEF sessionVars
<1>1. CASE LookFull \/ LeaveFull \/ HandlerStep
  BY <1>1 DEF LookFull, LeaveFull, HandlerStep, SetReadBit, Push, NotifyMain,
              LeaveLoop, NotifyStopped
<1>2. CASE MainLoop
  BY <1>2 DEF MainLoop, Look, FallAsleep, WakeUp, TimeOut, ReadSignal,
              ClearSignal, Pull, CheckTerminate, Leave, NothingToRoute,
              DropMore, IgnoreMore, Sched
<1>3. CASE \E s \in Sessions : Written(s)
  BY <1>3 DEF Written
<1>4. CASE \E c \in Posts : Executor(c)
  BY <1>4 DEF Executor, ExecutorEnds, ExecutorSignals, ExecutorNotifies
<1>5. CASE Terminate \/ NotifyTerminate \/ Stop
  BY <1>5 DEF Terminate, NotifyTerminate, Stop
<1> QED
  BY <1>1, <1>2, <1>3, <1>4, <1>5 DEF Next

\* A read moves what is in a stream to what was got.
LEMMA ReadParts ==
  ASSUME PartTypes, NEW s \in Sessions, Read(s), arrived' = arrived
  PROVE  PartTypes'
<1>1. stream' \in [Sessions -> Nat] /\ got' \in [Sessions -> Nat]
  BY DEF PartTypes, Read
<1>2. ASSUME NEW r \in Sessions
      PROVE  got'[r] + stream'[r] = arrived'[r] /\ arrived'[r] <= Parts[r]
  <2>1. got[r] \in Nat /\ stream[r] \in Nat /\ arrived[r] \in Nat
    BY DEF PartTypes
  <2>2. got'[r] = (IF r = s THEN got[r] + stream[r] ELSE got[r])
    BY DEF PartTypes, Read
  <2>3. stream'[r] = (IF r = s THEN 0 ELSE stream[r])
    BY DEF PartTypes, Read
  <2> QED
    BY <2>1, <2>2, <2>3 DEF PartTypes
<1> QED
  BY <1>1, <1>2 DEF PartTypes

\* No part is lost or made up.
LEMMA PartTypesStep == ThreadTypes /\ PartTypes /\ Next => PartTypes'
<1> SUFFICES ASSUME ThreadTypes, PartTypes, Next PROVE PartTypes'
  OBVIOUS
<1>1. ASSUME NEW s \in Sessions, Arrive(s) PROVE PartTypes'
  <2>1. /\ arrived' \in [Sessions -> Nat]
        /\ stream' \in [Sessions -> Nat]
        /\ got' = got
    BY <1>1 DEF Arrive, PartTypes
  <2>2. ASSUME NEW r \in Sessions
        PROVE  got'[r] + stream'[r] = arrived'[r] /\ arrived'[r] <= Parts[r]
    <3>1. /\ got[r] \in Nat /\ stream[r] \in Nat /\ arrived[r] \in Nat
          /\ Parts[r] \in Nat
      BY SessionAssumption DEF PartTypes
    <3>2. stream'[r] = (IF r = s THEN stream[r] + 1 ELSE stream[r])
      BY <1>1 DEF Arrive, PartTypes
    <3>3. arrived'[r] = (IF r = s THEN arrived[r] + 1 ELSE arrived[r])
      BY <1>1 DEF Arrive, PartTypes
    <3>4. arrived[s] < Parts[s]
      BY <1>1 DEF Arrive
    <3> QED
      BY <2>1, <3>1, <3>2, <3>3, <3>4 DEF PartTypes
  <2> QED
    BY <2>1, <2>2 DEF PartTypes
<1>2. CASE RoutePost \/ RoutePut \/ RouteMore
  <2>1. msg \in Sessions /\ Read(msg) /\ arrived' = arrived
    BY <1>2 DEF RoutePost, RoutePut, RouteMore, Sessions
  <2> QED
    BY <2>1, ReadParts
<1>3. CASE UNCHANGED <<arrived, stream, got>>
  BY <1>3 DEF PartTypes
<1> QED
  BY <1>1, <1>2, <1>3, PartsQuiet

\* Most steps leave the requests alone.
LEMMA RequestsQuiet ==
  ASSUME Next, ~ \E s \in Sessions : Written(s), ~ RoutePost, ~ RoutePut,
         ~ DropMore, ~ Sched, ~ \E c \in Posts : Executor(c)
  PROVE  UNCHANGED <<http, dropped, ctxs, exe>>
<1> USE DEF sessionVars, mainVars
<1>1. CASE LookFull \/ LeaveFull \/ HandlerStep
  BY <1>1 DEF LookFull, LeaveFull, HandlerStep, SetReadBit, Push, NotifyMain,
              LeaveLoop, NotifyStopped
<1>2. CASE MainLoop
  BY <1>2 DEF MainLoop, Look, FallAsleep, WakeUp, TimeOut, ReadSignal,
              ClearSignal, Pull, CheckTerminate, Leave, NothingToRoute,
              RouteMore, IgnoreMore
<1>3. CASE \E s \in Sessions : Arrive(s)
  BY <1>3 DEF Arrive
<1>4. CASE Terminate \/ NotifyTerminate \/ Stop
  BY <1>4 DEF Terminate, NotifyTerminate, Stop
<1> QED
  BY <1>1, <1>2, <1>3, <1>4 DEF Next

\* The streams of peers are those of puts.
LEMMA RequestTypesStep == RequestTypes /\ Next => RequestTypes'
<1> SUFFICES ASSUME RequestTypes, Next PROVE RequestTypes'
  OBVIOUS
<1> USE DEF RequestTypes, Sessions
<1>1. ASSUME NEW s \in Sessions, Written(s) PROVE RequestTypes'
  BY <1>1, Zenon DEF Written, mainVars
<1>2. CASE RoutePost
  BY <1>2 DEF RoutePost
<1>3. CASE RoutePut
  BY <1>3 DEF RoutePut
<1>4. CASE DropMore
  BY <1>4 DEF DropMore
<1>5. CASE Sched
  BY <1>5 DEF Sched
<1>6. ASSUME NEW c \in Posts, Executor(c) PROVE RequestTypes'
  BY <1>6 DEF Executor, ExecutorEnds, ExecutorSignals, ExecutorNotifies,
              sessionVars, mainVars
<1>7. CASE UNCHANGED <<http, dropped, ctxs, exe>>
  BY <1>7
<1> QED
  BY <1>1, <1>2, <1>3, <1>4, <1>5, <1>6, <1>7, RequestsQuiet

LEMMA TypeStep == TypeOK /\ Next => TypeOK'
  BY ThreadTypesStep, PartTypesStep, RequestTypesStep DEF TypeOK

-----------------------------------------------------------------------------
(* The queue.                                                              *)

\* Only the IO thread pushes, so what it saw of the length still holds.
LEMMA RoomStep == ThreadTypes /\ RoomForOne /\ Next => RoomForOne'
<1> SUFFICES ASSUME ThreadTypes, RoomForOne, Next PROVE RoomForOne'
  OBVIOUS
<1>0. mq \in Seq(Sessions) /\ Len(mq) \in Nat
  BY LenProperties DEF ThreadTypes, SharedTypes
<1> USE QueueAssumption DEF RoomForOne
<1>1. CASE LookFull \/ LeaveFull
  BY <1>0, <1>1 DEF LookFull, LeaveFull, Full
<1>2. CASE Push
  <2>1. mq' = Append(mq, ioMsg) /\ io = "push" /\ io' = "notify"
        /\ ioMsg \in Sessions
    BY <1>2 DEF Push, ThreadTypes, SharedTypes, IOTypes
  <2>2. Len(mq') = Len(mq) + 1
    BY <1>0, <2>1, PushPull
  <2> QED
    BY <1>0, <2>1, <2>2
<1>3. CASE SetReadBit \/ NotifyMain \/ LeaveLoop \/ NotifyStopped
  BY <1>3 DEF SetReadBit, NotifyMain, LeaveLoop, NotifyStopped
<1>4. CASE Pull
  <2>1. io' = io /\ (mq' = mq \/ (mq # <<>> /\ mq' = Tail(mq)))
    BY <1>4 DEF Pull, ioVars
  <2>2. CASE mq # <<>> /\ mq' = Tail(mq)
    <3>1. Len(mq') = Len(mq) - 1
      BY <1>0, <2>2, PushPull
    <3> QED
      BY <1>0, <2>1, <3>1
  <2> QED
    BY <2>1, <2>2
<1>5. CASE MainLoop /\ ~ Pull
  BY <1>5 DEF MainLoop, Look, FallAsleep, WakeUp, TimeOut, ReadSignal,
              ClearSignal, CheckTerminate, Leave, NothingToRoute, RoutePost,
              RoutePut, RouteMore, DropMore, IgnoreMore, Sched, ioVars
<1>6. CASE \E s \in Sessions : Arrive(s) \/ Written(s)
  BY <1>6 DEF Arrive, Written, ioVars
<1>7. CASE \E c \in Posts : Executor(c)
  BY <1>7 DEF Executor, ExecutorEnds, ExecutorSignals, ExecutorNotifies,
              ioVars
<1>8. CASE Terminate \/ NotifyTerminate \/ Stop
  BY <1>8 DEF Terminate, NotifyTerminate, Stop, ioVars
<1> QED
  BY <1>1, <1>2, <1>3, <1>4, <1>5, <1>6, <1>7, <1>8 DEF Next, HandlerStep

-----------------------------------------------------------------------------
(* The order of destruction.                                               *)

LEMMA FlagsStep == FlagsMeanLeft /\ Next => FlagsMeanLeft'
<1> SUFFICES ASSUME FlagsMeanLeft, Next PROVE FlagsMeanLeft'
  OBVIOUS
<1> USE DEF FlagsMeanLeft, procVars, mainVars, ioVars
<1>1. CASE LookFull \/ LeaveFull \/ HandlerStep
  BY <1>1 DEF LookFull, LeaveFull, HandlerStep, SetReadBit, Push, NotifyMain,
              LeaveLoop, NotifyStopped
<1>2. CASE Look \/ FallAsleep \/ WakeUp \/ TimeOut \/ ReadSignal
           \/ ClearSignal \/ Pull
  BY <1>2 DEF Look, FallAsleep, WakeUp, TimeOut, ReadSignal, ClearSignal, Pull
<1>3. CASE CheckTerminate \/ Leave
  <2>1. CASE CheckTerminate
    <3>1. /\ main = "check" /\ main' \in {"leaving", "route"}
          /\ destruct' => destruct \/ main' = "leaving"
          /\ destruct => destruct'
          /\ UNCHANGED <<io, proc, stopped>>
      BY <2>1 DEF CheckTerminate
    <3> QED
      BY <3>1
  <2>2. CASE Leave
    BY <2>2 DEF Leave
  <2> QED
    BY <1>3, <2>1, <2>2
<1>4. CASE NothingToRoute \/ RoutePost \/ RoutePut \/ RouteMore \/ DropMore
           \/ IgnoreMore \/ Sched
  BY <1>4 DEF NothingToRoute, RoutePost, RoutePut, RouteMore, DropMore,
              IgnoreMore, Sched
<1>5. ASSUME NEW s \in Sessions, Arrive(s) \/ Written(s)
      PROVE  FlagsMeanLeft'
  <2>1. CASE Arrive(s)
    <3>1. /\ io = "poll" /\ io' = "arrived"
          /\ UNCHANGED <<main, destruct, stopped, proc>>
      BY <2>1 DEF Arrive, Polling
    <3> QED
      BY <3>1
  <2>2. CASE Written(s)
    BY <2>2 DEF Written
  <2> QED
    BY <1>5, <2>1, <2>2
<1>6. CASE \E c \in Posts : Executor(c)
  BY <1>6 DEF Executor, ExecutorEnds, ExecutorSignals, ExecutorNotifies
<1>7. CASE Terminate \/ NotifyTerminate
  BY <1>7 DEF Terminate, NotifyTerminate
<1>8. CASE Stop
  <2>1. UNCHANGED <<main, io, destruct, stopped>>
    BY <1>8 DEF Stop
  <2>2. /\ proc' \in {"join", "join_sleepy", "join_asleep", "destroyed"} => destruct
        /\ proc' = "destroyed" => stopped
    BY <1>8 DEF Stop, StopStep, WaitFor
  <2> QED
    BY <2>1, <2>2
<1> QED
  BY <1>1, <1>2, <1>3, <1>4, <1>5, <1>6, <1>7, <1>8 DEF Next, MainLoop

-----------------------------------------------------------------------------
(* Contexts and their ends.                                                *)

\* A post waits for its response as long as its context lives.
LEMMA ReadingStep ==
  RequestTypes /\ ContextIsReading /\ Next => ContextIsReading'
<1> SUFFICES ASSUME RequestTypes, ContextIsReading, Next
             PROVE  ContextIsReading'
  OBVIOUS
<1> USE DEF ContextIsReading, RequestTypes
<1>1. ASSUME NEW s \in Sessions, Written(s) PROVE ContextIsReading'
  BY <1>1 DEF Written, mainVars, Sessions
<1>2. CASE RoutePost
  BY <1>2 DEF RoutePost, Sessions
<1>3. CASE RoutePut
  BY <1>3, SessionAssumption DEF RoutePut, Sessions
<1>4. CASE DropMore
  BY <1>4 DEF DropMore
<1>5. CASE Sched
  <2>1. PICK over : /\ ctxs' = ctxs \ over
                    /\ http' = [s \in Sessions |->
                         IF s \in over THEN "answered"
                         ELSE IF http[s] = "streaming" /\ Of[s] \in over
                              THEN "finished"
                         ELSE http[s]]
    BY <1>5 DEF Sched
  <2>2. ASSUME NEW c \in ctxs' PROVE http'[c] = "reading"
    BY <2>1, <2>2 DEF Sessions
  <2> QED
    BY <2>2
<1>6. ASSUME NEW c \in Posts, Executor(c) PROVE ContextIsReading'
  BY <1>6 DEF Executor, ExecutorEnds, ExecutorSignals, ExecutorNotifies,
              sessionVars, mainVars
<1>7. CASE UNCHANGED <<http, dropped, ctxs, exe>>
  BY <1>7
<1> QED
  BY <1>1, <1>2, <1>3, <1>4, <1>5, <1>6, <1>7, RequestsQuiet

\* The bit is set after the executor has stopped and cleared only when read.
LEMMA EndStep == RequestTypes /\ EndNotLost /\ Next => EndNotLost'
<1> SUFFICES ASSUME RequestTypes, EndNotLost, Next PROVE EndNotLost'
  OBVIOUS
<1> USE DEF EndNotLost, mainVars
<1>1. CASE LookFull \/ LeaveFull \/ HandlerStep
  BY <1>1 DEF LookFull, LeaveFull, HandlerStep, SetReadBit, Push, NotifyMain,
              LeaveLoop, NotifyStopped
<1>2. CASE Look \/ FallAsleep \/ WakeUp \/ TimeOut
  BY <1>2 DEF Look, FallAsleep, WakeUp, TimeOut
<1>3. CASE ReadSignal
  BY <1>3 DEF ReadSignal
<1>4. CASE ClearSignal
  BY <1>4 DEF ClearSignal
<1>5. CASE Pull
  BY <1>5 DEF Pull
<1>6. CASE CheckTerminate
  <2>1. /\ UNCHANGED <<ctxs, exe, signal, local>>
        /\ main' = "route" \/ ctxs = {}
    BY <1>6 DEF CheckTerminate, Idle
  <2> QED
    BY <2>1
<1>7. CASE Leave
  BY <1>7 DEF Leave
<1>8. CASE NothingToRoute \/ RoutePut \/ RouteMore \/ DropMore \/ IgnoreMore
  BY <1>8 DEF NothingToRoute, RoutePut, RouteMore, DropMore, IgnoreMore,
              sessionVars
<1>9. CASE RoutePost
  <2>1. /\ UNCHANGED <<signal, local>> /\ main' = "sched" /\ main = "route"
        /\ \/ UNCHANGED <<ctxs, exe>>
           \/ /\ ctxs' = ctxs \union {msg}
              /\ exe' = [exe EXCEPT ![msg] = "run"]
    BY <1>9 DEF RoutePost
  <2>2. ASSUME NEW c \in ctxs', exe'[c] \in {"signalled", "done"}
        PROVE  c \in ctxs /\ exe[c] \in {"signalled", "done"}
    BY <2>1, <2>2, <1>9 DEF RequestTypes, RoutePost
  <2> QED
    BY <2>1, <2>2
<1>10. CASE Sched
  <2>1. /\ UNCHANGED <<signal, local, exe>>
        /\ ctxs' = ctxs \ (IF "end" \in local THEN StoppedContexts ELSE {})
    BY <1>10 DEF Sched
  <2> QED
    BY <2>1 DEF StoppedContexts
<1>11. CASE \E s \in Sessions : Arrive(s) \/ Written(s)
  BY <1>11 DEF Arrive, Written
<1>12. ASSUME NEW c \in Posts, Executor(c) PROVE EndNotLost'
  <2>1. CASE ExecutorEnds(c)
    BY <2>1 DEF ExecutorEnds, RequestTypes
  <2>2. CASE ExecutorSignals(c)
    BY <2>2 DEF ExecutorSignals
  <2>3. CASE ExecutorNotifies(c)
    BY <2>3 DEF ExecutorNotifies, RequestTypes
  <2> QED
    BY <1>12, <2>1, <2>2, <2>3 DEF Executor
<1>13. CASE Terminate \/ NotifyTerminate \/ Stop
  BY <1>13 DEF Terminate, NotifyTerminate, Stop
<1> QED
  BY <1>1, <1>2, <1>3, <1>4, <1>5, <1>6, <1>7, <1>8, <1>9, <1>10, <1>11,
     <1>12, <1>13 DEF Next, MainLoop

-----------------------------------------------------------------------------
(* Data and messages.                                                      *)

\* A step that leaves the streams alone and takes no message off its way.
LEMMA StillOnItsWay ==
  ASSUME DataHasMessage, stream' = stream, dropped \subseteq dropped',
         \A s \in Sessions :
           /\ http[s] = "closed" => http'[s] = "closed"
           /\ main \in {"leaving", "exited"} => main' \in {"leaving", "exited"}
           /\ OnItsWay(s) => \/ OnItsWay(s)'
                             \/ s \in dropped' \/ http'[s] = "closed"
                             \/ main' \in {"leaving", "exited"}
                             \/ stream[s] = 0
  PROVE  DataHasMessage'
<1> SUFFICES ASSUME NEW s \in Sessions, stream'[s] > 0
             PROVE  \/ OnItsWay(s)'
                    \/ s \in dropped' \/ http'[s] = "closed"
                    \/ main' \in {"leaving", "exited"}
  BY DEF DataHasMessage
<1>1. stream[s] > 0 /\ stream[s] # 0
  OBVIOUS
<1> QED
  BY <1>1 DEF DataHasMessage

\* A step of the main thread that reads the message's session.
LEMMA ReadData ==
  ASSUME PartTypes, DataHasMessage, msg \in Sessions, Read(msg),
         main = "route",
         UNCHANGED <<msg, mq, ioVars, dropped>>,
         \A s \in Sessions : s # msg => http'[s] = http[s]
  PROVE  DataHasMessage'
<1> SUFFICES ASSUME NEW s \in Sessions, stream'[s] > 0
             PROVE  \/ OnItsWay(s)'
                    \/ s \in dropped' \/ http'[s] = "closed"
                    \/ main' \in {"leaving", "exited"}
  BY DEF DataHasMessage
<1>1. stream'[s] = (IF s = msg THEN 0 ELSE stream[s])
  BY DEF Read, PartTypes
<1>2. s # msg /\ stream[s] > 0
  BY <1>1
<1> QED
  BY <1>2 DEF DataHasMessage, OnItsWay, Queued, ioVars

\* The stream is written before its message is queued, and read whole.
LEMMA DataStep ==
  TypeOK /\ ContextIsReading /\ DataHasMessage /\ Next => DataHasMessage'
<1> SUFFICES ASSUME TypeOK, ContextIsReading, DataHasMessage, Next
             PROVE  DataHasMessage'
  OBVIOUS
<1>1. ASSUME NEW s \in Sessions, Arrive(s) PROVE DataHasMessage'
  <2>1. /\ io = "poll" /\ io' = "arrived" /\ ioMsg' = s
        /\ UNCHANGED <<main, msg, mq, http, dropped>>
    BY <1>1 DEF Arrive, Polling, mainVars
  <2>2. ASSUME NEW r \in Sessions, r # s PROVE stream'[r] = stream[r]
    BY <1>1, <2>2 DEF Arrive, TypeOK, PartTypes
  <2>3. ASSUME NEW r \in Sessions, stream'[r] > 0
        PROVE  \/ OnItsWay(r)'
               \/ r \in dropped' \/ http'[r] = "closed"
               \/ main' \in {"leaving", "exited"}
    <3>1. CASE r = s
      BY <2>1, <3>1 DEF OnItsWay
    <3>2. CASE r # s
      BY <2>1, <2>2, <2>3, <3>2 DEF OnItsWay, DataHasMessage, Queued
    <3> QED
      BY <3>1, <3>2
  <2> QED
    BY <2>3 DEF DataHasMessage
<1>2. CASE LookFull \/ LeaveFull \/ SetReadBit \/ NotifyMain \/ LeaveLoop
           \/ NotifyStopped
  <2>1. /\ UNCHANGED <<main, msg, mq, stream, http, dropped>>
        /\ \/ /\ io \in {"arrived", "full", "flag", "push"}
              /\ io' \in {"arrived", "full", "flag", "push"} /\ ioMsg' = ioMsg
           \/ io \notin {"arrived", "full", "flag", "push"}
    BY <1>2 DEF LookFull, LeaveFull, SetReadBit, NotifyMain, LeaveLoop,
                NotifyStopped, mainVars, sessionVars
  <2> QED
    BY <2>1, StillOnItsWay DEF OnItsWay, Queued
<1>3. CASE Push
  <2>1. /\ UNCHANGED <<main, msg, ioMsg, stream, http, dropped>>
        /\ mq' = Append(mq, ioMsg) /\ ioMsg \in Sessions
        /\ mq \in Seq(Sessions)
    BY <1>3 DEF Push, mainVars, sessionVars, TypeOK, ThreadTypes, SharedTypes,
       IOTypes
  <2>2. Queued' = Queued \union {ioMsg}
    BY <2>1, PushPull DEF Queued
  <2> QED
    BY <2>1, <2>2, StillOnItsWay DEF OnItsWay
<1>4. CASE Pull
  <2>1. /\ UNCHANGED <<io, ioMsg, stream, http, dropped>>
        /\ main = "pull" /\ main' = "check" /\ mq \in Seq(Sessions)
        /\ \/ mq' = mq
           \/ mq # <<>> /\ mq' = Tail(mq) /\ msg' = Head(mq)
    BY <1>4 DEF Pull, ioVars, sessionVars, TypeOK, ThreadTypes,
       SharedTypes
  <2>2. Queued \subseteq Queued' \union {msg'}
    <3>1. CASE mq' = mq
      BY <3>1 DEF Queued
    <3>2. CASE mq # <<>> /\ mq' = Tail(mq) /\ msg' = Head(mq)
      <4>1. {mq[i] : i \in DOMAIN mq}
              \subseteq {Tail(mq)[i] : i \in DOMAIN Tail(mq)} \union {Head(mq)}
        BY <2>1, <3>2, PushPull
      <4> QED
        BY <3>2, <4>1 DEF Queued
    <3> QED
      BY <2>1, <3>1, <3>2
  <2> QED
    BY <2>1, <2>2, StillOnItsWay DEF OnItsWay
<1>5. CASE Look \/ FallAsleep \/ WakeUp \/ TimeOut \/ ReadSignal
           \/ ClearSignal \/ CheckTerminate \/ Leave
  <2>1. /\ UNCHANGED <<msg, mq, io, ioMsg, stream, http, dropped>>
        /\ main \notin {"leaving", "exited"} \/ main' = "exited"
        /\ main \in {"check", "route"} => main' \in {"route", "leaving"}
    BY <1>5 DEF Look, FallAsleep, WakeUp, TimeOut, ReadSignal, ClearSignal,
                CheckTerminate, Leave, ioVars, sessionVars
  <2> QED
    BY <2>1, StillOnItsWay DEF OnItsWay, Queued
<1>6. CASE NothingToRoute \/ IgnoreMore \/ DropMore
  <2>1. /\ UNCHANGED <<msg, mq, io, ioMsg, stream, http>>
        /\ main = "route" /\ main' = "sched" /\ dropped \subseteq dropped'
        /\ \/ msg \notin Sessions
           \/ http[msg] = "closed"
           \/ ~ stream[msg] > 0 \/ msg \in dropped'
    BY <1>6, SessionAssumption DEF NothingToRoute, IgnoreMore, DropMore, ioVars,
                sessionVars
  <2>2. \A s \in Sessions : stream[s] \in Nat
    BY DEF TypeOK, PartTypes
  <2> QED
    BY <2>1, <2>2, StillOnItsWay DEF OnItsWay, Queued
<1>7. CASE RoutePost \/ RoutePut \/ RouteMore
  <2>1. /\ msg \in Sessions /\ Read(msg) /\ main = "route"
        /\ UNCHANGED <<msg, mq, ioVars, dropped>>
    BY <1>7 DEF RoutePost, RoutePut, RouteMore, Sessions
  <2>2. \A s \in Sessions : s # msg => http'[s] = http[s]
    BY <1>7 DEF RoutePost, RoutePut, RouteMore, TypeOK, RequestTypes
  <2> QED
    BY <2>1, <2>2, ReadData DEF TypeOK
<1>8. CASE Sched
  <2>1. UNCHANGED <<msg, mq, io, ioMsg, stream, dropped>>
        /\ main = "sched" /\ main' = "top"
    BY <1>8 DEF Sched, ioVars
  <2>2. ASSUME NEW s \in Sessions, http[s] = "closed"
        PROVE  http'[s] = "closed"
    <3>1. s \notin ctxs
      BY <2>2 DEF ContextIsReading
    <3> QED
      BY <1>8, <2>2, <3>1 DEF Sched, StoppedContexts
  <2> QED
    BY <2>1, <2>2, StillOnItsWay DEF OnItsWay, Queued
<1>9. ASSUME NEW s \in Sessions, Written(s) PROVE DataHasMessage'
  <2>1. UNCHANGED <<main, msg, mq, io, ioMsg, stream, dropped>>
    BY <1>9 DEF Written, ioVars, mainVars
  <2>2. \A r \in Sessions : http[r] = "closed" => http'[r] = "closed"
    BY <1>9 DEF Written, TypeOK, RequestTypes
  <2> QED
    BY <2>1, <2>2, StillOnItsWay DEF OnItsWay, Queued
<1>10. CASE (\E c \in Posts : Executor(c)) \/ Terminate \/ NotifyTerminate
            \/ Stop
  <2>1. UNCHANGED <<main, msg, mq, io, ioMsg, stream, http, dropped>>
    BY <1>10 DEF Executor, ExecutorEnds, ExecutorSignals, ExecutorNotifies,
                 Terminate, NotifyTerminate, Stop, ioVars, mainVars,
                 sessionVars
  <2> QED
    BY <2>1, StillOnItsWay DEF OnItsWay, Queued
<1> QED
  BY <1>1, <1>2, <1>3, <1>4, <1>5, <1>6, <1>7, <1>8, <1>9, <1>10
     DEF Next, HandlerStep, MainLoop

-----------------------------------------------------------------------------
(* The theorems.                                                           *)

LEMMA NextIInv == IInv /\ [Next]_vars => IInv'
<1> SUFFICES ASSUME IInv, [Next]_vars PROVE IInv'
  OBVIOUS
<1>1. CASE Next
  BY <1>1, TypeStep, RoomStep, FlagsStep, ReadingStep, EndStep, DataStep
     DEF IInv, TypeOK
<1>2. CASE UNCHANGED vars
  <2> USE <1>2 DEF vars, mainVars, ioVars, sessionVars, procVars
  <2>1. ThreadTypes' /\ PartTypes' /\ RequestTypes'
    BY DEF IInv, TypeOK, ThreadTypes, MainTypes, SharedTypes, IOTypes,
       ProcTypes, PartTypes, RequestTypes
  <2>2. RoomForOne' /\ FlagsMeanLeft' /\ ContextIsReading'
    BY DEF IInv, RoomForOne, FlagsMeanLeft, ContextIsReading
  <2>3. EndNotLost' /\ DataHasMessage'
    BY DEF IInv, EndNotLost, DataHasMessage, OnItsWay, Queued
  <2> QED
    BY <2>1, <2>2, <2>3 DEF IInv, TypeOK
<1> QED
  BY <1>1, <1>2

LEMMA Invariance == Spec => []IInv
  BY InitIInv, NextIInv, PTL DEF Spec

\* Every variable keeps its type; the parts read and the parts still in the
\* stream of a session are the parts received (controller-io.cpp:167,
\* http-session.cpp:14-16).
THEOREM TypeCorrect == Spec => []TypeOK
<1>1. IInv => TypeOK
  BY DEF IInv
<1> QED
  BY Invariance, <1>1, PTL

\* The queue never holds more than MAX_QUEUE_LENGTH messages, although the IO
\* thread releases the mutex between the test and the push
\* (controller-io.cpp:170-177).
THEOREM QueueIsBounded == Spec => []QueueBounded
<1>1. IInv => QueueBounded
  BY DEF IInv, RoomForOne, QueueBounded
<1> QED
  BY Invariance, <1>1, PTL

\* No bytes lie in a stream without a message to come for their session,
\* unless the session was dropped or closed or the main loop has ended
\* (controller-io.cpp:167-177, controller-app.cpp:736-810).
THEOREM DataHasAMessage == Spec => []DataHasMessage
<1>1. IInv => DataHasMessage
  BY DEF IInv
<1> QED
  BY Invariance, <1>1, PTL

\* A context whose executor has announced its end is answered in this turn of
\* the loop or has its bit set for the next (controller-app.cpp:734-735, 813).
THEOREM EndIsNotLost == Spec => []EndNotLost
<1>1. IInv => EndNotLost
  BY DEF IInv
<1> QED
  BY Invariance, <1>1, PTL

\* The controller and its IO object are destroyed after both detached threads
\* have left their loops (controller-app.cpp:2080, controller-io.cpp:235).
THEOREM DestroyedIsLast == Spec => []DestroyedLast
<1>1. IInv => DestroyedLast
  BY DEF IInv, FlagsMeanLeft, DestroyedLast
<1> QED
  BY Invariance, <1>1, PTL

=============================================================================

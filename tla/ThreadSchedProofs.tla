------------------------- MODULE ThreadSchedProofs -------------------------
(***************************************************************************)
(* Proofs about ThreadSched, for any set of contexts: the deque has one    *)
(* handle per initializer at work, so asking for a time slice never        *)
(* throws; one initializer works at a time; whoever is notified may go on. *)
(***************************************************************************)
EXTENDS ThreadSched, SequenceTheorems, FiniteSetTheorems, TLAPS

-----------------------------------------------------------------------------
(* What the three operations on the deque do to it.                        *)

\* Pushing a new handle in front (thread_sched_push).
LEMMA PushProperties ==
  ASSUME NEW S, NEW s \in Seq(S), NEW x \in S,
         Distinct(s), \A i \in DOMAIN s : s[i] # x
  PROVE  /\ <<x>> \o s \in Seq(S)
         /\ Len(<<x>> \o s) = Len(s) + 1
         /\ Distinct(<<x>> \o s)
         /\ \A i \in DOMAIN (<<x>> \o s) :
              \/ (<<x>> \o s)[i] = x
              \/ \E j \in DOMAIN s : (<<x>> \o s)[i] = s[j]
<1> DEFINE r == <<x>> \o s
<1>1. /\ <<x>> \in Seq(S) /\ Len(<<x>>) = 1 /\ <<x>>[1] = x
  OBVIOUS
<1>2. /\ r \in Seq(S) /\ Len(r) = Len(s) + 1
      /\ \A i \in 1 .. Len(s) + 1 : r[i] = IF i = 1 THEN x ELSE s[i - 1]
  BY <1>1, ConcatProperties, LenProperties
<1>3. DOMAIN s = 1 .. Len(s) /\ DOMAIN r = 1 .. Len(s) + 1 /\ Len(s) \in Nat
  BY <1>2, LenProperties
<1>4. \A i \in DOMAIN r : \/ i = 1 /\ r[i] = x
                          \/ i - 1 \in DOMAIN s /\ r[i] = s[i - 1]
  BY <1>2, <1>3
<1>5. Distinct(r)
  BY <1>3, <1>4 DEF Distinct
<1> QED
  BY <1>2, <1>4, <1>5

\* Rotating the front handle to the back (thread_sched_yield(false)).
LEMMA RotateProperties ==
  ASSUME NEW S, NEW s \in Seq(S), s # <<>>, Distinct(s)
  PROVE  /\ Append(Tail(s), Head(s)) \in Seq(S)
         /\ Len(Append(Tail(s), Head(s))) = Len(s)
         /\ Distinct(Append(Tail(s), Head(s)))
         /\ \A i \in DOMAIN Append(Tail(s), Head(s)) :
              \E j \in DOMAIN s : Append(Tail(s), Head(s))[i] = s[j]
         /\ Head(s) \in S
<1> DEFINE r == Append(Tail(s), Head(s))
<1>1. /\ Head(s) \in S /\ Head(s) = s[1]
      /\ Tail(s) \in Seq(S) /\ Len(Tail(s)) = Len(s) - 1
      /\ \A i \in 1 .. Len(s) - 1 : Tail(s)[i] = s[i + 1]
  BY HeadTailProperties
<1>2. Len(s) \in Nat \ {0} /\ DOMAIN s = 1 .. Len(s)
  BY EmptySeq, LenProperties
<1> DEFINE t == Tail(s)
           x == Head(s)
<1>3. /\ r \in Seq(S) /\ Len(r) = Len(t) + 1
      /\ \A i \in 1 .. Len(t) : r[i] = t[i]
      /\ r[Len(t) + 1] = x
  <2>1. t \in Seq(S) /\ x \in S
    BY <1>1
  <2> QED
    BY <2>1, AppendProperties
<1>4. /\ Len(r) = Len(s) /\ DOMAIN r = 1 .. Len(s)
      /\ \A i \in 1 .. Len(s) - 1 : r[i] = s[i + 1]
      /\ r[Len(s)] = s[1]
  <2> HIDE DEF r
  <2>1. Len(r) = Len(s)
    BY <1>1, <1>2, <1>3
  <2>2. DOMAIN r = 1 .. Len(r)
    BY <1>3, LenProperties
  <2> QED
    BY <1>1, <1>2, <1>3, <2>1, <2>2
<1>5. \A i \in DOMAIN r : \/ i = Len(s) /\ r[i] = s[1] /\ 1 \in DOMAIN s
                          \/ i < Len(s) /\ r[i] = s[i + 1] /\ i + 1 \in DOMAIN s
  <2> HIDE DEF r
  <2> QED
    BY <1>2, <1>4
<1>6. Distinct(r)
  <2> HIDE DEF r
  <2> QED
    BY <1>2, <1>4, <1>5 DEF Distinct
<1> QED
  BY <1>1, <1>3, <1>4, <1>5, <1>6

\* Removing the front handle (thread_sched_yield(true)).
LEMMA PopProperties ==
  ASSUME NEW S, NEW s \in Seq(S), s # <<>>, Distinct(s)
  PROVE  /\ Tail(s) \in Seq(S)
         /\ Len(Tail(s)) = Len(s) - 1
         /\ Distinct(Tail(s))
         /\ \A i \in DOMAIN Tail(s) :
              \E j \in DOMAIN s : Tail(s)[i] = s[j]
         /\ Head(s) \in S
<1>1. /\ Head(s) \in S
      /\ Tail(s) \in Seq(S) /\ Len(Tail(s)) = Len(s) - 1
      /\ \A i \in 1 .. Len(s) - 1 : Tail(s)[i] = s[i + 1]
  BY HeadTailProperties
<1>2. /\ Len(s) \in Nat \ {0} /\ DOMAIN s = 1 .. Len(s)
      /\ DOMAIN Tail(s) = 1 .. Len(s) - 1
  BY <1>1, EmptySeq, LenProperties
<1>3. \A i \in DOMAIN Tail(s) : Tail(s)[i] = s[i + 1] /\ i + 1 \in DOMAIN s
  BY <1>1, <1>2
<1>4. Distinct(Tail(s))
  BY <1>2, <1>3 DEF Distinct
<1> QED
  BY <1>1, <1>3, <1>4

-----------------------------------------------------------------------------
(* The inductive invariant.                                                *)

IInv ==
  /\ TypeOK
  /\ IsFiniteSet(Live)
  /\ HandlesMatchInitializers
  /\ TimeSliceNeverThrows

LEMMA InitIInv == Init => IInv
<1> SUFFICES ASSUME Init PROVE IInv
  OBVIOUS
<1>1. handles \in Seq(Contexts) /\ Len(handles) = 0 /\ DOMAIN handles = {}
  BY EmptySeq, LenProperties DEF Init
<1>2. TypeOK
  BY <1>1 DEF Init, TypeOK, Distinct, Threads, Locations, NoHandle
<1>3. Live = {}
  BY MainAssumption DEF Init, Live, Threads
<1>4. IsFiniteSet(Live) /\ HandlesMatchInitializers
  BY <1>1, <1>3, FS_EmptySet DEF HandlesMatchInitializers
<1>5. TimeSliceNeverThrows
  BY MainAssumption DEF Init, TimeSliceNeverThrows, Threads
<1> QED
  BY <1>2, <1>4, <1>5 DEF IInv

\* A wakeup touches nothing but the set of the woken.
LEMMA NotifyType ==
  ASSUME TypeOK, NEW h, NotifyOne(h)
  PROVE  woken' \in SUBSET Threads
BY DEF TypeOK, NotifyOne, Sleepers

\* A step that changes the location of one thread only, from one at which an
\* initializer owns a handle to another, leaves Live as it is.
LEMMA GotoKeepsLive ==
  ASSUME TypeOK, NEW t \in Threads, NEW loc, Goto(t, loc),
         pc[t] \notin {"unborn", "popped", "done"},
         loc \notin {"unborn", "popped", "done"}
  PROVE  Live' = Live
BY DEF TypeOK, Goto, Live, Threads

LEMMA NextIInv == IInv /\ [Next]_vars => IInv'
<1> SUFFICES ASSUME IInv, [Next]_vars PROVE IInv'
  OBVIOUS
<1> USE DEF IInv
<1>0. /\ Len(handles) \in Nat /\ DOMAIN handles = 1 .. Len(handles)
      /\ handles = <<>> <=> Len(handles) = 0
  BY EmptySeq, LenProperties DEF TypeOK
<1>1. ASSUME NEW c \in Contexts, RunRequest(c) PROVE IInv'
  <2>1. \A i \in DOMAIN handles : handles[i] # c
    BY <1>1 DEF RunRequest, TypeOK
  <2>2. /\ handles' \in Seq(Contexts) /\ Len(handles') = Len(handles) + 1
        /\ Distinct(handles')
        /\ \A i \in DOMAIN handles' :
             \/ handles'[i] = c
             \/ \E j \in DOMAIN handles : handles'[i] = handles[j]
    BY <1>1, <2>1, PushProperties DEF RunRequest, TypeOK
  <2>3. /\ pc' \in [Threads -> Locations] /\ pc'[c] = "running"
        /\ \A d \in Contexts \ {c} : pc'[d] = pc[d]
    BY <1>1, MainAssumption DEF RunRequest, TypeOK, Threads, Locations
  <2>4. \A i \in DOMAIN handles' : pc'[handles'[i]] # "unborn"
    BY <2>1, <2>2, <2>3, <1>0, ElementOfSeq DEF TypeOK
  <2>5. \A t \in Threads : pc'[t] \in {"rotated", "waiting", "popped"}
                              => pc'[t] = pc[t]
    BY <1>1 DEF RunRequest, TypeOK
  <2>6. TypeOK'
    BY <1>1, <2>2, <2>3, <2>4, <2>5 DEF RunRequest, TypeOK
  <2>7. Live' = Live \union {c} /\ c \notin Live
    BY <1>1, <2>3 DEF RunRequest, Live
  <2>8. IsFiniteSet(Live') /\ HandlesMatchInitializers'
    BY <2>2, <2>7, FS_AddElement DEF HandlesMatchInitializers
  <2>9. TimeSliceNeverThrows'
    BY <2>3 DEF TimeSliceNeverThrows
  <2> QED
    BY <2>6, <2>8, <2>9
<1>2. ASSUME NEW c \in Contexts, TimeSlice(c) PROVE IInv'
  <2>1. c \in Live
    BY <1>2 DEF TimeSlice, Live
  <2>2. Live # {} /\ handles # <<>>
    BY <2>1, <1>0, FS_EmptySet DEF HandlesMatchInitializers
  <2>3. Goto(c, "slice") /\ c \in Threads
    BY <1>2, <2>2 DEF TimeSlice, Threads
  <2>4. TypeOK'
    BY <1>2, <2>3 DEF TimeSlice, TypeOK, Goto, Locations
  <2>5. Live' = Live
    BY <1>2, <2>3, GotoKeepsLive DEF TimeSlice
  <2>6. HandlesMatchInitializers' /\ TimeSliceNeverThrows'
    BY <1>2, <2>3, <2>5
       DEF TimeSlice, HandlesMatchInitializers, TimeSliceNeverThrows, Goto, TypeOK
  <2> QED
    BY <2>4, <2>5, <2>6
<1>3. ASSUME NEW c \in Contexts, Pop(c) PROVE IInv'
  <2>1. c \in Live /\ c \in Threads
    BY <1>3 DEF Pop, Live, Threads
  <2>2. Live # {} /\ handles # <<>>
    BY <2>1, <1>0, FS_EmptySet DEF HandlesMatchInitializers
  <2>3. /\ handles' = Tail(handles) /\ Goto(c, "popped")
        /\ held' = [held EXCEPT ![c] = Head(handles)]
        /\ UNCHANGED <<flag, saved, woken>>
    BY <1>3, <2>2 DEF Pop
  <2>4. /\ handles' \in Seq(Contexts) /\ Len(handles') = Len(handles) - 1
        /\ Distinct(handles') /\ Head(handles) \in Contexts
        /\ \A i \in DOMAIN handles' :
             \E j \in DOMAIN handles : handles'[i] = handles[j]
    BY <2>2, <2>3, PopProperties DEF TypeOK
  <2>5. /\ pc' \in [Threads -> Locations] /\ pc'[c] = "popped"
        /\ \A t \in Threads \ {c} : pc'[t] = pc[t]
    BY <2>1, <2>3 DEF Goto, TypeOK, Locations
  <2>6. \A i \in DOMAIN handles' : pc'[handles'[i]] # "unborn"
    BY <2>1, <2>4, <2>5, <1>0, ElementOfSeq DEF TypeOK, Threads
  <2>7. TypeOK'
    BY <2>1, <2>3, <2>4, <2>5, <2>6 DEF TypeOK, Threads
  <2>8. Live' = Live \ {c}
    BY <2>5 DEF Live, Threads
  <2>9. IsFiniteSet(Live') /\ HandlesMatchInitializers'
    BY <2>1, <2>4, <2>8, FS_RemoveElement DEF HandlesMatchInitializers
  <2>10. TimeSliceNeverThrows'
    BY <2>5 DEF TimeSliceNeverThrows, Threads
  <2> QED
    BY <2>7, <2>9, <2>10
<1>4. ASSUME NEW c \in Contexts, FlipAndLeave(c) PROVE IInv'
  <2>1. c \in Threads /\ held[c] \in Contexts
    BY <1>4 DEF FlipAndLeave, TypeOK, Threads
  <2>2. woken' \in SUBSET Threads
    BY <1>4, NotifyType DEF FlipAndLeave
  <2>3. /\ pc' \in [Threads -> Locations] /\ pc'[c] = "done"
        /\ \A t \in Threads \ {c} : pc'[t] = pc[t]
    BY <1>4, <2>1 DEF FlipAndLeave, Goto, TypeOK, Locations
  <2>4. \A i \in DOMAIN handles' : pc'[handles'[i]] # "unborn"
    BY <1>4, <2>3, <1>0, ElementOfSeq DEF FlipAndLeave, TypeOK, Threads
  <2>5. TypeOK'
    BY <1>4, <2>1, <2>2, <2>3, <2>4 DEF FlipAndLeave, TypeOK
  <2>6. Live' = Live
    BY <1>4, <2>3 DEF FlipAndLeave, Live, Threads
  <2>7. HandlesMatchInitializers' /\ TimeSliceNeverThrows'
    BY <1>4, <2>3, <2>6
       DEF FlipAndLeave, HandlesMatchInitializers, TimeSliceNeverThrows, Threads
  <2> QED
    BY <2>5, <2>6, <2>7
<1>5. ASSUME NEW t \in Threads, Rotate(t) PROVE IInv'
  <2>1. /\ handles' \in Seq(Contexts) /\ Len(handles') = Len(handles)
        /\ Distinct(handles') /\ Head(handles) \in Contexts
        /\ \A i \in DOMAIN handles' :
             \E j \in DOMAIN handles : handles'[i] = handles[j]
    BY <1>5, RotateProperties DEF Rotate, Rotated, TypeOK
  <2>2. /\ pc' \in [Threads -> Locations] /\ pc'[t] = "rotated"
        /\ \A u \in Threads \ {t} : pc'[u] = pc[u]
    BY <1>5 DEF Rotate, Goto, TypeOK, Locations
  <2>3. \A i \in DOMAIN handles' : pc'[handles'[i]] # "unborn"
    BY <2>1, <2>2, <1>0, ElementOfSeq DEF TypeOK, Threads
  <2>4. TypeOK'
    BY <1>5, <2>1, <2>2, <2>3 DEF Rotate, TypeOK, Threads
  <2>5. Live' = Live
    BY <1>5, <2>2, GotoKeepsLive, MainAssumption DEF Rotate, Yields
  <2>6. HandlesMatchInitializers' /\ TimeSliceNeverThrows'
    BY <2>1, <2>2, <2>5 DEF HandlesMatchInitializers, TimeSliceNeverThrows, Threads
  <2> QED
    BY <2>4, <2>5, <2>6
<1>6. ASSUME NEW t \in Threads, NEW loc \in {"running", "waiting"},
             Goto(t, loc), pc[t] \notin {"unborn", "popped", "done"},
             loc = "waiting" => held[t] \in Contexts,
             UNCHANGED <<handles, held>>, flag' \in [Contexts -> BOOLEAN],
             saved' \in [Threads -> BOOLEAN], woken' \in SUBSET Threads
      PROVE  IInv'
  <2>1. /\ pc' \in [Threads -> Locations] /\ pc'[t] = loc
        /\ \A u \in Threads \ {t} : pc'[u] = pc[u]
    BY <1>6 DEF Goto, TypeOK, Locations
  <2>2. \A i \in DOMAIN handles' : pc'[handles'[i]] # "unborn"
    BY <1>6, <2>1, <1>0, ElementOfSeq DEF TypeOK, Threads
  <2>3. TypeOK'
    BY <1>6, <2>1, <2>2 DEF TypeOK
  <2>4. Live' = Live
    BY <1>6, GotoKeepsLive
  <2>5. HandlesMatchInitializers' /\ TimeSliceNeverThrows'
    BY <1>6, <2>1, <2>4 DEF HandlesMatchInitializers, TimeSliceNeverThrows, Threads
  <2> QED
    BY <2>3, <2>4, <2>5
<1>7. ASSUME NEW t \in Threads, YieldToNobody(t) PROVE IInv'
  BY <1>6, <1>7 DEF YieldToNobody, Yields, TypeOK
<1>8. ASSUME NEW t \in Threads, FlipAndWait(t) PROVE IInv'
  <2>1. held[t] \in Contexts
    BY <1>8 DEF FlipAndWait, TypeOK
  <2>2. woken' \in SUBSET Threads
    BY <1>8, NotifyType DEF FlipAndWait
  <2>3. flag' \in [Contexts -> BOOLEAN] /\ saved' \in [Threads -> BOOLEAN]
    BY <1>8, <2>1 DEF FlipAndWait, TypeOK
  <2> QED
    BY <1>6, <1>8, <2>1, <2>2, <2>3 DEF FlipAndWait
<1>9. ASSUME NEW t \in Threads, Resume(t) PROVE IInv'
  BY <1>6, <1>9 DEF Resume, TypeOK
<1>10. CASE UNCHANGED vars
  BY <1>10 DEF vars, TypeOK, Live, HandlesMatchInitializers,
               TimeSliceNeverThrows
<1> QED
  BY <1>1, <1>2, <1>3, <1>4, <1>5, <1>7, <1>8, <1>9, <1>10
     DEF Next, InitializerStep, YieldStep

-----------------------------------------------------------------------------
LEMMA Invariance == Spec => []IInv
BY InitIInv, NextIInv, PTL DEF Spec

\* Type correctness; the deque never holds a handle twice.
THEOREM TypeCorrect == Spec => []TypeOK
BY Invariance, PTL DEF IInv

\* The deque of thread_sched_push and thread_sched_yield has exactly one
\* handle per initializer at work, although a finished initializer removes
\* the front handle rather than its own.
THEOREM HandlesMatch == Spec => []HandlesMatchInitializers
BY Invariance, PTL DEF IInv

\* No initializer asks for a time slice while the deque is empty: the throw
\* of thread_sched_time_slice is unreachable.
THEOREM TimeSliceSafe == Spec => []TimeSliceNeverThrows
BY Invariance, PTL DEF IInv

-----------------------------------------------------------------------------
(* One initializer works at a time.                                        *)

\* t is at work, or may be as soon as it looks at its flag.
Free(t) ==
  \/ pc[t] \in {"running", "spawned", "slice"}
  \/ pc[t] = "waiting" /\ FlippedBack(t)

\* t is parked on its handle, or is going to.
Parks(t) ==
  pc[t] = "rotated" \/ (pc[t] = "waiting" /\ ~ FlippedBack(t))

\* t has something to do with handle h.
Holds(t, h) == pc[t] \in {"rotated", "waiting", "popped"} /\ held[t] = h

InDeque(h) == \E i \in DOMAIN handles : handles[i] = h

\* The main thread has started an initializer, and nobody has yet taken the
\* handle it pushed in front: whoever does parks there and frees nobody.
Ahead ==
  /\ pc[Main] = "spawned" /\ handles # <<>>
  /\ \A t \in Threads : ~ Holds(t, Head(handles))

Counted(t) == Free(t) /\ ~ (t = Main /\ Ahead)

\* One of two that park on one handle will be freed by the other.
Pair(t, u) == t # u /\ Parks(t) /\ Parks(u) /\ held[t] = held[u]

\* Whoever parks on a handle that is removed will be freed by who removed it.
Loose(t) ==
  Parks(t) /\ \E c \in Contexts : pc[c] = "popped" /\ held[c] = held[t]

\* Of all those that are free or will be freed there is one.
OneToken ==
  /\ \A t, u \in Threads : Counted(t) /\ Counted(u) => t = u
  /\ \A t, u \in Threads : Loose(t) /\ Loose(u) => t = u
  /\ \A t, u \in Threads : ~ (Counted(t) /\ Loose(u))
  /\ \A t, u, v \in Threads : ~ (Counted(t) /\ Pair(u, v))
  /\ \A t, u, v \in Threads : ~ (Loose(t) /\ Pair(u, v))
  /\ \A t, u, v, w \in Threads : Pair(t, u) /\ Pair(v, w) => {t, u} = {v, w}

\* Handles are held after they were pushed, and removed once.
Removed ==
  /\ \A t \in Threads, h \in Contexts : Holds(t, h) => pc[h] # "unborn"
  /\ \A c \in Contexts : pc[c] = "popped" => ~ InDeque(held[c])
  /\ \A c, d \in Contexts :
       pc[c] = "popped" /\ pc[d] = "popped" /\ held[c] = held[d] => c = d

\* Who was freed on a handle leaves somebody parked there, or the handle is out
\* of use.
Freed ==
  \A t \in Threads :
    pc[t] = "waiting" /\ FlippedBack(t) =>
      \/ \E u \in Threads : pc[u] = "waiting" /\ Parks(u) /\ held[u] = held[t]
      \/ /\ ~ InDeque(held[t])
         /\ \A u \in Threads : pc[u] \in {"rotated", "popped"} => held[u] # held[t]

WokenWait == \A t \in woken : pc[t] = "waiting"

\* Only initializers finish.
MainStays == pc[Main] # "popped"

TInv ==
  /\ IInv /\ OneToken /\ Removed /\ Freed /\ FlippedIsNotified
  /\ WokenWait /\ MainStays

\* Flipping h back and notifying one of its waiters.
LEMMA Flipped ==
  ASSUME TypeOK, NEW h \in Contexts, flag' = [flag EXCEPT ![h] = ~ @],
         NEW u \in Threads, held[u] \in Contexts,
         held'[u] = held[u], saved'[u] = saved[u]
  PROVE  FlippedBack(u)' <=> IF held[u] = h THEN ~ FlippedBack(u)
                                            ELSE FlippedBack(u)
<1>1. /\ flag[held[u]] \in BOOLEAN /\ saved[u] \in BOOLEAN
      /\ flag' [held[u]] = IF held[u] = h THEN ~ flag[held[u]] ELSE flag[held[u]]
  BY DEF TypeOK
<1> QED
  BY <1>1 DEF FlippedBack

\* What a step makes of the other threads when no flag is flipped.
LEMMA Unmoved ==
  ASSUME UNCHANGED flag, NEW u \in Threads,
         pc'[u] = pc[u], held'[u] = held[u], saved'[u] = saved[u]
  PROVE  /\ Free(u)' <=> Free(u)
         /\ Parks(u)' <=> Parks(u)
         /\ \A h : Holds(u, h)' <=> Holds(u, h)
BY DEF Free, Parks, Holds, FlippedBack


\* Nothing more is free or will be.
LEMMA FewerTokens ==
  ASSUME OneToken,
         \A u \in Threads : /\ Counted(u)' => Counted(u)
                            /\ Loose(u)' => Loose(u)
                            /\ \A v \in Threads : Pair(u, v)' => Pair(u, v)
  PROVE  OneToken'
BY DEF OneToken

\* Nobody who waits on a handle that is about to be flipped has been freed.
LEMMA NobodyFreed ==
  ASSUME TInv, NEW t \in Threads, pc[t] \in {"rotated", "popped"},
         t = Main => pc[t] = "rotated",
         NEW w \in Threads, pc[w] = "waiting", held[w] = held[t]
  PROVE  ~ FlippedBack(w)
<1> SUFFICES ASSUME FlippedBack(w) PROVE FALSE
  OBVIOUS
<1>1. Counted(w)
  BY DEF Counted, Free, Ahead
<1>2. PICK u \in Threads :
        pc[u] = "waiting" /\ Parks(u) /\ held[u] = held[w]
  BY DEF TInv, Freed
<1>3. CASE pc[t] = "rotated"
  <2>1. Pair(t, u)
    BY <1>2, <1>3 DEF Pair, Parks
  <2> QED
    BY <1>1, <2>1 DEF TInv, OneToken
<1>4. CASE pc[t] = "popped"
  <2>1. Loose(u)
    BY <1>2, <1>4 DEF Loose, Threads
  <2> QED
    BY <1>1, <2>1 DEF TInv, OneToken
<1> QED
  BY <1>3, <1>4

\* So a flip frees who is parked there, one thread at most, and notifies it.
LEMMA FlipFrees ==
  ASSUME TInv, NEW t \in Threads, pc[t] \in {"rotated", "popped"},
         t = Main => pc[t] = "rotated", held[t] \in Contexts,
         NotifyOne(held[t]), flag' = [flag EXCEPT ![held[t]] = ~ @],
         UNCHANGED held, \A u \in Threads \ {t} : pc'[u] = pc[u] /\ saved'[u] = saved[u],
         pc'[t] \in {"waiting", "done"}
  PROVE  /\ \A u, v \in Threads :
              /\ pc[u] = "waiting" /\ held[u] = held[t]
              /\ pc[v] = "waiting" /\ held[v] = held[t]
              => u = v /\ u # t /\ Parks(u)
         /\ \A u \in Threads \ {t} :
              /\ pc[u] = "waiting" /\ held[u] = held[t] =>
                   Free(u)' /\ ~ Parks(u)' /\ u \in woken' /\ FlippedBack(u)'
              /\ ~ (pc[u] = "waiting" /\ held[u] = held[t]) =>
                   /\ Free(u)' <=> Free(u)
                   /\ Parks(u)' <=> Parks(u)
                   /\ u \in woken' <=> u \in woken
                   /\ pc[u] = "waiting" => (FlippedBack(u)' <=> FlippedBack(u))
         /\ t \notin woken'
<1> DEFINE On(u) == pc[u] = "waiting" /\ held[u] = held[t]
<1>1. ASSUME NEW u \in Threads, On(u)
      PROVE  u # t /\ Parks(u) /\ ~ FlippedBack(u) /\ u \notin woken
  BY <1>1, NobodyFreed DEF Parks, TInv, FlippedIsNotified
<1>2. ASSUME NEW u \in Threads, On(u), NEW v \in Threads, On(v)
      PROVE  u = v
  <2>1. Parks(u) /\ Parks(v) /\ u # t /\ v # t
    BY <1>1, <1>2
  <2>2. CASE pc[t] = "rotated"
    <3>1. Pair(t, u) /\ Pair(t, v)
      BY <1>2, <2>1, <2>2 DEF Pair, Parks
    <3> QED
      BY <2>1, <3>1 DEF TInv, OneToken
  <2>3. CASE pc[t] = "popped"
    <3>1. Loose(u) /\ Loose(v)
      BY <1>2, <2>1, <2>3 DEF Loose, Threads
    <3> QED
      BY <3>1 DEF TInv, OneToken
  <2> QED
    BY <2>2, <2>3
<1>3. Sleepers(held[t]) = {u \in Threads : On(u)}
  BY <1>1 DEF Sleepers
<1>4. woken' = woken \union {u \in Threads : On(u)}
  BY <1>2, <1>3 DEF NotifyOne
<1>5. t \notin woken'
  BY <1>1, <1>4 DEF TInv, WokenWait
<1>6. ASSUME NEW u \in Threads \ {t}, pc[u] = "waiting"
      PROVE  FlippedBack(u)' <=> IF held[u] = held[t] THEN ~ FlippedBack(u)
                                                      ELSE FlippedBack(u)
  <2>1. TypeOK /\ held[u] \in Contexts
    BY <1>6 DEF TInv, IInv, TypeOK
  <2> QED
    BY <2>1, Flipped
<1>7. ASSUME NEW u \in Threads \ {t}
      PROVE  /\ On(u) => Free(u)' /\ ~ Parks(u)' /\ FlippedBack(u)'
             /\ ~ On(u) =>
                  /\ Free(u)' <=> Free(u)
                  /\ Parks(u)' <=> Parks(u)
                  /\ pc[u] = "waiting" => (FlippedBack(u)' <=> FlippedBack(u))
  <2>1. pc'[u] = pc[u]
    OBVIOUS
  <2> QED
    BY <2>1, <1>1, <1>6 DEF Free, Parks
<1> QED
  BY <1>1, <1>2, <1>4, <1>5, <1>7

\* All that TInv says beyond IInv.
Tokens ==
  /\ OneToken /\ Removed /\ Freed /\ FlippedIsNotified
  /\ WokenWait /\ MainStays

\* Steps that leave flags and the deque alone: nobody is freed.
LEMMA QuietTokens ==
  ASSUME TInv, NEW t \in Threads, NEW loc \in {"running", "slice", "done"},
         pc[t] \in {"running", "spawned", "slice", "waiting"},
         Goto(t, loc), UNCHANGED <<handles, flag, held, saved>>,
         woken' = woken \ {t},
         pc[t] = "waiting" => FlippedBack(t),
         pc[t] = "spawned" => ~ Ahead
  PROVE  Tokens'
<1>1. /\ pc'[t] = loc /\ \A u \in Threads \ {t} : pc'[u] = pc[u]
      /\ t = Main \/ t \in Contexts
  BY DEF Goto, TInv, IInv, TypeOK, Threads
<1>2. \A u \in Threads \ {t} : /\ Free(u)' <=> Free(u)
                               /\ Parks(u)' <=> Parks(u)
                               /\ FlippedBack(u)' <=> FlippedBack(u)
  BY <1>1 DEF Free, Parks, FlippedBack
<1>3. Free(t) /\ ~ Parks(t) /\ ~ Parks(t)'
  BY <1>1 DEF Free, Parks
<1>4. Ahead => Ahead' /\ t # Main
  BY <1>1 DEF Ahead, Holds, Threads
<1>5. OneToken'
  <2>1. \A u \in Threads : Counted(u)' => Counted(u)
    BY <1>1, <1>2, <1>3, <1>4 DEF Counted
  <2>2. \A u \in Threads : Parks(u)' => Parks(u)
    BY <1>2, <1>3
  <2>3. \A u \in Threads : Loose(u)' => Loose(u)
    BY <1>1, <2>2 DEF Loose, Threads
  <2>4. \A u, v \in Threads : Pair(u, v)' => Pair(u, v)
    BY <2>2 DEF Pair
  <2> QED
    BY <2>1, <2>3, <2>4, FewerTokens DEF TInv
<1>6. Removed'
  BY <1>1 DEF TInv, Removed, Holds, InDeque, Threads
<1>7. Freed'
  BY <1>1, <1>2, <1>3 DEF TInv, Freed, InDeque
<1>8. FlippedIsNotified' /\ WokenWait' /\ MainStays'
  BY <1>1, <1>2
     DEF TInv, FlippedIsNotified, WokenWait, MainStays, IInv, TypeOK, Threads
<1> QED
  BY <1>5, <1>6, <1>7, <1>8 DEF Tokens

\* The flips of a thread that parks and of one that leaves.
LEMMA FlipAndWaitTokens ==
  ASSUME TInv, NEW t \in Threads, FlipAndWait(t)
  PROVE  Tokens'
<1>1. /\ pc[t] = "rotated" /\ held[t] \in Contexts /\ NotifyOne(held[t])
      /\ flag' = [flag EXCEPT ![held[t]] = ~ @] /\ UNCHANGED <<handles, held>>
      /\ pc'[t] = "waiting" /\ saved'[t] = flag[held[t]]
      /\ \A u \in Threads \ {t} : pc'[u] = pc[u] /\ saved'[u] = saved[u]
  BY DEF FlipAndWait, Goto, TInv, IInv, TypeOK
<1> DEFINE On(u) == pc[u] = "waiting" /\ held[u] = held[t]
<1>2. /\ \A u, v \in Threads : On(u) /\ On(v) => u = v /\ u # t /\ Parks(u)
      /\ \A u \in Threads \ {t} :
           /\ On(u) => Free(u)' /\ ~ Parks(u)' /\ u \in woken' /\ FlippedBack(u)'
           /\ ~ On(u) => /\ Free(u)' <=> Free(u)
                         /\ Parks(u)' <=> Parks(u)
                         /\ u \in woken' <=> u \in woken
                         /\ pc[u] = "waiting" => (FlippedBack(u)' <=> FlippedBack(u))
      /\ t \notin woken'
  BY <1>1, FlipFrees
<1>3. ~ FlippedBack(t)' /\ Parks(t) /\ ~ Free(t)
  BY <1>1 DEF FlippedBack, Parks, Free, TInv, IInv, TypeOK
<1>4. ~ Free(t)' /\ Parks(t)'
  BY <1>1, <1>3 DEF Parks, Free
<1>5. Ahead => Ahead'
  BY <1>1 DEF Ahead, Holds, Threads
<1>6. OneToken'
  <2>1. CASE \E q \in Threads : On(q)
    <3>1. PICK q \in Threads : On(q)
      BY <2>1
    <3>2. Pair(q, t) /\ q # t
      BY <1>1, <1>2, <1>3, <3>1 DEF Pair
    <3>3. \A u, v \in Threads : ~ Counted(u) /\ ~ Loose(u) /\ (Pair(u, v) => {u, v} = {q, t})
      BY <3>2 DEF TInv, OneToken
    <3>4. \A u \in Threads : Counted(u)' => u = q
      BY <1>2, <1>4, <1>5, <3>1, <3>3 DEF Counted
    <3>5. \A u \in Threads : Parks(u)' => u # q /\ Parks(u)
      BY <1>2, <1>3, <3>1, <3>2
    <3>6. \A u \in Threads : ~ Loose(u)'
      BY <1>1, <3>3, <3>5 DEF Loose, Threads
    <3>7. \A u, v \in Threads : ~ Pair(u, v)'
      BY <1>1, <3>3, <3>5 DEF Pair
    <3> QED
      BY <3>4, <3>6, <3>7 DEF OneToken
  <2>2. CASE ~ \E q \in Threads : On(q)
    <3>1. \A u \in Threads : Parks(u)' => Parks(u)
      BY <1>2, <1>3, <2>2
    <3>2. \A u \in Threads : Counted(u)' => Counted(u)
      BY <1>2, <1>4, <1>5, <2>2 DEF Counted
    <3>3. \A u, v \in Threads : /\ Loose(u)' => Loose(u)
                                /\ Pair(u, v)' => Pair(u, v)
      BY <1>1, <3>1 DEF Loose, Pair, Threads
    <3> QED
      BY <3>2, <3>3, FewerTokens DEF TInv
  <2> QED
    BY <2>1, <2>2
<1>7. Removed'
  BY <1>1 DEF TInv, Removed, Holds, InDeque, Threads
<1>8. Freed'
  <2> SUFFICES ASSUME NEW u \in Threads, pc'[u] = "waiting", FlippedBack(u)'
               PROVE  \/ \E v \in Threads :
                           pc'[v] = "waiting" /\ Parks(v)' /\ held'[v] = held'[u]
                      \/ /\ ~ InDeque(held[u])'
                         /\ \A v \in Threads :
                              pc'[v] \in {"rotated", "popped"} => held'[v] # held'[u]
    BY <1>1 DEF Freed
  <2>1. u # t /\ pc[u] = "waiting"
    BY <1>1, <1>3
  <2>2. CASE On(u)
    BY <1>1, <1>4, <2>2
  <2>3. CASE ~ On(u)
    <3>1. FlippedBack(u)
      BY <1>2, <2>1, <2>3
    <3>2. CASE \E v \in Threads :
                 pc[v] = "waiting" /\ Parks(v) /\ held[v] = held[u]
      BY <1>1, <1>2, <2>1, <2>3, <3>2
    <3>3. CASE /\ ~ InDeque(held[u])
               /\ \A v \in Threads :
                    pc[v] \in {"rotated", "popped"} => held[v] # held[u]
      BY <1>1, <2>1, <3>3 DEF InDeque
    <3> QED
      BY <2>1, <3>1, <3>2, <3>3 DEF TInv, Freed
  <2> QED
    BY <2>2, <2>3
<1>9. FlippedIsNotified' /\ WokenWait' /\ MainStays'
  <2>1. woken' \in SUBSET Threads /\ Main \in Threads
    BY <1>1, NotifyType DEF TInv, IInv, Threads
  <2>2. FlippedIsNotified'
    BY <1>1, <1>2, <1>3 DEF TInv, FlippedIsNotified
  <2>3. WokenWait'
    BY <1>1, <1>2, <2>1 DEF TInv, WokenWait
  <2>4. MainStays'
    BY <1>1, <2>1 DEF TInv, MainStays
  <2> QED
    BY <2>2, <2>3, <2>4
<1> QED
  BY <1>6, <1>7, <1>8, <1>9 DEF Tokens

LEMMA FlipAndLeaveTokens ==
  ASSUME TInv, NEW c \in Contexts, FlipAndLeave(c)
  PROVE  Tokens'
<1>1. /\ pc[c] = "popped" /\ held[c] \in Contexts /\ NotifyOne(held[c])
      /\ flag' = [flag EXCEPT ![held[c]] = ~ @]
      /\ UNCHANGED <<handles, held, saved>> /\ pc'[c] = "done"
      /\ \A u \in Threads \ {c} : pc'[u] = pc[u]
      /\ c \in Threads /\ c # Main
  BY MainAssumption DEF FlipAndLeave, Goto, TInv, IInv, TypeOK, Threads
<1> DEFINE On(u) == pc[u] = "waiting" /\ held[u] = held[c]
<1>2. /\ \A u, v \in Threads : On(u) /\ On(v) => u = v /\ u # c /\ Parks(u)
      /\ \A u \in Threads \ {c} :
           /\ On(u) => Free(u)' /\ ~ Parks(u)' /\ u \in woken' /\ FlippedBack(u)'
           /\ ~ On(u) => /\ Free(u)' <=> Free(u)
                         /\ Parks(u)' <=> Parks(u)
                         /\ u \in woken' <=> u \in woken
                         /\ pc[u] = "waiting" => (FlippedBack(u)' <=> FlippedBack(u))
      /\ c \notin woken'
  BY <1>1, FlipFrees
<1>3. ~ Free(c)' /\ ~ Parks(c)'
  BY <1>1 DEF Parks, Free
<1>4. Ahead => Ahead'
  BY <1>1 DEF Ahead, Holds, Threads
<1>5. \A u \in Threads : Parks(u)' => Parks(u)
  BY <1>2, <1>3
<1>6. \A u \in Threads : Loose(u)' => Loose(u)
  BY <1>1, <1>5 DEF Loose, Threads
<1>7. \A u, v \in Threads : Pair(u, v)' => Pair(u, v)
  BY <1>1, <1>5 DEF Pair
<1>8. OneToken'
  <2>1. CASE \E q \in Threads : On(q)
    <3>1. PICK q \in Threads : On(q)
      BY <2>1
    <3>2. Loose(q)
      BY <1>1, <1>2, <3>1 DEF Loose
    <3>3. \A u, v \in Threads : ~ Counted(u) /\ (Loose(u) => u = q) /\ ~ Pair(u, v)
      BY <3>2 DEF TInv, OneToken
    <3>4. \A u \in Threads : Counted(u)' => u = q
      BY <1>2, <1>3, <1>4, <3>1, <3>3 DEF Counted
    <3>5. \A u \in Threads : ~ Loose(u)'
      BY <1>1, <1>2, <1>6, <3>1, <3>3 DEF Loose
    <3> QED
      BY <1>7, <3>3, <3>4, <3>5 DEF OneToken
  <2>2. CASE ~ \E q \in Threads : On(q)
    <3>1. \A u \in Threads : Counted(u)' => Counted(u)
      BY <1>2, <1>3, <1>4, <2>2 DEF Counted
    <3> QED
      BY <1>6, <1>7, <3>1, FewerTokens DEF TInv
  <2> QED
    BY <2>1, <2>2
<1>9. Removed'
  BY <1>1 DEF TInv, Removed, Holds, InDeque, Threads
<1>10. Freed'
  <2> SUFFICES ASSUME NEW u \in Threads, pc'[u] = "waiting", FlippedBack(u)'
               PROVE  \/ \E v \in Threads :
                           pc'[v] = "waiting" /\ Parks(v)' /\ held'[v] = held'[u]
                      \/ /\ ~ InDeque(held[u])'
                         /\ \A v \in Threads :
                              pc'[v] \in {"rotated", "popped"} => held'[v] # held'[u]
    BY <1>1 DEF Freed
  <2>1. u # c /\ pc[u] = "waiting"
    BY <1>1
  <2>2. CASE On(u)
    <3>1. Loose(u)
      BY <1>1, <1>2, <2>2 DEF Loose
    <3>2. ~ InDeque(held[u])
      BY <1>1, <2>2 DEF TInv, Removed
    <3>3. ASSUME NEW v \in Threads, pc'[v] \in {"rotated", "popped"},
                 held[v] = held[u]
          PROVE  FALSE
      <4>1. v # c /\ pc[v] = pc'[v]
        BY <1>1, <3>3
      <4>2. CASE pc[v] = "rotated"
        <5>1. Loose(v) /\ v # u
          BY <1>1, <2>2, <3>3, <4>2 DEF Loose, Parks
        <5> QED
          BY <3>1, <5>1 DEF TInv, OneToken
      <4>3. CASE pc[v] = "popped"
        BY <1>1, <2>2, <3>3, <4>1, <4>3 DEF TInv, Removed, MainStays, Threads
      <4> QED
        BY <3>3, <4>1, <4>2, <4>3
    <3> QED
      BY <1>1, <3>2, <3>3 DEF InDeque
  <2>3. CASE ~ On(u)
    <3>1. FlippedBack(u)
      BY <1>2, <2>1, <2>3
    <3>2. CASE \E v \in Threads :
                 pc[v] = "waiting" /\ Parks(v) /\ held[v] = held[u]
      BY <1>1, <1>2, <2>1, <2>3, <3>2
    <3>3. CASE /\ ~ InDeque(held[u])
               /\ \A v \in Threads :
                    pc[v] \in {"rotated", "popped"} => held[v] # held[u]
      BY <1>1, <2>1, <3>3 DEF InDeque
    <3> QED
      BY <2>1, <3>1, <3>2, <3>3 DEF TInv, Freed
  <2> QED
    BY <2>2, <2>3
<1>11. FlippedIsNotified' /\ WokenWait' /\ MainStays'
  <2>1. woken' \in SUBSET Threads /\ Main \in Threads
    BY <1>1, NotifyType DEF TInv, IInv, Threads
  <2>2. FlippedIsNotified'
    BY <1>1, <1>2 DEF TInv, FlippedIsNotified
  <2>3. WokenWait'
    BY <1>1, <1>2, <2>1 DEF TInv, WokenWait
  <2>4. MainStays'
    BY <1>1, <2>1 DEF TInv, MainStays
  <2> QED
    BY <2>2, <2>3, <2>4
<1> QED
  BY <1>8, <1>9, <1>10, <1>11 DEF Tokens

\* What comes to the front of the deque and what leaves it.
LEMMA DequeFacts ==
  ASSUME TypeOK, handles # <<>>
  PROVE  /\ Head(handles) \in Contexts /\ InDeque(Head(handles))
         /\ pc[Head(handles)] # "unborn"
         /\ \A h : (\E i \in DOMAIN Rotated : Rotated[i] = h) => InDeque(h)
         /\ \A h : (\E i \in DOMAIN Tail(handles) : Tail(handles)[i] = h) =>
              InDeque(h) /\ h # Head(handles)
<1>1. /\ Head(handles) = handles[1] /\ Head(handles) \in Contexts
      /\ Tail(handles) \in Seq(Contexts) /\ Len(Tail(handles)) = Len(handles) - 1
      /\ \A i \in 1 .. Len(handles) - 1 : Tail(handles)[i] = handles[i + 1]
  BY HeadTailProperties DEF TypeOK
<1>2. /\ Len(handles) \in Nat \ {0} /\ DOMAIN handles = 1 .. Len(handles)
      /\ DOMAIN Tail(handles) = 1 .. Len(handles) - 1
  BY <1>1, EmptySeq, LenProperties DEF TypeOK
<1>3. 1 \in DOMAIN handles
  BY <1>2
<1>4. \A i \in DOMAIN Tail(handles) :
        i + 1 \in DOMAIN handles /\ i + 1 # 1 /\ Tail(handles)[i] = handles[i + 1]
  BY <1>1, <1>2
<1>5. \A i \in DOMAIN Rotated : \E j \in DOMAIN handles : Rotated[i] = handles[j]
  BY RotateProperties DEF TypeOK, Rotated
<1>6. InDeque(Head(handles)) /\ pc[Head(handles)] # "unborn"
  BY <1>1, <1>3 DEF TypeOK, InDeque
<1>7. \A h : (\E i \in DOMAIN Rotated : Rotated[i] = h) => InDeque(h)
  BY <1>5 DEF InDeque
<1>8. \A h : (\E i \in DOMAIN Tail(handles) : Tail(handles)[i] = h) =>
        InDeque(h) /\ h # Head(handles)
  <2>1. \A i, j \in DOMAIN handles : handles[i] = handles[j] => i = j
    BY DEF TypeOK, Distinct
  <2>2. \A i \in DOMAIN Tail(handles) : Tail(handles)[i] # handles[1]
    BY <1>3, <1>4, <2>1
  <2>3. \A i \in DOMAIN Tail(handles) : InDeque(Tail(handles)[i])
    BY <1>4 DEF InDeque
  <2> QED
    BY <1>1, <2>2, <2>3
<1> QED
  BY <1>1, <1>6, <1>7, <1>8

LEMMA RotateTokens ==
  ASSUME TInv, NEW t \in Threads, Rotate(t)
  PROVE  Tokens'
<1> DEFINE h == Head(handles)
<1>1. /\ pc[t] \in {"running", "spawned", "slice"} /\ pc'[t] = "rotated"
      /\ held'[t] = h /\ handles # <<>> /\ UNCHANGED <<flag, saved, woken>>
      /\ \A u \in Threads \ {t} : pc'[u] = pc[u] /\ held'[u] = held[u]
  BY DEF Rotate, Yields, Goto, TInv, IInv, TypeOK
<1>2. /\ h \in Contexts /\ InDeque(h) /\ pc[h] # "unborn"
      /\ \A g : InDeque(g)' => InDeque(g)
  BY <1>1, DequeFacts DEF Rotate, InDeque, TInv, IInv
<1> HIDE DEF h
<1>3. \A u \in Threads \ {t} : /\ Free(u)' <=> Free(u)
                               /\ Parks(u)' <=> Parks(u)
                               /\ FlippedBack(u)' <=> FlippedBack(u)
  BY <1>1 DEF Free, Parks, FlippedBack
<1>4. Free(t) /\ ~ Free(t)' /\ ~ Parks(t) /\ Parks(t)'
  BY <1>1 DEF Free, Parks
<1>5. \A c \in Contexts : pc'[c] = "popped" =>
        c # t /\ pc[c] = "popped" /\ held'[c] = held[c] /\ held[c] # h
  BY <1>1, <1>2 DEF TInv, Removed, Threads
<1>6. OneToken'
  <2>1. \A u \in Threads : ~ Loose(u)' \/ (u # t /\ Loose(u))
    BY <1>1, <1>3, <1>5 DEF Loose
  <2>2. \A u, v \in Threads :
          Pair(u, v)' => \/ Pair(u, v)
                         \/ u = t /\ v # t /\ Parks(v) /\ held[v] = h
                         \/ v = t /\ u # t /\ Parks(u) /\ held[u] = h
    BY <1>1, <1>3 DEF Pair
  <2>3. CASE Ahead
    <3>1. \A u \in Threads : Parks(u) => held[u] # h
      BY <2>3 DEF Ahead, Holds, Parks, h
    <3>2. \A u, v \in Threads : Pair(u, v)' => Pair(u, v)
      BY <2>2, <3>1
    <3>3. CASE t = Main
      <4>1. \A u \in Threads : Counted(u)' => Counted(u)
        BY <1>3, <1>4, <3>3 DEF Counted
      <4> QED
        BY <2>1, <3>2, <4>1, FewerTokens DEF TInv
    <3>4. CASE t # Main
      <4>1. Counted(t)
        BY <1>4, <3>4 DEF Counted
      <4>2. \A u, v \in Threads : (Counted(u) => u = t) /\ ~ Loose(u) /\ ~ Pair(u, v)
        BY <4>1 DEF TInv, OneToken
      <4>3. \A u \in Threads : Counted(u)' => u = Main
        BY <1>3, <1>4, <4>2 DEF Counted
      <4> QED
        BY <2>1, <3>2, <4>2, <4>3 DEF OneToken
    <3> QED
      BY <3>3, <3>4
  <2>4. CASE ~ Ahead
    <3>1. Counted(t)
      BY <1>4, <2>4 DEF Counted
    <3>2. \A u, v \in Threads : (Counted(u) => u = t) /\ ~ Loose(u) /\ ~ Pair(u, v)
      BY <3>1 DEF TInv, OneToken
    <3>3. \A u \in Threads : ~ Counted(u)' /\ ~ Loose(u)'
      BY <1>3, <1>4, <2>1, <2>4, <3>2 DEF Counted
    <3>4. \A u, v \in Threads : Parks(u) /\ Parks(v) /\ held[u] = h /\ held[v] = h
                                  => u = v
      BY <3>2 DEF Pair
    <3>5. \A u, v, x, y \in Threads : Pair(u, v)' /\ Pair(x, y)' => {u, v} = {x, y}
      BY <2>2, <3>2, <3>4
    <3> QED
      BY <3>3, <3>5 DEF OneToken
  <2> QED
    BY <2>3, <2>4
<1>7. Removed'
  <2>1. \A u \in Threads, g \in Contexts : Holds(u, g)' => Holds(u, g) \/ g = h
    BY <1>1 DEF Holds
  <2>2. \A g \in Contexts : pc[g] # "unborn" => pc'[g] # "unborn"
    BY <1>1 DEF Threads
  <2> QED
    BY <1>2, <1>5, <2>1, <2>2 DEF TInv, Removed
<1>8. Freed'
  BY <1>1, <1>2, <1>3 DEF TInv, Freed
<1>9. FlippedIsNotified' /\ WokenWait' /\ MainStays'
  BY <1>1, <1>3
     DEF TInv, FlippedIsNotified, WokenWait, MainStays, IInv, TypeOK, Threads
<1> QED
  BY <1>6, <1>7, <1>8, <1>9 DEF Tokens

LEMMA PopTokens ==
  ASSUME TInv, NEW c \in Contexts, Pop(c), handles # <<>>
  PROVE  Tokens'
<1> DEFINE h == Head(handles)
<1>1. /\ pc[c] = "running" /\ pc'[c] = "popped" /\ c \in Threads /\ c # Main
      /\ held'[c] = h /\ UNCHANGED <<flag, saved, woken>>
      /\ \A u \in Threads \ {c} : pc'[u] = pc[u] /\ held'[u] = held[u]
  BY MainAssumption DEF Pop, Goto, TInv, IInv, TypeOK, Threads
<1>2. /\ h \in Contexts /\ InDeque(h) /\ pc[h] # "unborn"
      /\ \A g : InDeque(g)' => InDeque(g) /\ g # h
  BY DequeFacts DEF Pop, InDeque, TInv, IInv
<1> HIDE DEF h
<1>3. \A u \in Threads \ {c} : /\ Free(u)' <=> Free(u)
                               /\ Parks(u)' <=> Parks(u)
                               /\ FlippedBack(u)' <=> FlippedBack(u)
  BY <1>1 DEF Free, Parks, FlippedBack
<1>4. Free(c) /\ ~ Free(c)' /\ ~ Parks(c) /\ ~ Parks(c)'
  BY <1>1 DEF Free, Parks
<1>5. \A d \in Contexts : pc'[d] = "popped" =>
        d = c \/ (pc[d] = "popped" /\ held'[d] = held[d] /\ held[d] # h)
  BY <1>1, <1>2 DEF TInv, Removed, Threads
<1>6. OneToken'
  <2>1. \A u \in Threads : Loose(u)' => Loose(u) \/ (Parks(u) /\ held[u] = h)
    BY <1>1, <1>3, <1>4, <1>5 DEF Loose
  <2>2. \A u, v \in Threads : Pair(u, v)' => Pair(u, v)
    BY <1>1, <1>3, <1>4 DEF Pair
  <2>3. Counted(c)
    BY <1>1, <1>4 DEF Counted
  <2>4. \A u, v \in Threads : (Counted(u) => u = c) /\ ~ Loose(u) /\ ~ Pair(u, v)
    BY <1>1, <2>3 DEF TInv, OneToken
  <2>5. \A u, v \in Threads : Loose(u)' /\ Loose(v)' => u = v
    BY <2>1, <2>4 DEF Pair
  <2>6. CASE Ahead
    <3>1. \A u \in Threads : ~ Loose(u)'
      BY <2>1, <2>4, <2>6 DEF Ahead, Holds, Parks, h
    <3>2. \A u \in Threads : Counted(u)' => u = Main
      BY <1>3, <1>4, <2>4 DEF Counted
    <3> QED
      BY <2>2, <2>4, <3>1, <3>2 DEF OneToken
  <2>7. CASE ~ Ahead
    <3>1. \A u \in Threads : ~ Counted(u)'
      BY <1>3, <1>4, <2>4, <2>7 DEF Counted
    <3> QED
      BY <2>2, <2>4, <2>5, <3>1 DEF OneToken
  <2> QED
    BY <2>6, <2>7
<1>7. Removed'
  <2>1. \A u \in Threads, g \in Contexts : Holds(u, g)' => Holds(u, g) \/ g = h
    BY <1>1 DEF Holds
  <2>2. \A g \in Contexts : pc[g] # "unborn" => pc'[g] # "unborn"
    BY <1>1 DEF Threads
  <2> QED
    BY <1>1, <1>2, <1>5, <2>1, <2>2 DEF TInv, Removed
<1>8. Freed'
  BY <1>1, <1>2, <1>3 DEF TInv, Freed
<1>9. FlippedIsNotified' /\ WokenWait' /\ MainStays'
  BY <1>1, <1>3
     DEF TInv, FlippedIsNotified, WokenWait, MainStays, IInv, TypeOK, Threads
<1> QED
  BY <1>6, <1>7, <1>8, <1>9 DEF Tokens

LEMMA RunRequestTokens ==
  ASSUME TInv, NEW c \in Contexts, RunRequest(c)
  PROVE  Tokens'
<1>1. /\ pc[Main] = "running" /\ pc[c] = "unborn"
      /\ pc'[Main] = "spawned" /\ pc'[c] = "running"
      /\ c \in Threads /\ Main \in Threads /\ c # Main
      /\ UNCHANGED <<flag, held, saved, woken>>
      /\ \A u \in Threads \ {c, Main} : pc'[u] = pc[u]
  BY MainAssumption DEF RunRequest, TInv, IInv, TypeOK, Threads
<1>2. /\ handles' # <<>> /\ Head(handles') = c
      /\ \A g : InDeque(g)' => InDeque(g) \/ g = c
  <2>1. \A i \in DOMAIN handles : handles[i] # c
    BY <1>1 DEF TInv, IInv, TypeOK
  <2>2. /\ handles' \in Seq(Contexts) /\ Len(handles') = Len(handles) + 1
        /\ \A i \in DOMAIN handles' :
             \/ handles'[i] = c
             \/ \E j \in DOMAIN handles : handles'[i] = handles[j]
    BY <2>1, PushProperties DEF RunRequest, TInv, IInv, TypeOK
  <2>3. Len(<<c>>) = 1 /\ <<c>>[1] = c /\ <<c>> \in Seq(Contexts)
    OBVIOUS
  <2>4. Len(handles) \in Nat /\ handles'[1] = c
    BY <2>3, ConcatProperties, LenProperties DEF RunRequest, TInv, IInv, TypeOK
  <2>5. handles' # <<>> /\ Head(handles') = handles'[1]
    BY <2>2, <2>4, EmptySeq, HeadTailProperties
  <2> QED
    BY <2>2, <2>4, <2>5 DEF InDeque
<1>3. \A u \in Threads \ {c, Main} : /\ Free(u)' <=> Free(u)
                                     /\ Parks(u)' <=> Parks(u)
                                     /\ FlippedBack(u)' <=> FlippedBack(u)
  BY <1>1 DEF Free, Parks, FlippedBack
<1>4. /\ Counted(Main) /\ ~ Parks(Main) /\ ~ Parks(Main)'
      /\ ~ Free(c) /\ ~ Parks(c) /\ ~ Parks(c)'
  BY <1>1 DEF Counted, Free, Parks, Ahead
<1>5. \A u \in Threads : ~ Holds(u, c)' /\ ~ Holds(u, c)
  BY <1>1 DEF TInv, Removed, Holds
<1>6. Ahead'
  BY <1>1, <1>2, <1>5 DEF Ahead
<1>7. \A u, v \in Threads : (Counted(u) => u = Main) /\ ~ Loose(u) /\ ~ Pair(u, v)
  BY <1>1, <1>4 DEF TInv, OneToken
<1>8. OneToken'
  <2>1. \A u \in Threads : Counted(u)' => u = c
    BY <1>1, <1>3, <1>6, <1>7 DEF Counted, Ahead
  <2>2. \A u \in Threads : ~ Loose(u)'
    BY <1>1, <1>3, <1>4, <1>7 DEF Loose, Threads
  <2>3. \A u, v \in Threads : ~ Pair(u, v)'
    BY <1>1, <1>3, <1>4, <1>7 DEF Pair
  <2> QED
    BY <2>1, <2>2, <2>3 DEF OneToken
<1>9. Removed'
  BY <1>1, <1>2, <1>5 DEF TInv, Removed, Holds, Threads
<1>10. Freed'
  <2>1. \A u \in Threads : ~ (pc[u] = "waiting" /\ FlippedBack(u))
    BY <1>1, <1>7 DEF Counted, Free
  <2> QED
    BY <1>1, <1>3, <2>1 DEF Freed
<1>11. FlippedIsNotified' /\ WokenWait' /\ MainStays'
  BY <1>1, <1>3
     DEF TInv, FlippedIsNotified, WokenWait, MainStays, IInv, TypeOK, Threads
<1> QED
  BY <1>8, <1>9, <1>10, <1>11 DEF Tokens

LEMMA InitTInv == Init => TInv
<1> SUFFICES ASSUME Init PROVE TInv
  OBVIOUS
<1>1. IInv
  BY InitIInv
<1>2. \A t \in Threads : pc[t] = IF t = Main THEN "running" ELSE "unborn"
  BY DEF Init
<1>3. \A t \in Threads : ~ Parks(t) /\ (Free(t) => t = Main) /\ pc[t] # "popped"
                         /\ pc[t] # "waiting"
  BY <1>2 DEF Parks, Free
<1>4. \A t, u \in Threads : ~ Loose(t) /\ ~ Pair(t, u)
  BY <1>3 DEF Loose, Pair
<1>5. OneToken
  BY <1>3, <1>4 DEF OneToken, Counted
<1>6. Removed /\ Freed /\ FlippedIsNotified
  BY <1>2, <1>3 DEF Removed, Freed, FlippedIsNotified, Holds, Threads
<1>7. WokenWait /\ MainStays
  BY <1>2 DEF Init, WokenWait, MainStays, Threads
<1> QED
  BY <1>1, <1>5, <1>6, <1>7 DEF TInv

LEMMA NextTInv == TInv /\ [Next]_vars => TInv'
<1> SUFFICES ASSUME TInv, [Next]_vars PROVE TInv'
  OBVIOUS
<1>1. IInv'
  BY NextIInv DEF TInv
<1>2. Tokens'
  <2>1. ASSUME NEW c \in Contexts, RunRequest(c) PROVE Tokens'
    BY <2>1, RunRequestTokens
  <2>2. ASSUME NEW c \in Contexts, TimeSlice(c) PROVE Tokens'
    <3>1. pc'[c] # "threw" /\ c \in Threads
      BY <1>1 DEF IInv, TimeSliceNeverThrows, Threads
    <3>2. Goto(c, "slice") /\ UNCHANGED <<handles, flag, held, saved, woken>>
      BY <2>2, <3>1 DEF TimeSlice, Goto, TInv, IInv, TypeOK
    <3>3. woken' = woken \ {c}
      BY <2>2, <3>2 DEF TimeSlice, TInv, WokenWait
    <3> QED
      BY <2>2, <3>1, <3>2, <3>3, QuietTokens DEF TimeSlice
  <2>3. ASSUME NEW c \in Contexts, Pop(c) PROVE Tokens'
    <3>1. CASE handles # <<>>
      BY <2>3, <3>1, PopTokens
    <3>2. CASE handles = <<>>
      <4>1. Goto(c, "done") /\ UNCHANGED <<handles, flag, held, saved, woken>>
            /\ pc[c] = "running" /\ c \in Threads
        BY <2>3, <3>2 DEF Pop, Threads
      <4>2. woken' = woken \ {c}
        BY <4>1 DEF TInv, WokenWait
      <4> QED
        BY <4>1, <4>2, QuietTokens
    <3> QED
      BY <3>1, <3>2
  <2>4. ASSUME NEW c \in Contexts, FlipAndLeave(c) PROVE Tokens'
    BY <2>4, FlipAndLeaveTokens
  <2>5. ASSUME NEW t \in Threads, Rotate(t) PROVE Tokens'
    BY <2>5, RotateTokens
  <2>6. ASSUME NEW t \in Threads, YieldToNobody(t) PROVE Tokens'
    <3>1. /\ pc[t] \in {"running", "spawned", "slice"} /\ ~ Ahead
          /\ Goto(t, "running") /\ UNCHANGED <<handles, flag, held, saved, woken>>
      BY <2>6 DEF YieldToNobody, Yields, Ahead
    <3>2. woken' = woken \ {t}
      BY <3>1 DEF TInv, WokenWait
    <3> QED
      BY <3>1, <3>2, QuietTokens
  <2>7. ASSUME NEW t \in Threads, FlipAndWait(t) PROVE Tokens'
    BY <2>7, FlipAndWaitTokens
  <2>8. ASSUME NEW t \in Threads, Resume(t) PROVE Tokens'
    BY <2>8, QuietTokens DEF Resume
  <2>9. CASE UNCHANGED vars
    <3>1. /\ UNCHANGED <<handles, flag, pc, held, saved, woken>>
          /\ \A u \in Threads : /\ Free(u)' <=> Free(u)
                                /\ Parks(u)' <=> Parks(u)
                                /\ FlippedBack(u)' <=> FlippedBack(u)
      BY <2>9 DEF vars, Free, Parks, FlippedBack
    <3>2. OneToken'
      BY <3>1, FewerTokens DEF TInv, Counted, Loose, Pair, Ahead, Holds
    <3> QED
      BY <3>1, <3>2 DEF TInv, Tokens, Removed, Holds, InDeque, Freed,
                        FlippedIsNotified, WokenWait, MainStays
  <2> QED
    BY <2>1, <2>2, <2>3, <2>4, <2>5, <2>6, <2>7, <2>8, <2>9
       DEF Next, InitializerStep, YieldStep
<1> QED
  BY <1>1, <1>2 DEF TInv, Tokens

LEMMA TokenInvariance == Spec => []TInv
BY InitTInv, NextTInv, PTL DEF Spec

\* Of the initializers one at most is at work (thread-controls.cpp:434-463): the
\* flips of a yield free one thread for each that parks.
THEOREM OneWorks == Spec => []OneInitializerWorks
<1>1. TInv => OneInitializerWorks
  <2> SUFFICES ASSUME TInv, NEW c \in Contexts, NEW d \in Contexts,
                      pc[c] = "running", pc[d] = "running"
               PROVE  c = d
    BY DEF OneInitializerWorks
  <2>1. Counted(c) /\ Counted(d) /\ c \in Threads /\ d \in Threads
    BY MainAssumption DEF Counted, Free, Threads
  <2> QED
    BY <2>1 DEF TInv, OneToken
<1> QED
  BY <1>1, TokenInvariance, PTL

\* A waiter was notified exactly if its flag was flipped back: notify_one, which
\* does not choose, reaches the one that may go on.
THEOREM NotifiedIsFlipped == Spec => []FlippedIsNotified
BY TokenInvariance, PTL DEF TInv

=============================================================================

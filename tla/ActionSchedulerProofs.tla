----------------------- MODULE ActionSchedulerProofs -----------------------
(***************************************************************************)
(* Proofs about ActionScheduler, for any set of contexts, any manifest and *)
(* any execution indices: an execution index is neither lost nor           *)
(* duplicated, so a context computes one action at a time, and only        *)
(* actions whose dependencies are known.  At the end: what is assumed of   *)
(* the order of the manifest holds of every index the constructor makes.   *)
(***************************************************************************)
EXTENDS MCActionScheduler, SequenceTheorems, FiniteSetTheorems, WellFoundedInduction, TLAPS

-----------------------------------------------------------------------------
(* The helpers of the model.                                               *)

\* std::find_if over positions: First finds the least one.
LEMMA FirstProperties ==
  ASSUME NEW S, S \subseteq Nat, S # {}
  PROVE  First(S) \in S /\ \A j \in S : First(S) <= j
<1> DEFINE less == {ss \in Nat \X Nat : ss[1] < ss[2]}
<1>1. IsWellFoundedOn(less, Nat)
  <2>1. OpToRel(<, Nat) = less
    BY DEF OpToRel
  <2> QED
    BY <2>1, NatLessThanWellFounded
<1>2. PICK x \in S : \A y \in S : ~ (<<y, x>> \in less)
  <2> HIDE DEF less
  <2> QED
    BY <1>1, WFMin
<1>3. ASSUME NEW y \in S PROVE x <= y
  <2>1. ~ (<<y, x>> \in less)
    BY <1>2
  <2>2. y \in Nat /\ x \in Nat
    OBVIOUS
  <2>3. ~ (y < x)
    BY <2>1, <2>2
  <2> QED
    BY <2>2, <2>3
<1> QED
  BY <1>3 DEF First

\* Positions around the manifest are positions of the manifest.
LEMMA ActionRange ==
  /\ Actions \subseteq Nat /\ Actions \subseteq 0 .. N
  /\ 0 \in Actions /\ 0 \in 0 .. N
  /\ \A i \in Nat : i % N \in Actions
  /\ \A a \in Actions : After(a) \in Actions
BY ManifestAssumption DEF Actions, After

\* Dependencies are actions.
LEMMA DepsAreActions ==
  \A a \in Actions : \A k \in DOMAIN Deps[a] : Deps[a][k] \in Actions
BY ManifestAssumption, ElementOfSeq, LenProperties

\* A dependency to compute first is an action.
LEMMA FirstMissingType ==
  ASSUME NEW c \in Contexts, NEW a \in Actions, NEW i, Missing(c, a) # {}
  PROVE  FirstMissing(c, a, i) \in Actions
<1> DEFINE later == {k \in Missing(c, a) : k > i % Len(Deps[a])}
<1>1. Deps[a] \in Seq(Actions)
  BY ManifestAssumption
<1>2. Missing(c, a) \subseteq DOMAIN Deps[a] /\ DOMAIN Deps[a] \subseteq Nat
  <2>1. DOMAIN Deps[a] = 1 .. Len(Deps[a])
    BY <1>1, LenProperties
  <2>2. 1 .. Len(Deps[a]) \subseteq Nat
    OBVIOUS
  <2>3. Missing(c, a) \subseteq DOMAIN Deps[a]
    BY Zenon DEF Missing
  <2> QED
    BY <2>1, <2>2, <2>3
<1>3. First(Missing(c, a)) \in DOMAIN Deps[a]
  BY <1>2, FirstProperties
<1>4. later # {} => First(later) \in DOMAIN Deps[a]
  <2>1. later \subseteq Missing(c, a)
    OBVIOUS
  <2> HIDE DEF later
  <2> QED
    BY <1>2, <2>1, FirstProperties
<1>5. \A k \in DOMAIN Deps[a] : Deps[a][k] \in Actions
  BY <1>1, ElementOfSeq, LenProperties
<1> QED
  BY <1>3, <1>4, <1>5 DEF FirstMissing

\* Erasing a stopped context from ctx_ptrs leaves the others, and only them
\* or a further entry of its own.
LEMMA EraseProperties ==
  ASSUME NEW S, NEW s \in Seq(S), NEW i \in DOMAIN s
  PROVE  LET r == SubSeq(s, 1, i - 1) \o SubSeq(s, i + 1, Len(s))
         IN  /\ r \in Seq(S)
             /\ \A j \in DOMAIN r : \E k \in DOMAIN s : r[j] = s[k]
             /\ \A k \in DOMAIN s : s[k] # s[i] => \E j \in DOMAIN r : r[j] = s[k]
<1> DEFINE u == SubSeq(s, 1, i - 1)
           v == SubSeq(s, i + 1, Len(s))
<1>1. /\ Len(s) \in Nat /\ DOMAIN s = 1 .. Len(s) /\ i \in 1 .. Len(s)
      /\ \A k \in DOMAIN s : s[k] \in S
  BY LenProperties, ElementOfSeq
<1>2. /\ u \in Seq(S) /\ Len(u) = i - 1
      /\ \A k \in 1 .. i - 1 : u[k] = s[k]
  BY <1>1, SubSeqProperties
<1>3. /\ v \in Seq(S) /\ Len(v) = Len(s) - i
      /\ \A k \in 1 .. Len(s) - i : v[k] = s[k + i]
  BY <1>1, SubSeqProperties
<1> HIDE DEF u, v
<1> DEFINE r == u \o v
<1>4. /\ r \in Seq(S) /\ Len(r) = Len(s) - 1
      /\ \A j \in 1 .. Len(s) - 1 : r[j] = IF j < i THEN s[j] ELSE s[j + 1]
  <2>1. /\ r \in Seq(S) /\ Len(r) = Len(u) + Len(v)
        /\ \A j \in 1 .. Len(u) + Len(v) :
             r[j] = IF j <= Len(u) THEN u[j] ELSE v[j - Len(u)]
    BY <1>2, <1>3, ConcatProperties
  <2> HIDE DEF r
  <2>2. Len(r) = Len(s) - 1
    BY <1>1, <1>2, <1>3, <2>1
  <2>3. ASSUME NEW j \in 1 .. Len(s) - 1, j < i PROVE r[j] = s[j]
    BY <1>1, <1>2, <1>3, <2>1, <2>3
  <2>4. ASSUME NEW j \in 1 .. Len(s) - 1, ~ (j < i) PROVE r[j] = s[j + 1]
    <3>1. /\ j \in 1 .. Len(u) + Len(v) /\ ~ (j <= Len(u))
          /\ j - Len(u) \in 1 .. Len(s) - i /\ (j - Len(u)) + i = j + 1
      BY <1>1, <1>2, <1>3, <2>4
    <3>2. r[j] = v[j - Len(u)]
      BY <2>1, <3>1
    <3> QED
      BY <1>3, <3>1, <3>2
  <2> QED
    BY <2>1, <2>2, <2>3, <2>4
<1>5. DOMAIN r = 1 .. Len(s) - 1
  BY <1>4, LenProperties
<1> HIDE DEF r
<1>6. \A j \in DOMAIN r : \E k \in DOMAIN s : r[j] = s[k]
  BY <1>1, <1>4, <1>5
<1>7. ASSUME NEW k \in DOMAIN s, s[k] # s[i] PROVE \E j \in DOMAIN r : r[j] = s[k]
  <2>1. CASE k < i
    <3>1. k \in DOMAIN r /\ r[k] = s[k]
      BY <1>1, <1>4, <1>5, <2>1
    <3> QED
      BY <3>1
  <2>2. CASE k > i
    <3>1. k - 1 \in DOMAIN r /\ r[k - 1] = s[k]
      BY <1>1, <1>4, <1>5, <2>2
    <3> QED
      BY <3>1
  <2> QED
    BY <1>1, <1>7, <2>1, <2>2
<1> QED
  BY <1>4, <1>6, <1>7 DEF r, u, v

\* The stopped contexts are positions in ctx_ptrs; the first is one of them.
LEMMA FirstStopped ==
  ASSUME TypeOK, StoppedContexts # {}
  PROVE  /\ First(StoppedContexts) \in DOMAIN ctxs
         /\ IsStopped(ctxs[First(StoppedContexts)])
<1>1. DOMAIN ctxs \subseteq Nat
  <2>1. ctxs \in Seq(Contexts)
    BY DEF TypeOK
  <2>2. DOMAIN ctxs = 1 .. Len(ctxs) /\ Len(ctxs) \in Nat
    BY <2>1, LenProperties
  <2> QED
    BY <2>2
<1>2. StoppedContexts \subseteq DOMAIN ctxs
  BY DEF StoppedContexts
<1>3. First(StoppedContexts) \in StoppedContexts
  BY <1>1, <1>2, FirstProperties
<1> QED
  BY <1>2, <1>3 DEF StoppedContexts

\* The same of the contexts with an ended thread, and of that thread.
LEMMA FirstUpdated ==
  ASSUME TypeOK, UpdatedContexts # {}
  PROVE  LET i == First(UpdatedContexts)
             c == ctxs[i]
             a == First({b \in Actions : HasEnded(c, b)})
         IN  /\ i \in DOMAIN ctxs /\ i + 1 \in Nat \ {0}
             /\ c \in Contexts
             /\ a \in Actions /\ HasEnded(c, a)
<1> DEFINE i == First(UpdatedContexts)
           c == ctxs[i]
           E == {b \in Actions : HasEnded(c, b)}
<1>1. DOMAIN ctxs = 1 .. Len(ctxs) /\ Len(ctxs) \in Nat
  BY LenProperties DEF TypeOK
<1>2. UpdatedContexts \subseteq 1 .. Len(ctxs) /\ UpdatedContexts \subseteq Nat
  <2> SUFFICES ASSUME NEW x \in UpdatedContexts
               PROVE  x \in 1 .. Len(ctxs) /\ x \in Nat
    OBVIOUS
  <2>1. x \in scan .. Len(ctxs)
    BY DEF UpdatedContexts
  <2>2. scan \in Nat \ {0}
    BY DEF TypeOK
  <2> QED
    BY <1>1, <2>1, <2>2
<1>3. i \in UpdatedContexts
  BY <1>2, FirstProperties
<1>4. E # {}
  BY <1>3 DEF UpdatedContexts
<1>5. E \subseteq Nat
  BY ActionRange
<1> HIDE DEF E, i
<1>6. First(E) \in E
  BY <1>4, <1>5, FirstProperties
<1>7. i \in DOMAIN ctxs /\ i + 1 \in Nat \ {0}
  BY <1>1, <1>2, <1>3
<1>8. c \in Contexts
  BY <1>1, <1>7, ElementOfSeq DEF TypeOK
<1> QED
  BY <1>6, <1>7, <1>8 DEF E, i

-----------------------------------------------------------------------------
(* Type correctness.                                                       *)

LEMMA InitType == Init => TypeOK
<1> SUFFICES ASSUME Init PROVE TypeOK
  OBVIOUS
<1>1. 0 \in Actions /\ <<>> \in Seq(Nat) /\ <<>> \in Seq(Contexts)
  BY ActionRange, ManifestAssumption DEF Actions
<1>2. /\ value \in [Contexts -> [Actions -> Values]]
      /\ pending \in [Contexts -> [Actions -> Seq(Nat)]]
      /\ started \in [Contexts -> [Actions -> BOOLEAN]]
      /\ stopped \in [Contexts -> [Actions -> BOOLEAN]]
      /\ exe \in [Contexts -> [Actions -> Executor]]
  <2>1. \A x, S : x \in S => All(x) \in [Contexts -> [Actions -> S]]
    BY Zenon DEF All
  <2>2. "" \in Values /\ "none" \in Executor /\ FALSE \in BOOLEAN
    BY DEF Values, Executor
  <2> QED
    BY <1>1, <2>1, <2>2, Zenon DEF Init
<1>3. /\ init \in [Contexts -> Initializers]
      /\ \A c \in Contexts : init[c].at = "none"
  <2>1. [at |-> "none", i |-> 0, start |-> 0, target |-> 0] \in Initializers
    BY <1>1, ActionRange DEF Initializers
  <2> QED
    BY <2>1 DEF Init
<1>4. /\ posted \in [Contexts -> Nat] /\ index \in [Contexts -> Nat]
      /\ answer \in [Contexts -> {"none", "complete", "partial", "preempted"}]
      /\ joined \in [Contexts -> BOOLEAN] /\ refused \in [Contexts -> BOOLEAN]
  BY DEF Init
<1>5. /\ main \in MainLocations /\ main \notin {"next", "notify", "yield"}
      /\ site \in {"post", "update", "advance"}
      /\ signal \in BOOLEAN /\ local \in BOOLEAN
      /\ ctxs \in Seq(Contexts) /\ cur \in Contexts
      /\ todo \in Seq(Nat) /\ from \in Actions /\ key \in 0 .. N
      /\ scan \in Nat \ {0}
  <2>1. /\ main = "loop" /\ signal = FALSE /\ local = FALSE /\ ctxs = <<>>
        /\ cur \in Contexts /\ todo = <<>> /\ key = 0 /\ from = 0
        /\ site = "post" /\ scan = 1
    BY Zenon DEF Init
  <2>2. /\ main \in MainLocations /\ main \notin {"next", "notify", "yield"}
        /\ site \in {"post", "update", "advance"} /\ scan \in Nat \ {0}
    BY <2>1 DEF MainLocations
  <2>3. 0 \in Actions /\ 0 \in 0 .. N
    BY ActionRange
  <2> QED
    BY <1>1, <2>1, <2>2, <2>3, Zenon
<1> QED
  BY <1>2, <1>3, <1>4, <1>5 DEF TypeOK

\* stop_thread keeps the types of what it changes.
LEMMA StopType ==
  ASSUME TypeOK, NEW c \in Contexts, NEW S, StopThreads(c, S)
  PROVE  /\ pending' \in [Contexts -> [Actions -> Seq(Nat)]]
         /\ started' \in [Contexts -> [Actions -> BOOLEAN]]
         /\ stopped' \in [Contexts -> [Actions -> BOOLEAN]]
         /\ exe' \in [Contexts -> [Actions -> Executor]]
<1>1. Cleared(pending[c], S) \in [Actions -> Seq(Nat)]
  BY DEF TypeOK, Cleared
<1>2. pending' \in [Contexts -> [Actions -> Seq(Nat)]]
  BY <1>1 DEF StopThreads, TypeOK
<1>3. /\ started' \in [Contexts -> [Actions -> BOOLEAN]]
      /\ stopped' \in [Contexts -> [Actions -> BOOLEAN]]
  BY DEF StopThreads, TypeOK
<1>4. \A a \in Actions : Woken(exe[c][a]) \in Executor
  BY DEF TypeOK, Woken, Executor
<1>5. exe' \in [Contexts -> [Actions -> Executor]]
  BY <1>4 DEF StopThreads, TypeOK
<1> QED
  BY <1>2, <1>3, <1>5

\* What the main thread's own steps do to the types.
LEMMA MainType ==
  ASSUME TypeOK, MainStep \/ MainReturns
  PROVE  TypeOK'
<1> USE DEF MainLocations
<1>1. CASE ReadSignal
  BY <1>1 DEF ReadSignal, TypeOK, ctxVars, threadVars
<1>2. CASE Routed
  BY <1>2 DEF Routed, TypeOK, ctxVars, threadVars
<1>3. CASE RefuseOne
  <2>1. CASE key < N
    <3>1. key \in Actions /\ key + 1 \in 0 .. N /\ cur \in Contexts
      BY <2>1, ManifestAssumption DEF TypeOK, Actions
    <3>2. StopThreads(cur, {key})
      BY <1>3, <2>1 DEF RefuseOne
    <3>3. value' \in [Contexts -> [Actions -> Values]]
      <4>1. Nulled(value[cur][key]) \in Values
        BY <3>1 DEF TypeOK, Nulled, Values
      <4>2. value' = [value EXCEPT ![cur][key] = Nulled(@)]
        BY <1>3, <2>1 DEF RefuseOne
      <4> QED
        BY <3>1, <4>1, <4>2 DEF TypeOK
    <3>4. UNCHANGED <<main, signal, local, ctxs, cur, todo, from, site, scan,
                      ctxVars, init>> /\ key' = key + 1 /\ main = "refuse"
      BY <1>3, <2>1 DEF RefuseOne
    <3> QED
      BY <3>1, <3>2, <3>3, <3>4, StopType DEF TypeOK, ctxVars
  <2>2. CASE ~ (key < N)
    BY <1>3, <2>2, ManifestAssumption DEF RefuseOne, TypeOK, ctxVars, threadVars
  <2> QED
    BY <2>1, <2>2
<1>4. CASE PickIndex
  <2>1. CASE todo = <<>>
    BY <1>4, <2>1 DEF PickIndex, TypeOK, ctxVars, threadVars
  <2>2. CASE todo # <<>>
    <3>1. Head(todo) \in Nat
      BY <2>2, HeadTailProperties DEF TypeOK
    <3>2. key' \in Actions /\ key' \in 0 .. N
      <4>1. key' = IF site = "update" THEN Head(todo) % N ELSE from
        BY <1>4, <2>2 DEF PickIndex
      <4>2. key' \in Actions
        BY <3>1, <4>1, ActionRange DEF TypeOK
      <4> QED
        BY <4>2, ActionRange
    <3> QED
      BY <1>4, <2>2, <3>2 DEF PickIndex, TypeOK, ctxVars, threadVars
  <2> QED
    BY <2>1, <2>2
<1>5. CASE NextIsNone
  <2>1. CASE site = "update"
    <3>1. StopThreads(cur, Actions) /\ todo' = <<>> /\ main' = "leave"
      BY <1>5, <2>1 DEF NextIsNone
    <3>2. UNCHANGED <<signal, local, ctxs, cur, key, from, site, scan, ctxVars,
                      value, init>>
      BY <1>5 DEF NextIsNone
    <3> QED
      BY <3>1, <3>2, StopType DEF TypeOK, ctxVars
  <2>2. CASE site # "update"
    BY <1>5, <2>2 DEF NextIsNone, TypeOK, ctxVars
  <2> QED
    BY <2>1, <2>2
<1>6. CASE NextRecurses
  <2>1. key \in Actions /\ cur \in Contexts
    BY <1>6 DEF NextRecurses, TypeOK
  <2>2. key' \in Actions
    <3>1. CASE value[cur][key] # ""
      BY <1>6, <2>1, <3>1, ActionRange DEF NextRecurses
    <3>2. CASE value[cur][key] = ""
      <4>1. Missing(cur, key) # {}
        BY <1>6, <3>2 DEF NextRecurses, IsReady
      <4>2. key' = FirstMissing(cur, key, Head(todo))
        BY <1>6, <3>2 DEF NextRecurses
      <4> QED
        BY <2>1, <4>1, <4>2, FirstMissingType
    <3> QED
      BY <3>1, <3>2
  <2>3. key' \in 0 .. N
    BY <2>2, ManifestAssumption DEF Actions
  <2> QED
    BY <1>6, <2>2, <2>3 DEF NextRecurses, TypeOK, ctxVars, threadVars
<1>7. CASE NextFound
  <2>1. key \in Actions /\ 0 \in 0 .. N
    BY <1>7, ManifestAssumption DEF NextFound, TypeOK
  <2>2. init' \in [Contexts -> Initializers]
    BY <1>7, <2>1 DEF NextFound, TypeOK, Initializers
  <2> QED
    BY <1>7, <2>1, <2>2 DEF NextFound, TypeOK, ctxVars, threadVars
<1>8. CASE NotifyNext
  <2>1. key \in Actions /\ cur \in Contexts /\ todo \in Seq(Nat)
    BY <1>8 DEF NotifyNext, TypeOK
  <2>2. pending' \in [Contexts -> [Actions -> Seq(Nat)]] /\ todo' \in Seq(Nat)
    <3>1. Head(todo) \in Nat /\ Tail(todo) \in Seq(Nat)
      BY <1>8, <2>1, HeadTailProperties DEF NotifyNext, TypeOK
    <3>2. Append(pending[cur][key], Head(todo)) \in Seq(Nat)
      BY <2>1, <3>1, AppendProperties DEF TypeOK
    <3> QED
      BY <1>8, <2>1, <3>1, <3>2 DEF NotifyNext, Notify, TypeOK
  <2>3. started' \in [Contexts -> [Actions -> BOOLEAN]]
    BY <1>8, <2>1 DEF NotifyNext, Notify, TypeOK
  <2>4. /\ UNCHANGED <<signal, local, ctxs, cur, key, from, site, scan, ctxVars,
                      value, stopped, exe, init>>
        /\ main' = "yield"
    BY <1>8 DEF NotifyNext, Notify
  <2> QED
    BY <2>1, <2>2, <2>3, <2>4 DEF TypeOK, ctxVars
<1>9. CASE AnswerStopped
  <2> DEFINE i == First(StoppedContexts)
             c == ctxs[i]
  <2>1. i \in DOMAIN ctxs /\ c \in Contexts
    <3>1. i \in DOMAIN ctxs
      BY <1>9, FirstStopped DEF AnswerStopped
    <3> HIDE DEF i
    <3> QED
      BY <3>1, ElementOfSeq, LenProperties DEF TypeOK
  <2>2. /\ pending' = [pending EXCEPT ![c] = [a \in Actions |-> <<>>]]
        /\ answer' = [answer EXCEPT ![c] = Response(c)]
        /\ ctxs' = SubSeq(ctxs, 1, i - 1) \o SubSeq(ctxs, i + 1, Len(ctxs))
        /\ UNCHANGED <<main, signal, local, cur, todo, key, from, site, scan,
                      posted, index, joined, refused, value, started, stopped,
                      exe, init>>
    BY <1>9 DEF AnswerStopped
  <2>3. Response(c) \in {"none", "complete", "partial", "preempted"}
    BY Zenon DEF Response
  <2> HIDE DEF i, c
  <2>4. ctxs' \in Seq(Contexts)
    BY <2>1, <2>2, EraseProperties DEF TypeOK
  <2>5. answer' \in [Contexts -> {"none", "complete", "partial", "preempted"}]
    BY <2>1, <2>2, <2>3 DEF TypeOK
  <2>6. pending' \in [Contexts -> [Actions -> Seq(Nat)]]
    BY <2>1, <2>2 DEF TypeOK
  <2> QED
    BY <2>2, <2>4, <2>5, <2>6 DEF TypeOK
<1>10. CASE NoneStopped
  BY <1>10 DEF NoneStopped, TypeOK, ctxVars, threadVars
<1>11. CASE TakeEnded
  <2> DEFINE i == First(UpdatedContexts)
             c == ctxs[i]
             a == First({b \in Actions : HasEnded(c, b)})
  <2>1. i \in DOMAIN ctxs /\ i + 1 \in Nat \ {0} /\ c \in Contexts
        /\ a \in Actions
    BY <1>11, FirstUpdated DEF TakeEnded
  <2>2. /\ todo' = pending[c][a]
        /\ pending' = [pending EXCEPT ![c] = [pending[c] EXCEPT ![a] = <<>>]]
        /\ cur' = c /\ from' = After(a) /\ scan' = i + 1
        /\ site' = "advance" /\ main' = "pick"
        /\ UNCHANGED <<signal, local, ctxs, key, ctxVars, value, started,
                      stopped, exe, init>>
    BY <1>11 DEF TakeEnded, Taken
  <2> HIDE DEF i, c, a
  <2>3. After(a) \in Actions
    BY <2>1, ActionRange
  <2>4. pending' \in [Contexts -> [Actions -> Seq(Nat)]] /\ todo' \in Seq(Nat)
    <3>1. pending[c][a] \in Seq(Nat)
      BY <2>1 DEF TypeOK
    <3>2. [pending[c] EXCEPT ![a] = <<>>] \in [Actions -> Seq(Nat)]
      BY <2>1 DEF TypeOK
    <3> QED
      BY <2>1, <2>2, <3>1, <3>2 DEF TypeOK
  <2> QED
    BY <2>1, <2>2, <2>3, <2>4 DEF TypeOK, ctxVars
<1>12. CASE NoneUpdated
  BY <1>12 DEF NoneUpdated, TypeOK, ctxVars, threadVars
<1>13. CASE Notified
  <2>1. key \in Actions /\ cur \in Contexts
    BY <1>13 DEF Notified, TypeOK
  <2>2. exe' \in [Contexts -> [Actions -> Executor]]
    <3>1. Woken(exe[cur][key]) \in Executor
      BY <2>1 DEF TypeOK, Woken, Executor
    <3> QED
      BY <1>13, <2>1, <3>1 DEF Notified, TypeOK
  <2>3. /\ UNCHANGED <<signal, local, ctxs, cur, todo, key, from, site, scan,
                      ctxVars, value, pending, started, stopped, init>>
        /\ main' \in {"routed", "pick"}
    BY <1>13 DEF Notified
  <2> QED
    BY <2>2, <2>3 DEF TypeOK, ctxVars
<1>14. CASE Rescheduled
  BY <1>14 DEF Rescheduled, TypeOK, ctxVars, threadVars
<1> QED
  BY <1>1, <1>2, <1>3, <1>4, <1>5, <1>6, <1>7, <1>8, <1>9, <1>10, <1>11, <1>12,
     <1>13, <1>14 DEF MainStep, MainReturns

\* What the messages do to the types.
LEMMA RequestType ==
  ASSUME TypeOK, Request
  PROVE  TypeOK'
<1> USE DEF MainLocations
<1>1. ASSUME NEW c \in Contexts, NEW i \in Indices, PostRun(c, i) PROVE TypeOK'
  <2>1. i \in Nat /\ i % N \in Actions /\ i % N \in 0 .. N
    BY IndexAssumption, ActionRange
  <2>2. <<i>> \in Seq(Nat) /\ <<i>> # <<>>
    BY <2>1
  <2>3. Append(ctxs, c) \in Seq(Contexts)
    BY AppendProperties DEF TypeOK
  <2>4. /\ posted' \in [Contexts -> Nat] /\ index' \in [Contexts -> Nat]
    BY <1>1, <2>1 DEF PostRun, TypeOK
  <2> QED
    BY <1>1, <2>1, <2>2, <2>3, <2>4 DEF PostRun, TypeOK, threadVars
<1>2. ASSUME NEW c \in Contexts, PostAgain(c) PROVE TypeOK'
  BY <1>2 DEF PostAgain, TypeOK, threadVars
<1>3. ASSUME NEW c \in Contexts, NEW a \in Actions, PeerUpdate(c, a)
      PROVE  TypeOK'
  <2>1. value' \in [Contexts -> [Actions -> Values]]
    <3>1. PICK viaPut \in BOOLEAN :
            value' = [value EXCEPT ![c][a] = IF Replaced(@, viaPut) THEN "peer"
                                             ELSE @]
      BY <1>3 DEF PeerUpdate
    <3> QED
      BY <3>1 DEF TypeOK, Values
  <2>2. StopThreads(c, {a}) /\ pending[c][a] \in Seq(Nat)
    BY <1>3 DEF PeerUpdate, TypeOK
  <2>3. /\ joined' = [joined EXCEPT ![c] = TRUE] /\ signal' = TRUE /\ cur' = c
        /\ todo' = pending[c][a] /\ site' = "update" /\ main' = "pick"
        /\ UNCHANGED <<local, ctxs, key, from, scan, posted, index, answer,
                      refused, init>>
    BY <1>3 DEF PeerUpdate
  <2>4. joined' \in [Contexts -> BOOLEAN]
    BY <2>3 DEF TypeOK
  <2> QED
    BY <2>1, <2>2, <2>3, <2>4, StopType DEF TypeOK
<1>4. ASSUME NEW c \in Contexts, PeerRefuses(c) PROVE TypeOK'
  <2>1. refused' \in [Contexts -> BOOLEAN] /\ key' \in 0 .. N
    BY <1>4, ActionRange DEF PeerRefuses, TypeOK
  <2> QED
    BY <1>4, <2>1 DEF PeerRefuses, TypeOK, threadVars
<1> QED
  BY <1>1, <1>2, <1>3, <1>4 DEF Request

\* An initializer inside the manifest stays inside it.
InsideManifest ==
  \A c \in Contexts :
    init[c].at \in {"fork", "sync", "slice", "yield"} => init[c].i # N

\* What the initializer of c may change.
LEMMA InitializerType ==
  ASSUME TypeOK, NEW c \in Contexts, InitializerStep(c) \/ InitializerReturns(c)
  PROVE  /\ exe' \in [Contexts -> [Actions -> Executor]]
         /\ init' \in [Contexts -> Initializers]
         /\ InsideManifest'
         /\ signal' \in BOOLEAN
         /\ UNCHANGED initializerFrame
<1>0. UNCHANGED initializerFrame
  BY DEF InitializerStep, InitializerReturns
<1>1. /\ init \in [Contexts -> Initializers] /\ InsideManifest
      /\ init[c] \in Initializers /\ init[c].i \in 0 .. N
      /\ init[c].start \in Actions /\ init[c].target \in Actions
      /\ init[c].i \in Nat /\ init[c].start \in Nat
  <2>1. init \in [Contexts -> Initializers] /\ InsideManifest
    BY DEF TypeOK, InsideManifest
  <2>2. init[c] \in Initializers
    BY <2>1
  <2>3. /\ init[c].i \in 0 .. N
        /\ init[c].start \in Actions /\ init[c].target \in Actions
    BY <2>2 DEF Initializers
  <2>4. init[c].start \in Nat
    BY <2>3, ActionRange, Zenon
  <2>5. init[c].i \in Nat
    <3>1. 0 .. N \subseteq Nat
      BY ManifestAssumption
    <3> QED
      BY <2>3, <3>1, Zenon
  <2> QED
    BY <2>1, <2>2, <2>3, <2>4, <2>5
<1>2. Mine(c) \in Actions
  BY <1>1, ActionRange DEF Mine
<1>3. ASSUME NEW l \in {"loop", "fork", "sync", "slice", "yield", "done"},
             init' = [init EXCEPT ![c].at = l],
             l \in {"fork", "sync", "slice", "yield"} => init[c].i # N
      PROVE  init' \in [Contexts -> Initializers] /\ InsideManifest'
  BY <1>1, <1>3 DEF Initializers, InsideManifest
<1>4. ASSUME init[c].i # N,
             \/ init' = [init EXCEPT ![c].i = @ + 1] /\ init[c].at = "loop"
             \/ init' = [init EXCEPT ![c].at = "loop", ![c].i = @ + 1]
      PROVE  init' \in [Contexts -> Initializers] /\ InsideManifest'
  <2>1. init[c].i + 1 \in 0 .. N
    BY <1>1, <1>4, ManifestAssumption
  <2>2. init' \in [Contexts -> Initializers]
    BY <1>1, <1>4, <2>1 DEF Initializers
  <2>3. InsideManifest'
    BY <1>1, <1>4 DEF Initializers, InsideManifest
  <2> QED
    BY <2>2, <2>3
<1>5. ASSUME NEW a \in Actions, Fork(c, a), init[c].i # N
      PROVE  /\ exe' \in [Contexts -> [Actions -> Executor]]
             /\ init' \in [Contexts -> Initializers] /\ InsideManifest'
  <2>1. exe' \in [Contexts -> [Actions -> Executor]]
    BY <1>5 DEF Fork, Goto, TypeOK, Executor
  <2>2. init' \in [Contexts -> Initializers]
    BY <1>1, <1>5 DEF Fork, Initializers
  <2>3. InsideManifest'
    BY <1>1, <1>5 DEF Fork, Initializers, InsideManifest
  <2> QED
    BY <2>1, <2>2, <2>3
<1>6. exe \in [Contexts -> [Actions -> Executor]] /\ signal \in BOOLEAN
  BY DEF TypeOK
<1>7. CASE InitializerNext(c)
  <2>1. init[c].i < N => init[c].i # N
    BY <1>1, ManifestAssumption
  <2>2. init[c].at = "loop"
    BY <1>7 DEF InitializerNext
  <2>3. \/ init' = [init EXCEPT ![c].at = "done"] /\ UNCHANGED <<signal, exe>>
        \/ /\ init[c].i < N /\ init' = [init EXCEPT ![c].i = @ + 1]
           /\ signal' = TRUE /\ UNCHANGED exe
        \/ init[c].i < N /\ Fork(c, Mine(c)) /\ UNCHANGED signal
        \/ /\ init[c].i < N /\ init' = [init EXCEPT ![c].at = "slice"]
           /\ UNCHANGED <<signal, exe>>
    BY <1>7, Zenon DEF InitializerNext, SignalEnd
  <2>4. signal' \in BOOLEAN
    BY <1>6, <2>3
  <2>5. /\ exe' \in [Contexts -> [Actions -> Executor]]
        /\ init' \in [Contexts -> Initializers] /\ InsideManifest'
    BY <1>2, <1>3, <1>4, <1>5, <1>6, <2>1, <2>2, <2>3
  <2> QED
    BY <1>0, <2>4, <2>5
<1>8. CASE InitializerForked(c)
  <2>1. init[c].i # N
    BY <1>1, <1>8 DEF InitializerForked, InsideManifest
  <2>2. /\ \/ init' = [init EXCEPT ![c].at = "slice"]
           \/ init' = [init EXCEPT ![c].at = "sync"]
        /\ \/ exe' = [exe EXCEPT ![c][init[c].target] = "ended"]
           \/ exe' = [exe EXCEPT ![c][init[c].target] = "launch"]
        /\ signal' = TRUE \/ UNCHANGED signal
    BY <1>8, Zenon DEF InitializerForked, Goto, SignalEnd
  <2>3. init' \in [Contexts -> Initializers] /\ InsideManifest'
    BY <1>3, <2>1, <2>2
  <2>4. exe' \in [Contexts -> [Actions -> Executor]]
    <3>1. \A l \in Executor : [exe EXCEPT ![c][init[c].target] = l]
                                \in [Contexts -> [Actions -> Executor]]
      BY <1>1, <1>6
    <3>2. "ended" \in Executor /\ "launch" \in Executor
      BY DEF Executor
    <3> QED
      BY <2>2, <3>1, <3>2
  <2>5. signal' \in BOOLEAN
    BY <1>6, <2>2
  <2> QED
    BY <1>0, <2>3, <2>4, <2>5
<1>9. CASE InitializerSynced(c)
  <2>1. init[c].i # N
    BY <1>1, <1>9 DEF InitializerSynced, InsideManifest
  <2>2. init' = [init EXCEPT ![c].at = "slice"] /\ UNCHANGED <<signal, exe>>
    BY <1>9 DEF InitializerSynced
  <2> QED
    BY <1>3, <1>6, <1>0, <2>1, <2>2
<1>10. CASE InitializerSlice(c)
  <2>1. init[c].i # N
    BY <1>1, <1>10 DEF InitializerSlice, InsideManifest
  <2>2. /\ \/ init' = [init EXCEPT ![c].at = "loop", ![c].i = @ + 1]
           \/ init' = [init EXCEPT ![c].at = "yield"]
        /\ UNCHANGED <<signal, exe>>
    BY <1>10, Zenon DEF InitializerSlice
  <2>3. init' \in [Contexts -> Initializers] /\ InsideManifest'
    BY <1>3, <1>4, <2>1, <2>2
  <2> QED
    BY <1>6, <1>0, <2>2, <2>3
<1>11. CASE InitializerYielded(c)
  <2> DEFINE W == Waiting(c)
  <2>1. init[c].i # N
    BY <1>1, <1>11 DEF InitializerYielded, InsideManifest
  <2>2. W # {} => First(W) \in Actions
    <3>1. W \subseteq Nat /\ W \subseteq Actions
      BY ActionRange DEF Waiting
    <3> HIDE DEF W
    <3> QED
      BY <3>1, FirstProperties
  <2>3. /\ \/ /\ init' = [init EXCEPT ![c].at = "loop", ![c].i = @ + 1]
              /\ UNCHANGED exe
           \/ W # {} /\ Fork(c, First(W))
           \/ init' = [init EXCEPT ![c].at = "slice"] /\ UNCHANGED exe
        /\ UNCHANGED signal
    BY <1>11, Zenon DEF InitializerYielded
  <2> HIDE DEF W
  <2>4. /\ exe' \in [Contexts -> [Actions -> Executor]]
        /\ init' \in [Contexts -> Initializers] /\ InsideManifest'
    BY <1>3, <1>4, <1>5, <1>6, <2>1, <2>2, <2>3
  <2> QED
    BY <1>6, <1>0, <2>3, <2>4
<1> QED
  BY <1>7, <1>8, <1>9, <1>10, <1>11, <1>0 DEF InitializerStep, InitializerReturns

\* What the executor of c's action a may change.
LEMMA ExecutorType ==
  ASSUME TypeOK, NEW c \in Contexts, NEW a \in Actions,
         ExecutorStep(c, a) \/ ExecutorFault(c, a)
  PROVE  /\ exe' \in [Contexts -> [Actions -> Executor]]
         /\ value' \in [Contexts -> [Actions -> Values]]
         /\ stopped' \in [Contexts -> [Actions -> BOOLEAN]]
         /\ signal' \in BOOLEAN
         /\ UNCHANGED executorFrame
<1>1. PICK l \in Executor : exe' = [exe EXCEPT ![c][a] = l]
  BY Zenon DEF ExecutorStep, ExecutorFault, ExecutorRuns, Preempted, Launched,
    WaitChecks, FallAsleep, SpuriousWake, Unblocked, WriteParams, SubprocessGone,
    ReadResult, Finish, PostEnd, Leave, Goto, Executor
<1>2. value' = value \/ value' = [value EXCEPT ![c][a] = "own"]
  BY Zenon DEF ExecutorStep, ExecutorFault, ExecutorRuns, Preempted, Launched,
    WaitChecks, FallAsleep, SpuriousWake, Unblocked, WriteParams, SubprocessGone,
    ReadResult, Finish, PostEnd, Leave
<1>3. stopped' = stopped \/ stopped' = [stopped EXCEPT ![c][a] = TRUE]
  BY Zenon DEF ExecutorStep, ExecutorFault, ExecutorRuns, Preempted, Launched,
    WaitChecks, FallAsleep, SpuriousWake, Unblocked, WriteParams, SubprocessGone,
    ReadResult, Finish, PostEnd, Leave
<1>4. signal' = signal \/ signal' = TRUE
  BY Zenon DEF ExecutorStep, ExecutorFault, ExecutorRuns, Preempted, Launched,
    WaitChecks, FallAsleep, SpuriousWake, Unblocked, WriteParams, SubprocessGone,
    ReadResult, Finish, PostEnd, Leave, SignalEnd
<1>5. exe' \in [Contexts -> [Actions -> Executor]]
  BY <1>1 DEF TypeOK
<1>6. value' \in [Contexts -> [Actions -> Values]]
  <2>1. [value EXCEPT ![c][a] = "own"] \in [Contexts -> [Actions -> Values]]
    BY DEF TypeOK, Values
  <2> QED
    BY <1>2, <2>1 DEF TypeOK
<1>7. stopped' \in [Contexts -> [Actions -> BOOLEAN]] /\ signal' \in BOOLEAN
  <2>1. [stopped EXCEPT ![c][a] = TRUE] \in [Contexts -> [Actions -> BOOLEAN]]
    BY DEF TypeOK
  <2>2. stopped' \in [Contexts -> [Actions -> BOOLEAN]]
    BY <1>3, <2>1, Zenon DEF TypeOK
  <2> QED
    BY <1>4, <2>2, Zenon DEF TypeOK
<1> QED
  BY <1>5, <1>6, <1>7 DEF ExecutorStep, ExecutorFault

\* Every step keeps the types.
LEMMA NextType == TypeOK /\ [Next]_vars => TypeOK'
<1> SUFFICES ASSUME TypeOK, [Next]_vars PROVE TypeOK'
  OBVIOUS
<1>1. CASE MainStep \/ MainReturns
  BY <1>1, MainType
<1>2. CASE Request
  BY <1>2, RequestType
<1>3. ASSUME NEW c \in Contexts, InitializerStep(c) \/ InitializerReturns(c)
      PROVE  TypeOK'
  BY <1>3, InitializerType DEF TypeOK, ctxVars, initializerFrame, InsideManifest
<1>4. ASSUME NEW c \in Contexts, NEW a \in Actions,
             ExecutorStep(c, a) \/ ExecutorFault(c, a)
      PROVE  TypeOK'
  BY <1>4, ExecutorType DEF TypeOK, executorFrame, ctxVars
<1>5. CASE UNCHANGED vars
  BY <1>5 DEF TypeOK, vars, mainVars, ctxVars, threadVars
<1> QED
  BY <1>1, <1>2, <1>3, <1>4, <1>5 DEF Next

\* Type correctness: whatever the manifest, the search for an action and the
\* initializer stay inside it.
THEOREM TypeCorrect == Spec => []TypeOK
<1>1. Init => TypeOK
  BY InitType
<1>2. TypeOK /\ [Next]_vars => TypeOK'
  BY NextType
<1> QED
  BY <1>1, <1>2, PTL DEF Spec

-----------------------------------------------------------------------------
(* The inductive invariant, part by part.                                  *)

\* Nothing has happened to a context that was not posted.
Fresh ==
  \A c \in Contexts : posted[c] = 0 =>
    /\ c \notin Live /\ ~ refused[c] /\ InHand(c) = <<>>
    /\ \A a \in Actions : pending[c][a] = <<>> /\ ~ started[c][a]

\* Thread a has the execution index of c.
Holds(c, a) ==
  pending[c][a] = <<index[c]>> /\ \A b \in Actions \ {a} : pending[c][b] = <<>>

\* There is at most one execution index, on a thread or in the handler's hand.
AtMostOneIndex ==
  \A c \in Contexts :
    \/ NoIndex(c) /\ InHand(c) \in {<<>>, <<index[c]>>}
    \/ InHand(c) = <<>> /\ \E a \in Actions : Holds(c, a)

\* It is lost only when the context stops.
IndexKept ==
  \A c \in Live : ~ refused[c] /\ NoIndex(c) /\ InHand(c) = <<>> => IsStopped(c)

\* A thread that runs holds the index and has what its action needs.
RunnerHoldsIndex ==
  \A c \in Contexts, a \in Actions :
    started[c][a] /\ ~ stopped[c][a] => pending[c][a] # <<>> /\ HasParams(c, a)

\* A thread that ended, has a result or is past its wait has been started.
StartedFirst ==
  \A c \in Contexts, a \in Actions :
    \/ stopped[c][a] \/ value[c][a] # ""
    \/ exe[c][a] \in {"woken", "run", "result", "published"}
    => started[c][a]

\* A refused context loses its index for good, thread by thread.
RefusedIdle ==
  \A c \in Contexts : refused[c] =>
    /\ InHand(c) = <<>>
    /\ \A a \in Actions : \/ pending[c][a] = <<>>
                          \/ main = "refuse" /\ cur = c /\ a >= key

\* Only a refusal makes a value "null".
NullWhenRefused ==
  /\ main = "refuse" => refused[cur]
  /\ \A c \in Contexts, a \in Actions : value[c][a] = "null" => refused[c]

\* The action next has returned still has all its dependencies when its thread is
\* notified; while notify() yields the thread is started and has the only index.
ChosenIsReady ==
  /\ main = "notify" => Missing(cur, key) = {}
  /\ main = "yield" => todo = <<>> /\ started[cur][key]

IInv ==
  /\ TypeOK
  /\ Fresh /\ AtMostOneIndex /\ IndexKept /\ RunnerHoldsIndex
  /\ StartedFirst /\ RefusedIdle /\ NullWhenRefused /\ ChosenIsReady

PastWait == {"woken", "run", "result", "published"}

\* The initial state has no context.
LEMMA InitIInv == Init => IInv
<1> SUFFICES ASSUME Init PROVE IInv
  OBVIOUS
<1>1. TypeOK
  BY InitType
<1>2. /\ Live = {} /\ \A c \in Contexts : InHand(c) = <<>>
      /\ main \notin {"notify", "yield", "refuse"}
  <2>1. ctxs = <<>> /\ todo = <<>> /\ main = "loop"
    BY Zenon DEF Init
  <2>2. DOMAIN <<>> = {}
    OBVIOUS
  <2> QED
    BY <2>1, <2>2 DEF Live, InHand
<1>3. \A c \in Contexts, a \in Actions :
        /\ value[c][a] = "" /\ pending[c][a] = <<>> /\ exe[c][a] = "none"
        /\ ~ started[c][a] /\ ~ stopped[c][a]
  BY DEF Init, All
<1>4. \A c \in Contexts : ~ refused[c]
  BY DEF Init
<1>5. Fresh /\ AtMostOneIndex
  BY <1>2, <1>3, <1>4 DEF Fresh, AtMostOneIndex, NoIndex
<1>6. IndexKept /\ RefusedIdle /\ ChosenIsReady
  BY <1>2, <1>4 DEF IndexKept, RefusedIdle, ChosenIsReady
<1>7. RunnerHoldsIndex /\ StartedFirst /\ NullWhenRefused
  BY <1>2, <1>3 DEF RunnerHoldsIndex, StartedFirst, NullWhenRefused
<1> QED
  BY <1>1, <1>5, <1>6, <1>7 DEF IInv

\* Updating one thread's entry leaves every other one.
LEMMA OneEntry ==
  ASSUME NEW S, NEW f \in [Contexts -> [Actions -> S]],
         NEW c \in Contexts, NEW a \in Actions, NEW v
  PROVE  \A d \in Contexts, b \in Actions :
           [f EXCEPT ![c][a] = v][d][b] = IF d = c /\ b = a THEN v ELSE f[d][b]
OBVIOUS

\* A step that moves no index, starts and stops no thread and stores no value.
LEMMA QuietStep ==
  ASSUME IInv, TypeOK',
         UNCHANGED <<ctxs, index, refused, value, pending, started, stopped>>,
         \A c \in Contexts : posted'[c] = 0 => posted[c] = 0,
         \A c \in Contexts : InHand(c)' = InHand(c),
         \A c \in Contexts, a \in Actions :
           exe'[c][a] \in PastWait => started[c][a],
         main = "refuse" \/ main' = "refuse" => UNCHANGED <<main, cur, key>>,
         main' = "notify" => Missing(cur', key') = {},
         main' = "yield" => main = "yield" /\ UNCHANGED <<todo, cur, key>>
  PROVE  IInv'
<1>1. Live' = Live
  BY DEF Live
<1>2. \A c, a : Missing(c, a)' = Missing(c, a)
  BY DEF Missing
<1>3. Fresh'
  BY <1>1 DEF IInv, Fresh
<1>4. AtMostOneIndex'
  BY DEF IInv, AtMostOneIndex, NoIndex, Holds
<1>5. IndexKept'
  <2>1. \A c \in Live : c \in Contexts
    BY ElementOfSeq, LenProperties DEF IInv, TypeOK, Live
  <2> QED
    BY <1>1, <2>1 DEF IInv, IndexKept, NoIndex, IsStopped
<1>6. RunnerHoldsIndex'
  BY DEF IInv, RunnerHoldsIndex, HasParams
<1>7. StartedFirst'
  BY DEF IInv, StartedFirst, PastWait
<1>8. RefusedIdle'
  BY DEF IInv, RefusedIdle
<1>9. NullWhenRefused'
  BY DEF IInv, NullWhenRefused
<1>10. ChosenIsReady'
  BY <1>2 DEF IInv, ChosenIsReady
<1> QED
  BY <1>3, <1>4, <1>5, <1>6, <1>7, <1>8, <1>9, <1>10 DEF IInv

\* What shows that a thread has been started.
LEMMA StartedWhen ==
  ASSUME IInv, NEW d \in Contexts, NEW b \in Actions,
         stopped[d][b] \/ value[d][b] # "" \/ exe[d][b] \in PastWait
  PROVE  started[d][b]
BY DEF IInv, StartedFirst, PastWait

\* What stop_thread changes, thread by thread.
LEMMA StopEffect ==
  ASSUME TypeOK, NEW c \in Contexts, NEW S, StopThreads(c, S),
         NEW d \in Contexts, NEW b \in Actions
  PROVE  /\ pending'[d][b] = IF d = c /\ b \in S THEN <<>> ELSE pending[d][b]
         /\ stopped'[d][b] <=> (d = c /\ b \in S) \/ stopped[d][b]
         /\ started'[d][b] <=> (d = c /\ b \in S /\ ~ stopped[d][b]) \/ started[d][b]
         /\ exe'[d][b] # exe[d][b] => d = c /\ b \in S /\ ~ stopped[d][b]
<1>1. pending'[d][b] = IF d = c /\ b \in S THEN <<>> ELSE pending[d][b]
  BY DEF TypeOK, StopThreads, Cleared
<1>2. stopped'[d][b] <=> (d = c /\ b \in S) \/ stopped[d][b]
  <2>1. stopped' = [stopped EXCEPT ![c] =
                      [a \in Actions |-> a \in {x \in S : ~ stopped[c][x]} \/ stopped[c][a]]]
    BY DEF StopThreads
  <2>2. stopped \in [Contexts -> [Actions -> BOOLEAN]]
    BY DEF TypeOK
  <2>3. CASE d = c
    BY <2>1, <2>2, <2>3
  <2>4. CASE d # c
    BY <2>1, <2>2, <2>4
  <2> QED
    BY <2>3, <2>4
<1>3. started'[d][b] <=> (d = c /\ b \in S /\ ~ stopped[d][b]) \/ started[d][b]
  <2>1. started' = [started EXCEPT ![c] =
                      [a \in Actions |-> a \in {x \in S : ~ stopped[c][x]} \/ started[c][a]]]
    BY DEF StopThreads
  <2>2. started \in [Contexts -> [Actions -> BOOLEAN]]
    BY DEF TypeOK
  <2>3. CASE d = c
    BY <2>1, <2>2, <2>3
  <2>4. CASE d # c
    BY <2>1, <2>2, <2>4
  <2> QED
    BY <2>3, <2>4
<1>4. exe'[d][b] # exe[d][b] => d = c /\ b \in S /\ ~ stopped[d][b]
  BY DEF TypeOK, StopThreads
<1> QED
  BY <1>1, <1>2, <1>3, <1>4

\* Members of ctx_ptrs are contexts.
LEMMA LiveType == TypeOK => Live \subseteq Contexts
BY ElementOfSeq, LenProperties DEF TypeOK, Live

\* What an executor changes, with the reason it may.
LEMMA ExecutorEffect ==
  ASSUME IInv, NEW c \in Contexts, NEW a \in Actions,
         ExecutorStep(c, a) \/ ExecutorFault(c, a)
  PROVE  /\ \A d \in Contexts, b \in Actions :
              exe'[d][b] \in PastWait => exe[d][b] \in PastWait \/ started[d][b]
         /\ \/ stopped' = stopped
            \/ stopped' = [stopped EXCEPT ![c][a] = TRUE] /\ exe[c][a] \in PastWait
         /\ \/ value' = value
            \/ value' = [value EXCEPT ![c][a] = "own"] /\ exe[c][a] \in PastWait
         /\ UNCHANGED executorFrame
<1>1. \/ stopped' = stopped
      \/ stopped' = [stopped EXCEPT ![c][a] = TRUE] /\ exe[c][a] \in PastWait
  BY DEF ExecutorStep, ExecutorFault, ExecutorRuns, Preempted, Launched,
    WaitChecks, FallAsleep, SpuriousWake, Unblocked, WriteParams, SubprocessGone,
    ReadResult, Finish, PostEnd, Leave, PastWait
<1>2. \/ value' = value
      \/ value' = [value EXCEPT ![c][a] = "own"] /\ exe[c][a] \in PastWait
  BY DEF ExecutorStep, ExecutorFault, ExecutorRuns, Preempted, Launched,
    WaitChecks, FallAsleep, SpuriousWake, Unblocked, WriteParams, SubprocessGone,
    ReadResult, Finish, PostEnd, Leave, PastWait
<1>3. PICK l \in Executor :
        /\ exe' = [exe EXCEPT ![c][a] = l]
        /\ l \in PastWait => exe[c][a] \in PastWait \/ started[c][a]
  BY DEF ExecutorStep, ExecutorFault, ExecutorRuns, Preempted, Launched,
    WaitChecks, FallAsleep, SpuriousWake, Unblocked, WriteParams, SubprocessGone,
    ReadResult, Finish, PostEnd, Leave, Goto, Executor, PastWait
<1>4. exe \in [Contexts -> [Actions -> Executor]]
  BY DEF IInv, TypeOK
<1>5. \A d \in Contexts, b \in Actions :
        exe'[d][b] \in PastWait => exe[d][b] \in PastWait \/ started[d][b]
  <2>1. \A d \in Contexts, b \in Actions :
          exe'[d][b] = IF d = c /\ b = a THEN l ELSE exe[d][b]
    <3>1. exe' = [exe EXCEPT ![c][a] = l]
      BY <1>3
    <3> QED
      BY <1>4, <3>1
  <2> SUFFICES ASSUME NEW d \in Contexts, NEW b \in Actions, exe'[d][b] \in PastWait
               PROVE  exe[d][b] \in PastWait \/ started[d][b]
    OBVIOUS
  <2>2. CASE d = c /\ b = a
    BY <1>3, <2>1, <2>2, Zenon
  <2>3. CASE ~ (d = c /\ b = a)
    BY <2>1, <2>3, Zenon
  <2> QED
    BY <2>2, <2>3
<1> QED
  BY <1>1, <1>2, <1>5 DEF ExecutorStep, ExecutorFault

\* Results are only added: a dependency known stays known.
LEMMA ExecutorIInv ==
  ASSUME IInv, TypeOK', NEW c \in Contexts, NEW a \in Actions,
         ExecutorStep(c, a) \/ ExecutorFault(c, a)
  PROVE  IInv'
<1>1. /\ \A d \in Contexts, b \in Actions :
           exe'[d][b] \in PastWait => exe[d][b] \in PastWait \/ started[d][b]
      /\ \/ stopped' = stopped
         \/ stopped' = [stopped EXCEPT ![c][a] = TRUE] /\ exe[c][a] \in PastWait
      /\ \/ value' = value
         \/ value' = [value EXCEPT ![c][a] = "own"] /\ exe[c][a] \in PastWait
      /\ UNCHANGED executorFrame
  BY ExecutorEffect
<1>2. /\ stopped \in [Contexts -> [Actions -> BOOLEAN]]
      /\ value \in [Contexts -> [Actions -> Values]]
      /\ Live \subseteq Contexts /\ cur \in Contexts
  BY LiveType DEF IInv, TypeOK
<1>3. /\ \A d : Live' = Live /\ InHand(d)' = InHand(d) /\ (NoIndex(d)' <=> NoIndex(d))
      /\ \A d, b : Holds(d, b)' <=> Holds(d, b)
  BY <1>1 DEF executorFrame, ctxVars, Live, InHand, NoIndex, Holds
<1>4. \A d \in Contexts, b \in Actions :
        /\ stopped[d][b] => stopped'[d][b]
        /\ stopped'[d][b] => stopped[d][b] \/ exe[d][b] \in PastWait
  BY <1>1, <1>2
<1>5. \A d \in Contexts, b \in Actions :
        \/ value'[d][b] = value[d][b]
        \/ value'[d][b] = "own" /\ exe[d][b] \in PastWait
  BY <1>1, <1>2
<1>6. Fresh' /\ AtMostOneIndex'
  BY <1>1, <1>3 DEF IInv, Fresh, AtMostOneIndex, executorFrame, ctxVars
<1>7. IndexKept' /\ RefusedIdle'
  BY <1>1, <1>2, <1>3, <1>4 DEF IInv, IndexKept, RefusedIdle, IsStopped,
    executorFrame, ctxVars
<1>8. \A d \in Contexts, b \in Actions : HasParams(d, b) => HasParams(d, b)'
  BY <1>5, DepsAreActions DEF HasParams, Complete
<1>9. RunnerHoldsIndex'
  BY <1>1, <1>4, <1>8 DEF IInv, RunnerHoldsIndex, executorFrame
<1>10. StartedFirst'
  <2> SUFFICES ASSUME NEW d \in Contexts, NEW b \in Actions,
                      stopped'[d][b] \/ value'[d][b] # "" \/ exe'[d][b] \in PastWait
               PROVE  started'[d][b]
    BY DEF StartedFirst, PastWait
  <2>1. \/ stopped[d][b] \/ value[d][b] # ""
        \/ exe[d][b] \in PastWait \/ started[d][b]
    BY <1>1, <1>4, <1>5, Zenon
  <2>2. started[d][b]
    BY <2>1, StartedWhen
  <2> QED
    BY <1>1, <2>2 DEF executorFrame
<1>11. NullWhenRefused'
  BY <1>1, <1>5 DEF IInv, NullWhenRefused, executorFrame, ctxVars
<1>12. ChosenIsReady'
  <2> SUFFICES ASSUME main' = "notify" PROVE Missing(cur, key)' = {}
    BY <1>1 DEF IInv, ChosenIsReady, executorFrame
  <2>1. main = "notify" /\ cur' = cur /\ key' = key /\ key \in Actions
    BY <1>1 DEF executorFrame, IInv, TypeOK
  <2>2. Missing(cur, key) = {}
    BY <2>1 DEF IInv, ChosenIsReady
  <2> QED
    BY <1>2, <1>5, <2>1, <2>2, DepsAreActions DEF Missing
<1> QED
  BY <1>6, <1>7, <1>9, <1>10, <1>11, <1>12 DEF IInv

\* The handler takes the index of an ended thread.
LEMMA TakeIInv ==
  ASSUME IInv, TypeOK', TakeEnded
  PROVE  IInv'
<1>1. PICK i \in DOMAIN ctxs, c \in Contexts, a \in Actions :
        /\ i = First(UpdatedContexts) /\ c = ctxs[i]
        /\ a = First({b \in Actions : HasEnded(c, b)})
        /\ stopped[c][a] /\ pending[c][a] # <<>>
  <2>1. TypeOK /\ UpdatedContexts # {}
    BY DEF TakeEnded, IInv
  <2>2. /\ ctxs[First(UpdatedContexts)] \in Contexts
        /\ First({b \in Actions : HasEnded(ctxs[First(UpdatedContexts)], b)})
             \in Actions
        /\ First(UpdatedContexts) \in DOMAIN ctxs
        /\ HasEnded(ctxs[First(UpdatedContexts)],
             First({b \in Actions : HasEnded(ctxs[First(UpdatedContexts)], b)}))
    BY <2>1, FirstUpdated, Zenon
  <2> QED
    BY <2>2, Zenon DEF HasEnded
<1>2. /\ main = "updated" /\ todo' = pending[c][a]
      /\ pending' = [pending EXCEPT ![c] = [pending[c] EXCEPT ![a] = <<>>]]
      /\ cur' = c /\ main' = "pick"
      /\ UNCHANGED <<ctxs, ctxVars, value, started, stopped, exe>>
  BY <1>1 DEF TakeEnded, Taken
<1>3. \A d \in Contexts, b \in Actions :
        pending'[d][b] = IF d = c /\ b = a THEN <<>> ELSE pending[d][b]
  <2>1. pending \in [Contexts -> [Actions -> Seq(Nat)]]
    BY DEF IInv, TypeOK
  <2>2. pending' = [pending EXCEPT ![c] = [pending[c] EXCEPT ![a] = <<>>]]
    BY <1>2
  <2> QED
    BY <2>1, <2>2
<1>4. /\ \A d \in Contexts : InHand(d) = <<>>
      /\ \A d \in Contexts : InHand(d)' = IF d = c THEN pending[c][a] ELSE <<>>
      /\ Live' = Live /\ Live \subseteq Contexts
  BY <1>1, <1>2, LiveType DEF InHand, Live, IInv
<1>5. Holds(c, a) /\ NoIndex(c)'
  <2>1. Holds(c, a)
    BY <1>1 DEF IInv, AtMostOneIndex, NoIndex, Holds
  <2> QED
    BY <1>1, <1>3, <2>1 DEF Holds, NoIndex
<1>6. \A d \in Contexts : d # c => /\ NoIndex(d)' <=> NoIndex(d)
                                   /\ \A b \in Actions : Holds(d, b)' <=> Holds(d, b)
  BY <1>2, <1>3 DEF NoIndex, Holds, ctxVars
<1>7. posted[c] # 0 /\ ~ refused[c]
  BY <1>1, <1>2 DEF IInv, Fresh, RefusedIdle
<1>8. Fresh'
  BY <1>2, <1>3, <1>4, <1>7 DEF IInv, Fresh, ctxVars
<1>9. AtMostOneIndex'
  <2> SUFFICES ASSUME NEW d \in Contexts
               PROVE  (\/ NoIndex(d) /\ InHand(d) \in {<<>>, <<index[d]>>}
                       \/ InHand(d) = <<>> /\ \E b \in Actions : Holds(d, b))'
    BY DEF AtMostOneIndex
  <2>1. CASE d = c
    BY <1>2, <1>4, <1>5, <2>1 DEF Holds, ctxVars
  <2>2. CASE d # c
    BY <1>2, <1>4, <1>6, <2>2 DEF IInv, AtMostOneIndex, ctxVars
  <2> QED
    BY <2>1, <2>2
<1>10. IndexKept'
  BY <1>1, <1>2, <1>4, <1>6 DEF IInv, IndexKept, IsStopped, ctxVars
<1>11. RunnerHoldsIndex'
  BY <1>1, <1>2, <1>3 DEF IInv, RunnerHoldsIndex, HasParams
<1>12. StartedFirst' /\ NullWhenRefused' /\ ChosenIsReady'
  BY <1>2 DEF IInv, StartedFirst, NullWhenRefused, ChosenIsReady, ctxVars
<1>13. RefusedIdle'
  BY <1>2, <1>3, <1>4, <1>7 DEF IInv, RefusedIdle, ctxVars
<1> QED
  BY <1>8, <1>9, <1>10, <1>11, <1>12, <1>13 DEF IInv

\* The handler gives the index to the thread of the chosen action.
LEMMA NotifyIInv ==
  ASSUME IInv, TypeOK', NotifyNext
  PROVE  IInv'
<1>1. PICK c \in Contexts, a \in Actions : c = cur /\ a = key
  BY DEF NotifyNext, IInv, TypeOK
<1>0. /\ main = "notify"
      /\ todo \in Seq(Nat) /\ todo # <<>>
  BY DEF NotifyNext, IInv, TypeOK
<1>2. InHand(c) = todo
  BY <1>0, <1>1 DEF InHand
<1>3. NoIndex(c) /\ todo = <<index[c]>> /\ ~ refused[c] /\ posted[c] # 0
  BY <1>0, <1>1, <1>2 DEF IInv, AtMostOneIndex, RefusedIdle, Fresh
<1>4. /\ pending' = [pending EXCEPT ![c][a] = Append(@, Head(todo))]
      /\ started' = [started EXCEPT ![c][a] = TRUE]
      /\ todo' = Tail(todo) /\ main' = "yield"
      /\ UNCHANGED <<ctxs, cur, key, ctxVars, value, stopped, exe>>
  BY <1>1 DEF NotifyNext, Notify
<1>5. /\ Append(pending[c][a], Head(todo)) = <<index[c]>>
      /\ Tail(todo) = <<>>
  <2>1. \A x : Append(<<>>, Head(<<x>>)) = <<x>> /\ Tail(<<x>>) = <<>>
    OBVIOUS
  <2>2. pending[c][a] = <<>> /\ todo = <<index[c]>>
    BY <1>3 DEF NoIndex
  <2> QED
    BY <2>1, <2>2
<1>6. \A d \in Contexts, b \in Actions :
        /\ pending'[d][b] = IF d = c /\ b = a THEN <<index[c]>> ELSE pending[d][b]
        /\ started'[d][b] <=> (d = c /\ b = a) \/ started[d][b]
  <2>1. /\ pending \in [Contexts -> [Actions -> Seq(Nat)]]
        /\ started \in [Contexts -> [Actions -> BOOLEAN]]
    BY DEF IInv, TypeOK
  <2>2. /\ pending' = [pending EXCEPT ![c][a] = <<index[c]>>]
        /\ started' = [started EXCEPT ![c][a] = TRUE]
    BY <1>1, <1>4, <1>5
  <2>3. \A d \in Contexts, b \in Actions :
          pending'[d][b] = IF d = c /\ b = a THEN <<index[c]>> ELSE pending[d][b]
    BY <2>1, <2>2, OneEntry
  <2>4. \A d \in Contexts, b \in Actions :
          started'[d][b] <=> (d = c /\ b = a) \/ started[d][b]
    BY <2>1, <2>2, OneEntry
  <2> QED
    BY <2>3, <2>4
<1>7. /\ \A d \in Contexts : InHand(d)' = <<>>
      /\ \A d \in Contexts : d # c => InHand(d) = <<>>
      /\ Live' = Live /\ Live \subseteq Contexts
  BY <1>1, <1>4, <1>5, LiveType DEF InHand, Live, IInv
<1>8. Holds(c, a)' /\ ~ NoIndex(c)'
  <2>1. <<index[c]>> # <<>>
    OBVIOUS
  <2>2. index' = index
    BY <1>4 DEF ctxVars
  <2>3. /\ pending'[c][a] = <<index[c]>>
        /\ \A b \in Actions \ {a} : pending'[c][b] = pending[c][b]
    BY <1>6
  <2>4. \A b \in Actions : pending[c][b] = <<>>
    BY <1>3 DEF NoIndex
  <2> QED
    BY <2>1, <2>2, <2>3, <2>4 DEF Holds, NoIndex
<1>9. \A d \in Contexts : d # c => /\ NoIndex(d)' <=> NoIndex(d)
                                   /\ \A b \in Actions : Holds(d, b)' <=> Holds(d, b)
  BY <1>4, <1>6 DEF NoIndex, Holds, ctxVars
<1>10. Fresh'
  BY <1>0, <1>1, <1>3, <1>4, <1>6, <1>7 DEF IInv, Fresh, ctxVars
<1>11. AtMostOneIndex'
  <2> SUFFICES ASSUME NEW d \in Contexts
               PROVE  (\/ NoIndex(d) /\ InHand(d) \in {<<>>, <<index[d]>>}
                       \/ InHand(d) = <<>> /\ \E b \in Actions : Holds(d, b))'
    BY DEF AtMostOneIndex
  <2>1. CASE d = c
    <3>1. InHand(d)' = <<>> /\ Holds(d, a)'
      BY <1>7, <1>8, <2>1
    <3> QED
      BY <3>1
  <2>2. CASE d # c
    <3>1. InHand(d) = <<>> /\ InHand(d)' = <<>>
      BY <1>7, <2>2
    <3>2. NoIndex(d) \/ \E b \in Actions : Holds(d, b)
      BY <3>1 DEF IInv, AtMostOneIndex
    <3>3. NoIndex(d)' \/ \E b \in Actions : Holds(d, b)'
      BY <1>9, <2>2, <3>2
    <3> QED
      BY <3>1, <3>3
  <2> QED
    BY <2>1, <2>2
<1>12. IndexKept'
  BY <1>4, <1>7, <1>8, <1>9 DEF IInv, IndexKept, IsStopped, ctxVars
<1>13. HasParams(c, a)
  <2> SUFFICES ASSUME NEW k \in DOMAIN Deps[a]
               PROVE  Complete(value[c][Deps[a][k]])
    BY DEF HasParams
  <2>1. Deps[a][k] \in Actions
    BY <1>0, <1>1, DepsAreActions
  <2>2. value[c][Deps[a][k]] # ""
    BY <1>0, <1>1 DEF IInv, ChosenIsReady, Missing
  <2>3. value[c][Deps[a][k]] # "null"
    BY <1>0, <1>1, <1>3, <2>1 DEF IInv, NullWhenRefused
  <2> QED
    BY <2>2, <2>3 DEF Complete
<1>14. RunnerHoldsIndex'
  <2>1. <<index[c]>> # <<>>
    OBVIOUS
  <2> SUFFICES ASSUME NEW d \in Contexts, NEW b \in Actions,
                      started'[d][b], ~ stopped'[d][b]
               PROVE  pending'[d][b] # <<>> /\ HasParams(d, b)'
    BY DEF RunnerHoldsIndex
  <2>2. HasParams(d, b)' <=> HasParams(d, b)
    BY <1>4 DEF HasParams
  <2>3. CASE d = c /\ b = a
    BY <1>6, <1>13, <2>1, <2>2, <2>3
  <2>4. CASE ~ (d = c /\ b = a)
    <3>1. started[d][b] /\ ~ stopped[d][b] /\ pending'[d][b] = pending[d][b]
      BY <1>4, <1>6, <2>4
    <3> QED
      BY <2>2, <3>1 DEF IInv, RunnerHoldsIndex
  <2> QED
    BY <2>3, <2>4
<1>15. StartedFirst'
  BY <1>4, <1>6 DEF IInv, StartedFirst
<1>16. NullWhenRefused' /\ ChosenIsReady'
  <2>1. started'[cur'][key'] /\ todo' = <<>>
    BY <1>1, <1>4, <1>5, <1>6
  <2> QED
    BY <1>4, <2>1 DEF IInv, NullWhenRefused, ChosenIsReady, ctxVars
<1>17. RefusedIdle'
  BY <1>0, <1>1, <1>3, <1>4, <1>6, <1>7 DEF IInv, RefusedIdle, ctxVars
<1> QED
  BY <1>0, <1>10, <1>11, <1>12, <1>14, <1>15, <1>16, <1>17 DEF IInv

\* Answering a stopped context takes away only its own index.
LEMMA AnswerIInv ==
  ASSUME IInv, TypeOK', AnswerStopped
  PROVE  IInv'
<1>1. PICK i \in DOMAIN ctxs, c \in Contexts :
        i = First(StoppedContexts) /\ c = ctxs[i] /\ IsStopped(c)
  <2>1. TypeOK /\ StoppedContexts # {} /\ ctxs \in Seq(Contexts)
    BY DEF AnswerStopped, IInv, TypeOK
  <2>2. /\ First(StoppedContexts) \in DOMAIN ctxs
        /\ IsStopped(ctxs[First(StoppedContexts)])
    BY <2>1, FirstStopped
  <2>3. ctxs[First(StoppedContexts)] \in Contexts
    BY <2>1, <2>2, LenProperties, ElementOfSeq
  <2> QED
    BY <2>2, <2>3
<1>2. /\ main = "stopped"
      /\ pending' = [pending EXCEPT ![c] = [a \in Actions |-> <<>>]]
      /\ ctxs' = SubSeq(ctxs, 1, i - 1) \o SubSeq(ctxs, i + 1, Len(ctxs))
      /\ UNCHANGED <<main, cur, key, posted, index, refused, value, started,
                    stopped, exe>>
  BY <1>1 DEF AnswerStopped
<1>3. ctxs \in Seq(Contexts)
  BY DEF IInv, TypeOK
<1>4. Live' \subseteq Live
  <2>1. \A j \in DOMAIN ctxs' : \E k \in DOMAIN ctxs : ctxs'[j] = ctxs[k]
    <3>1. \A j \in DOMAIN (SubSeq(ctxs, 1, i - 1) \o SubSeq(ctxs, i + 1, Len(ctxs))) :
            \E k \in DOMAIN ctxs :
              (SubSeq(ctxs, 1, i - 1) \o SubSeq(ctxs, i + 1, Len(ctxs)))[j] = ctxs[k]
      BY <1>3, EraseProperties, Zenon
    <3> QED
      BY <1>2, <3>1, Zenon
  <2> QED
    BY <2>1 DEF Live
<1>5. \A d \in Contexts, b \in Actions :
        pending'[d][b] = IF d = c THEN <<>> ELSE pending[d][b]
  BY <1>2, <1>3 DEF IInv, TypeOK
<1>6. \A d \in Contexts : InHand(d) = <<>> /\ InHand(d)' = <<>>
  BY <1>2 DEF InHand
<1>7. /\ NoIndex(c)'
      /\ \A d \in Contexts : d # c => /\ NoIndex(d)' <=> NoIndex(d)
                                      /\ \A b \in Actions : Holds(d, b)' <=> Holds(d, b)
  BY <1>2, <1>3, <1>5 DEF NoIndex, Holds
<1>8. Fresh'
  BY <1>2, <1>4, <1>5, <1>6 DEF IInv, Fresh
<1>9. AtMostOneIndex'
  <2> SUFFICES ASSUME NEW d \in Contexts
               PROVE  (\/ NoIndex(d) /\ InHand(d) \in {<<>>, <<index[d]>>}
                       \/ InHand(d) = <<>> /\ \E b \in Actions : Holds(d, b))'
    BY DEF AtMostOneIndex
  <2>1. CASE d = c
    BY <1>6, <1>7, <2>1
  <2>2. CASE d # c
    BY <1>2, <1>6, <1>7, <2>2 DEF IInv, AtMostOneIndex
  <2> QED
    BY <2>1, <2>2
<1>10. IndexKept'
  <2>1. Live \subseteq Contexts
    BY LiveType DEF IInv
  <2> QED
    BY <1>1, <1>2, <1>4, <1>6, <1>7, <2>1 DEF IInv, IndexKept, IsStopped
<1>11. RunnerHoldsIndex'
  BY <1>1, <1>2, <1>5 DEF IInv, RunnerHoldsIndex, HasParams, IsStopped
<1>12. StartedFirst' /\ NullWhenRefused' /\ ChosenIsReady'
  BY <1>2 DEF IInv, StartedFirst, NullWhenRefused, ChosenIsReady
<1>13. RefusedIdle'
  BY <1>2, <1>5, <1>6 DEF IInv, RefusedIdle
<1> QED
  BY <1>8, <1>9, <1>10, <1>11, <1>12, <1>13 DEF IInv

\* A new context starts with its index in the handler's hand.
LEMMA PostIInv ==
  ASSUME IInv, TypeOK', NEW c \in Contexts, NEW i \in Indices, PostRun(c, i)
  PROVE  IInv'
<1>1. /\ main = "route" /\ posted[c] = 0 /\ ctxs' = Append(ctxs, c)
      /\ posted' = [posted EXCEPT ![c] = 1] /\ index' = [index EXCEPT ![c] = i]
      /\ cur' = c /\ todo' = <<i>> /\ main' = "next"
      /\ UNCHANGED <<refused, value, pending, started, stopped, exe>>
  BY DEF PostRun, threadVars
<1>2. /\ posted'[c] # 0 /\ index'[c] = i
      /\ \A d \in Contexts : d # c => posted'[d] = posted[d] /\ index'[d] = index[d]
  BY <1>1 DEF IInv, TypeOK
<1>3. /\ c \notin Live /\ ~ refused[c]
      /\ \A a \in Actions : pending[c][a] = <<>> /\ ~ started[c][a]
  BY <1>1 DEF IInv, Fresh
<1>4. /\ Live \subseteq Contexts
      /\ \A d \in Live' : d = c \/ d \in Live
  <2>1. /\ Append(ctxs, c) \in Seq(Contexts)
        /\ DOMAIN Append(ctxs, c) = 1 .. Len(ctxs) + 1
        /\ DOMAIN ctxs = 1 .. Len(ctxs) /\ Len(ctxs) \in Nat
        /\ Append(ctxs, c)[Len(ctxs) + 1] = c
        /\ \A k \in 1 .. Len(ctxs) : Append(ctxs, c)[k] = ctxs[k]
    BY AppendProperties, LenProperties DEF IInv, TypeOK
  <2>2. \A k \in 1 .. Len(ctxs) + 1 : k \in 1 .. Len(ctxs) \/ k = Len(ctxs) + 1
    BY <2>1
  <2> QED
    BY <1>1, <2>1, <2>2, LiveType DEF Live, IInv
<1>5. /\ \A d \in Contexts : InHand(d) = <<>>
      /\ InHand(c)' = <<i>>
      /\ \A d \in Contexts : d # c => InHand(d)' = <<>>
  BY <1>1 DEF InHand
<1>6. \A d \in Contexts : NoIndex(d)' <=> NoIndex(d)
  BY <1>1 DEF NoIndex
<1>7. \A d \in Contexts, b \in Actions : d # c => (Holds(d, b)' <=> Holds(d, b))
  BY <1>1, <1>2 DEF Holds
<1>8. Fresh'
  BY <1>1, <1>2, <1>4, <1>5 DEF IInv, Fresh
<1>9. AtMostOneIndex'
  <2> SUFFICES ASSUME NEW d \in Contexts
               PROVE  (\/ NoIndex(d) /\ InHand(d) \in {<<>>, <<index[d]>>}
                       \/ InHand(d) = <<>> /\ \E b \in Actions : Holds(d, b))'
    BY DEF AtMostOneIndex
  <2>1. CASE d = c
    BY <1>2, <1>3, <1>5, <1>6, <2>1 DEF NoIndex
  <2>2. CASE d # c
    BY <1>2, <1>5, <1>6, <1>7, <2>2 DEF IInv, AtMostOneIndex
  <2> QED
    BY <2>1, <2>2
<1>10. IndexKept'
  <2>1. InHand(c)' # <<>>
    BY <1>5
  <2> QED
    BY <1>1, <1>4, <1>5, <1>6, <2>1 DEF IInv, IndexKept, IsStopped
<1>11. RunnerHoldsIndex' /\ StartedFirst' /\ NullWhenRefused' /\ ChosenIsReady'
  BY <1>1 DEF IInv, RunnerHoldsIndex, HasParams, StartedFirst, NullWhenRefused,
    ChosenIsReady
<1>12. RefusedIdle'
  BY <1>1, <1>3, <1>5 DEF IInv, RefusedIdle
<1> QED
  BY <1>8, <1>9, <1>10, <1>11, <1>12 DEF IInv

\* Stopping threads, and replacing the values of no other ones, loses nothing
\* that a running thread relies on.
LEMMA StopKeeps ==
  ASSUME IInv, NEW c \in Contexts, NEW S \in SUBSET Actions, StopThreads(c, S),
         \A d \in Contexts, b \in Actions :
           value'[d][b] # value[d][b] => d = c /\ b \in S /\ ~ Complete(value[d][b])
  PROVE  RunnerHoldsIndex' /\ StartedFirst'
<1>1. \A d \in Contexts, b \in Actions :
        /\ pending'[d][b] = IF d = c /\ b \in S THEN <<>> ELSE pending[d][b]
        /\ stopped'[d][b] <=> (d = c /\ b \in S) \/ stopped[d][b]
        /\ started'[d][b] <=> (d = c /\ b \in S /\ ~ stopped[d][b]) \/ started[d][b]
        /\ exe'[d][b] # exe[d][b] => d = c /\ b \in S /\ ~ stopped[d][b]
  BY StopEffect DEF IInv
<1>3. \A d \in Contexts, b \in Actions : HasParams(d, b) => HasParams(d, b)'
  BY DepsAreActions DEF HasParams, Complete
<1>4. RunnerHoldsIndex'
  BY <1>1, <1>3 DEF IInv, RunnerHoldsIndex
<1>5. ASSUME NEW d \in Contexts, NEW b \in Actions,
             \/ stopped'[d][b] \/ value'[d][b] # "" \/ exe'[d][b] \in PastWait
      PROVE  started'[d][b]
  <2>1. CASE d = c /\ b \in S
    BY <1>1, <2>1, StartedWhen
  <2>2. CASE ~ (d = c /\ b \in S)
    <3>1. stopped[d][b] \/ value[d][b] # "" \/ exe[d][b] \in PastWait
      <4>1. stopped'[d][b] => stopped[d][b]
        BY <1>1, <2>2, Zenon
      <4>2. value'[d][b] = value[d][b]
        BY <2>2
      <4>3. exe'[d][b] = exe[d][b]
        BY <1>1, <2>2
      <4> QED
        BY <1>5, <4>1, <4>2, <4>3, Zenon
    <3>2. started[d][b]
      BY <3>1, StartedWhen
    <3> QED
      BY <1>1, <3>2
  <2> QED
    BY <2>1, <2>2
<1>6. StartedFirst'
  BY <1>5 DEF StartedFirst, PastWait
<1> QED
  BY <1>4, <1>6

\* A peer's result: the index of its action goes into the handler's hand.
LEMMA UpdateIInv ==
  ASSUME IInv, TypeOK', NEW c \in Contexts, NEW a \in Actions, PeerUpdate(c, a)
  PROVE  IInv'
<1>1. /\ main = "route" /\ c \in Live
      /\ StopThreads(c, {a})
      /\ cur' = c /\ todo' = pending[c][a] /\ main' = "pick"
      /\ UNCHANGED <<ctxs, posted, index, refused>>
  BY DEF PeerUpdate
<1>2. PICK p \in BOOLEAN : value' = [value EXCEPT ![c][a] =
                              IF Replaced(value[c][a], p) THEN "peer" ELSE value[c][a]]
  BY DEF PeerUpdate
<1>3. \A d \in Contexts, b \in Actions :
        /\ pending'[d][b] = IF d = c /\ b = a THEN <<>> ELSE pending[d][b]
        /\ stopped'[d][b] <=> (d = c /\ b = a) \/ stopped[d][b]
        /\ started'[d][b] <=> (d = c /\ b = a /\ ~ stopped[d][b]) \/ started[d][b]
  BY <1>1, StopEffect DEF IInv
<1>4. \A d \in Contexts, b \in Actions :
        value'[d][b] # value[d][b] =>
          d = c /\ b = a /\ ~ Complete(value[d][b]) /\ value'[d][b] = "peer"
  <2>1. value \in [Contexts -> [Actions -> Values]]
    BY DEF IInv, TypeOK
  <2> QED
    BY <1>2, <2>1 DEF Replaced, Complete
<1>5. /\ \A d \in Contexts : InHand(d) = <<>>
      /\ \A d \in Contexts : InHand(d)' = IF d = c THEN pending[c][a] ELSE <<>>
      /\ Live' = Live /\ Live \subseteq Contexts
  BY <1>1, LiveType DEF InHand, Live, IInv
<1>6. \A d \in Contexts : d # c => /\ NoIndex(d)' <=> NoIndex(d)
                                   /\ \A b \in Actions : Holds(d, b)' <=> Holds(d, b)
  BY <1>1, <1>3 DEF NoIndex, Holds
<1>7. posted[c] # 0 /\ (refused[c] => pending[c][a] = <<>>)
  BY <1>1 DEF IInv, Fresh, RefusedIdle
<1>8. Fresh'
  BY <1>1, <1>3, <1>5, <1>7 DEF IInv, Fresh
<1>9. AtMostOneIndex'
  <2> SUFFICES ASSUME NEW d \in Contexts
               PROVE  (\/ NoIndex(d) /\ InHand(d) \in {<<>>, <<index[d]>>}
                       \/ InHand(d) = <<>> /\ \E b \in Actions : Holds(d, b))'
    BY DEF AtMostOneIndex
  <2>1. CASE d # c
    BY <1>1, <1>5, <1>6, <2>1 DEF IInv, AtMostOneIndex
  <2>2. CASE d = c /\ NoIndex(c)
    BY <1>3, <1>5, <2>2 DEF NoIndex
  <2>3. CASE d = c /\ Holds(c, a)
    BY <1>1, <1>3, <1>5, <2>3 DEF NoIndex, Holds
  <2>4. CASE d = c /\ \E b \in Actions \ {a} : Holds(c, b)
    <3>1. PICK b \in Actions \ {a} : Holds(c, b)
      BY <2>4
    <3>2. Holds(c, b)' /\ InHand(c)' = <<>>
      BY <1>1, <1>3, <1>5, <3>1 DEF Holds
    <3> QED
      BY <2>4, <3>2
  <2> QED
    BY <1>5, <2>1, <2>2, <2>3, <2>4 DEF IInv, AtMostOneIndex
<1>10. IndexKept'
  <2>1. NoIndex(c)' /\ InHand(c)' = <<>> => NoIndex(c)
    BY <1>3, <1>5 DEF NoIndex
  <2> QED
    BY <1>1, <1>3, <1>5, <1>6, <2>1 DEF IInv, IndexKept, IsStopped
<1>11. RunnerHoldsIndex' /\ StartedFirst'
  BY <1>1, <1>4, StopKeeps
<1>12. NullWhenRefused' /\ ChosenIsReady'
  BY <1>1, <1>4 DEF IInv, NullWhenRefused, ChosenIsReady
<1>13. RefusedIdle'
  BY <1>1, <1>3, <1>5, <1>7 DEF IInv, RefusedIdle
<1> QED
  BY <1>8, <1>9, <1>10, <1>11, <1>12, <1>13 DEF IInv

\* A refusal: from here on the index of the context may be lost.
LEMMA RefusesIInv ==
  ASSUME IInv, TypeOK', NEW c \in Contexts, PeerRefuses(c)
  PROVE  IInv'
<1>1. /\ main = "route" /\ c \in Live
      /\ refused' = [refused EXCEPT ![c] = TRUE]
      /\ cur' = c /\ key' = 0 /\ main' = "refuse"
      /\ UNCHANGED <<ctxs, todo, posted, index, value, pending, started, stopped,
                    exe>>
  BY DEF PeerRefuses, threadVars
<1>2. \A d \in Contexts : refused'[d] <=> refused[d] \/ d = c
  BY <1>1 DEF IInv, TypeOK
<1>3. /\ \A d \in Contexts : InHand(d) = <<>> /\ InHand(d)' = <<>>
      /\ Live' = Live /\ Live \subseteq Contexts
  BY <1>1, LiveType DEF InHand, Live, IInv
<1>4. Fresh'
  BY <1>1, <1>2, <1>3 DEF IInv, Fresh
<1>5. AtMostOneIndex'
  BY <1>1, <1>3 DEF IInv, AtMostOneIndex, NoIndex, Holds
<1>6. IndexKept'
  BY <1>1, <1>2, <1>3 DEF IInv, IndexKept, NoIndex, IsStopped
<1>7. RunnerHoldsIndex' /\ StartedFirst' /\ ChosenIsReady'
  BY <1>1 DEF IInv, RunnerHoldsIndex, HasParams, StartedFirst, ChosenIsReady
<1>8. NullWhenRefused'
  BY <1>1, <1>2 DEF IInv, NullWhenRefused
<1>9. RefusedIdle'
  <2>1. \A a \in Actions : a >= 0
    BY ActionRange
  <2> QED
    BY <1>1, <1>2, <1>3, <2>1 DEF IInv, RefusedIdle
<1> QED
  BY <1>4, <1>5, <1>6, <1>7, <1>8, <1>9 DEF IInv

\* One thread of a refused context is stopped, or the last one has been.
LEMMA RefuseIInv ==
  ASSUME IInv, TypeOK', RefuseOne
  PROVE  IInv'
<1>1. /\ main = "refuse" /\ refused[cur] /\ cur \in Contexts
      /\ UNCHANGED <<ctxs, cur, todo, posted, index, refused>>
  BY DEF RefuseOne, ctxVars, IInv, NullWhenRefused, TypeOK
<1>2. posted[cur] # 0 /\ key \in Nat
  BY <1>1, ActionRange DEF IInv, Fresh, TypeOK
<1>3. main' \in {"refuse", "routed"}
  BY <1>1 DEF RefuseOne
<1>4. /\ \A d \in Contexts : InHand(d) = <<>> /\ InHand(d)' = <<>>
      /\ Live' = Live /\ Live \subseteq Contexts
  BY <1>1, <1>3, LiveType DEF InHand, Live, IInv
<1>5. CASE key < N
  <2>1. /\ value' = [value EXCEPT ![cur][key] = Nulled(value[cur][key])]
        /\ StopThreads(cur, {key})
        /\ key' = key + 1 /\ main' = "refuse"
    BY <1>1, <1>5 DEF RefuseOne
  <2>2. key \in Actions
    BY <1>2, <1>5, ManifestAssumption DEF Actions
  <2>3. \A d \in Contexts, b \in Actions :
          /\ pending'[d][b] = IF d = cur /\ b = key THEN <<>> ELSE pending[d][b]
          /\ stopped'[d][b] <=> (d = cur /\ b = key) \/ stopped[d][b]
          /\ started'[d][b] <=> \/ d = cur /\ b = key /\ ~ stopped[d][b]
                                \/ started[d][b]
    BY <1>1, <2>1, StopEffect DEF IInv
  <2>4. \A d \in Contexts, b \in Actions :
          value'[d][b] # value[d][b] =>
            d = cur /\ b = key /\ ~ Complete(value[d][b])
    <3>1. value \in [Contexts -> [Actions -> Values]]
      BY DEF IInv, TypeOK
    <3> QED
      BY <2>1, <3>1 DEF Nulled, Complete
  <2>5. \A d \in Contexts : d # cur => /\ NoIndex(d)' <=> NoIndex(d)
                                       /\ \A b \in Actions : Holds(d, b)' <=> Holds(d, b)
    BY <1>1, <2>3 DEF NoIndex, Holds
  <2>6. Fresh'
    BY <1>1, <1>2, <1>4, <2>3 DEF IInv, Fresh
  <2>7. AtMostOneIndex'
    <3> SUFFICES ASSUME NEW d \in Contexts
                 PROVE  NoIndex(d)' \/ \E b \in Actions : Holds(d, b)'
      BY <1>4 DEF AtMostOneIndex
    <3>1. CASE d # cur
      BY <1>4, <2>5, <3>1 DEF IInv, AtMostOneIndex
    <3>2. CASE d = cur /\ NoIndex(d)
      BY <2>3, <3>2 DEF NoIndex
    <3>3. CASE d = cur /\ Holds(d, key)
      BY <2>3, <3>3 DEF NoIndex, Holds
    <3>4. CASE d = cur /\ \E b \in Actions \ {key} : Holds(d, b)
      BY <1>1, <2>3, <3>4 DEF Holds
    <3> QED
      BY <2>2, <3>1, <3>2, <3>3, <3>4 DEF IInv, AtMostOneIndex
  <2>8. IndexKept'
    BY <1>1, <1>4, <2>3, <2>5 DEF IInv, IndexKept, IsStopped
  <2>9. RunnerHoldsIndex' /\ StartedFirst'
    BY <1>1, <2>1, <2>2, <2>4, StopKeeps
  <2>10. NullWhenRefused' /\ ChosenIsReady'
    BY <1>1, <2>1, <2>4 DEF IInv, NullWhenRefused, ChosenIsReady
  <2>11. RefusedIdle'
    <3>1. \A b \in Actions : b >= key /\ b # key => b >= key + 1
      BY <1>2, ActionRange
    <3> QED
      BY <1>1, <1>4, <2>1, <2>3, <3>1 DEF IInv, RefusedIdle
  <2> QED
    BY <2>6, <2>7, <2>8, <2>9, <2>10, <2>11 DEF IInv
<1>6. CASE ~ (key < N)
  <2>1. main' = "routed" /\ UNCHANGED <<value, pending, started, stopped, exe>>
    BY <1>6 DEF RefuseOne, threadVars
  <2>2. \A b \in Actions : ~ (b >= key)
    BY <1>2, <1>6, ManifestAssumption DEF Actions
  <2>3. Fresh' /\ AtMostOneIndex'
    BY <1>1, <1>4, <2>1 DEF IInv, Fresh, AtMostOneIndex, NoIndex, Holds
  <2>4. IndexKept'
    BY <1>1, <1>4, <2>1 DEF IInv, IndexKept, NoIndex, IsStopped
  <2>5. /\ RunnerHoldsIndex' /\ StartedFirst' /\ ChosenIsReady'
        /\ NullWhenRefused'
    BY <1>1, <2>1 DEF IInv, RunnerHoldsIndex, HasParams, StartedFirst,
      ChosenIsReady, NullWhenRefused
  <2>6. RefusedIdle'
    BY <1>1, <1>4, <2>1, <2>2 DEF IInv, RefusedIdle
  <2> QED
    BY <2>3, <2>4, <2>5, <2>6 DEF IInv
<1> QED
  BY <1>5, <1>6

\* An empty relation: the context is stopped, or its index is lost when it is
\* (every action has a value, so every thread was started and none runs on).
LEMMA NoneIInv ==
  ASSUME IInv, TypeOK', NextIsNone
  PROVE  IInv'
<1>1. PICK c \in Contexts : c = cur
  BY DEF IInv, TypeOK
<1>2. /\ main = "next" /\ main' \in {"leave", "out_of_bounds"}
      /\ AllComplete(c) /\ todo # <<>>
      /\ UNCHANGED <<ctxs, cur, key, posted, index, refused, value>>
  BY <1>1 DEF NextIsNone, ctxVars, IInv, TypeOK
<1>3. NoIndex(c) /\ posted[c] # 0
  <2>1. InHand(c) # <<>>
    BY <1>1, <1>2 DEF InHand
  <2> QED
    BY <2>1 DEF IInv, AtMostOneIndex, Fresh
<1>4. /\ \A d \in Contexts : InHand(d)' = <<>>
      /\ \A d \in Contexts : d # c => InHand(d) = <<>>
      /\ Live' = Live /\ Live \subseteq Contexts
  BY <1>1, <1>2, LiveType DEF InHand, Live, IInv
<1>5. /\ NullWhenRefused' /\ ChosenIsReady'
  BY <1>2 DEF IInv, NullWhenRefused, ChosenIsReady
<1>6. CASE StopThreads(c, Actions)
  <2>1. \A d \in Contexts, b \in Actions :
          /\ pending'[d][b] = IF d = c /\ b \in Actions THEN <<>> ELSE pending[d][b]
          /\ stopped'[d][b] <=> (d = c /\ b \in Actions) \/ stopped[d][b]
          /\ started'[d][b] <=> \/ d = c /\ b \in Actions /\ ~ stopped[d][b]
                                \/ started[d][b]
    BY <1>6, StopEffect DEF IInv
  <2>2. pending' = pending
    <3>1. \A d \in Contexts, b \in Actions : pending'[d][b] = pending[d][b]
      BY <1>3, <2>1 DEF NoIndex
    <3>2. /\ pending \in [Contexts -> [Actions -> Seq(Nat)]]
          /\ pending' \in [Contexts -> [Actions -> Seq(Nat)]]
      BY DEF IInv, TypeOK
    <3>3. \A d \in Contexts : pending'[d] = pending[d]
      BY <3>1, <3>2
    <3> QED
      BY <3>2, <3>3
  <2>3. \A d : (NoIndex(d)' <=> NoIndex(d)) /\ \A b : Holds(d, b)' <=> Holds(d, b)
    BY <1>2, <2>2 DEF NoIndex, Holds
  <2>4. Fresh'
    BY <1>2, <1>3, <1>4, <2>1, <2>2 DEF IInv, Fresh
  <2>5. AtMostOneIndex'
    BY <1>3, <1>4, <2>3 DEF IInv, AtMostOneIndex
  <2>6. IsStopped(c)' /\ \A d \in Contexts : IsStopped(d) => IsStopped(d)'
    BY <2>1 DEF IsStopped
  <2>7. IndexKept'
    BY <1>2, <1>4, <2>3, <2>6 DEF IInv, IndexKept
  <2>8. RunnerHoldsIndex' /\ StartedFirst'
    BY <1>2, <1>6, StopKeeps
  <2>9. RefusedIdle'
    BY <1>2, <1>4, <2>2 DEF IInv, RefusedIdle
  <2> QED
    BY <1>5, <2>4, <2>5, <2>7, <2>8, <2>9 DEF IInv
<1>7. CASE UNCHANGED <<pending, started, stopped, exe>>
  <2>1. IsStopped(c)
    <3> SUFFICES ASSUME NEW a \in Actions PROVE stopped[c][a]
      BY DEF IsStopped
    <3>1. started[c][a]
      BY <1>2, StartedWhen DEF AllComplete, Complete
    <3> QED
      BY <1>3, <3>1 DEF IInv, RunnerHoldsIndex, NoIndex
  <2>2. Fresh' /\ AtMostOneIndex'
    BY <1>2, <1>3, <1>4, <1>7 DEF IInv, Fresh, AtMostOneIndex, NoIndex, Holds
  <2>3. IndexKept'
    BY <1>2, <1>4, <1>7, <2>1 DEF IInv, IndexKept, NoIndex, IsStopped
  <2>4. RunnerHoldsIndex' /\ StartedFirst'
    BY <1>2, <1>7 DEF IInv, RunnerHoldsIndex, HasParams, StartedFirst
  <2>5. RefusedIdle'
    BY <1>2, <1>4, <1>7 DEF IInv, RefusedIdle
  <2> QED
    BY <1>5, <2>2, <2>3, <2>4, <2>5 DEF IInv
<1> QED
  BY <1>1, <1>6, <1>7 DEF NextIsNone

\* What a quiet step of the main loop leaves alone.
threadFrame == <<ctxs, index, refused, value, pending, started, stopped>>

\* The steps of the main loop.
LEMMA MainIInv ==
  ASSUME IInv, TypeOK', MainStep \/ MainReturns
  PROVE  IInv'
<1>1. \A c \in Contexts, a \in Actions : exe[c][a] \in PastWait => started[c][a]
  BY StartedWhen
<1>2. CASE ReadSignal \/ Routed \/ NoneStopped \/ NoneUpdated \/ Rescheduled
  <2>1. /\ UNCHANGED <<threadFrame, posted, exe, todo, cur, key>>
        /\ {main, main'} \cap {"refuse", "pick", "next", "notify", "yield"} = {}
    BY <1>2 DEF ReadSignal, Routed, NoneStopped, NoneUpdated, Rescheduled,
      threadFrame, threadVars, ctxVars
  <2> QED
    BY <1>1, <2>1, QuietStep DEF threadFrame, InHand
<1>3. CASE PickIndex
  <2>1. /\ UNCHANGED <<threadFrame, posted, exe, todo, cur>>
        /\ main = "pick"
        /\ IF todo = <<>> THEN main' \in {"routed", "updated"} ELSE main' = "next"
    BY <1>3 DEF PickIndex, threadFrame, threadVars, ctxVars
  <2>2. \A c \in Contexts : InHand(c)' = InHand(c)
    BY <2>1 DEF InHand
  <2>3. {main, main'} \cap {"refuse", "notify", "yield"} = {}
    BY <2>1
  <2> QED
    BY <1>1, <2>1, <2>2, <2>3, QuietStep DEF threadFrame
<1>4. CASE NextRecurses \/ NextFound
  <2>1. /\ UNCHANGED <<threadFrame, posted, exe, todo, cur>>
        /\ main = "next" /\ main' \in {"next", "notify"}
        /\ main' = "notify" => IsReady(cur, key) /\ key' = key
    BY <1>4 DEF NextRecurses, NextFound, threadFrame, threadVars, ctxVars
  <2>2. \A c \in Contexts : InHand(c)' = InHand(c)
    BY <2>1 DEF InHand
  <2>3. main' = "notify" => Missing(cur', key') = {}
    BY <2>1 DEF IsReady
  <2> QED
    BY <1>1, <2>1, <2>2, <2>3, QuietStep DEF threadFrame
<1>5. CASE RefuseOne
  BY <1>5, RefuseIInv
<1>6. CASE NextIsNone
  BY <1>6, NoneIInv
<1>7. CASE NotifyNext
  BY <1>7, NotifyIInv
<1>8. CASE AnswerStopped
  BY <1>8, AnswerIInv
<1>9. CASE TakeEnded
  BY <1>9, TakeIInv
<1>10. CASE Notified
  <2>1. /\ UNCHANGED <<threadFrame, posted, todo, cur, key>>
        /\ main = "yield" /\ main' \in {"routed", "pick"}
        /\ exe' = [exe EXCEPT ![cur][key] = Woken(exe[cur][key])]
    BY <1>10 DEF Notified, threadFrame, ctxVars
  <2>2. todo = <<>> /\ started[cur][key]
    BY <2>1 DEF IInv, ChosenIsReady
  <2>3. \A c \in Contexts : InHand(c)' = InHand(c)
    BY <2>1, <2>2 DEF InHand
  <2>4. exe \in [Contexts -> [Actions -> Executor]]
    BY DEF IInv, TypeOK
  <2>5. ASSUME NEW c \in Contexts, NEW a \in Actions, exe'[c][a] \in PastWait
        PROVE  started[c][a]
    <3>1. CASE cur = c /\ key = a
      BY <2>2, <3>1
    <3>2. CASE ~ (cur = c /\ key = a)
      <4>1. exe'[c][a] = exe[c][a]
        BY <2>1, <2>4, <3>2
      <4> QED
        BY <1>1, <2>5, <4>1
    <3> QED
      BY <3>1, <3>2
  <2>6. {main, main'} \cap {"refuse", "notify"} = {} /\ main' # "yield"
    BY <2>1
  <2> QED
    BY <2>1, <2>3, <2>5, <2>6, QuietStep DEF threadFrame
<1> QED
  BY <1>2, <1>3, <1>4, <1>5, <1>6, <1>7, <1>8, <1>9, <1>10
     DEF MainStep, MainReturns

\* A further session of a context that exists.
LEMMA AgainIInv ==
  ASSUME IInv, TypeOK', NEW c \in Contexts, PostAgain(c)
  PROVE  IInv'
<1>1. /\ UNCHANGED <<threadFrame, exe, todo, cur, key>>
      /\ {main, main'} \cap {"refuse", "pick", "next", "notify", "yield"} = {}
      /\ posted' = [posted EXCEPT ![c] = posted[c] + 1]
  BY DEF PostAgain, threadFrame, threadVars
<1>2. \A d \in Contexts : posted'[d] = 0 => posted[d] = 0
  <2>1. posted \in [Contexts -> Nat]
    BY DEF IInv, TypeOK
  <2> QED
    BY <1>1, <2>1
<1>3. \A d \in Contexts, a \in Actions : exe[d][a] \in PastWait => started[d][a]
  BY StartedWhen
<1> QED
  BY <1>1, <1>2, <1>3, QuietStep DEF threadFrame, InHand

\* An initializer forks and starts executors, none of them past its wait.
LEMMA InitializerIInv ==
  ASSUME IInv, TypeOK', NEW c \in Contexts,
         InitializerStep(c) \/ InitializerReturns(c)
  PROVE  IInv'
<1>1. UNCHANGED <<threadFrame, main, todo, cur, key, posted>>
  BY DEF InitializerStep, InitializerReturns, initializerFrame, threadFrame, ctxVars
<1>2. \A d \in Contexts : InHand(d)' = InHand(d)
  BY <1>1 DEF InHand
<1>3. \/ exe' = exe
      \/ \E a, l : /\ exe' = [exe EXCEPT ![c][a] = l]
                   /\ l \notin PastWait
  <2>1. \A a : Fork(c, a) => exe' = [exe EXCEPT ![c][a] = "forked"]
    BY DEF Fork, Goto
  <2>2. InitializerNext(c) => exe' = exe \/ \E a : Fork(c, a)
    BY Zenon DEF InitializerNext
  <2>3. /\ InitializerSlice(c) => exe' = exe
        /\ InitializerYielded(c) => exe' = exe \/ \E a : Fork(c, a)
    BY Zenon DEF InitializerSlice, InitializerYielded
  <2>4. InitializerForked(c) =>
          \E a : \E l \in {"ended", "launch"} : exe' = [exe EXCEPT ![c][a] = l]
    BY Zenon DEF InitializerForked, Goto
  <2>5. InitializerSynced(c) => exe' = exe
    BY Zenon DEF InitializerSynced
  <2>6. "forked" \notin PastWait /\ "ended" \notin PastWait /\ "launch" \notin PastWait
    BY DEF PastWait
  <2> QED
    BY <2>1, <2>2, <2>3, <2>4, <2>5, <2>6, Zenon
       DEF InitializerStep, InitializerReturns
<1>4. \A d \in Contexts, b \in Actions : exe'[d][b] \in PastWait => started[d][b]
  <2>1. exe \in [Contexts -> [Actions -> Executor]]
    BY DEF IInv, TypeOK
  <2>2. CASE exe' = exe
    BY <2>2, StartedWhen
  <2>3. ASSUME NEW a, NEW l, exe' = [exe EXCEPT ![c][a] = l], l \notin PastWait,
               NEW d \in Contexts, NEW b \in Actions, exe'[d][b] \in PastWait
        PROVE  started[d][b]
    <3>1. exe'[d][b] = exe[d][b] \/ exe'[d][b] = l
      BY <2>1, <2>3
    <3> QED
      BY <2>3, <3>1, StartedWhen
  <2> QED
    BY <1>3, <2>2, <2>3
<1>5. main' = "notify" => Missing(cur', key') = {}
  BY <1>1 DEF IInv, ChosenIsReady
<1> QED
  BY <1>1, <1>2, <1>4, <1>5, QuietStep DEF threadFrame

\* Every step keeps the invariant.
LEMMA NextIInv == IInv /\ [Next]_vars => IInv'
<1> SUFFICES ASSUME IInv, [Next]_vars PROVE IInv'
  OBVIOUS
<1>0. TypeOK'
  BY NextType DEF IInv
<1>1. CASE MainStep \/ MainReturns
  BY <1>0, <1>1, MainIInv
<1>2. CASE Request
  <2>1. ASSUME NEW c \in Contexts, NEW i \in Indices, PostRun(c, i) PROVE IInv'
    BY <1>0, <2>1, PostIInv
  <2>2. ASSUME NEW c \in Contexts, PostAgain(c) PROVE IInv'
    BY <1>0, <2>2, AgainIInv
  <2>3. ASSUME NEW c \in Contexts, NEW a \in Actions, PeerUpdate(c, a) PROVE IInv'
    BY <1>0, <2>3, UpdateIInv
  <2>4. ASSUME NEW c \in Contexts, PeerRefuses(c) PROVE IInv'
    BY <1>0, <2>4, RefusesIInv
  <2> QED
    BY <1>2, <2>1, <2>2, <2>3, <2>4 DEF Request
<1>3. ASSUME NEW c \in Contexts, InitializerStep(c) \/ InitializerReturns(c)
      PROVE  IInv'
  BY <1>0, <1>3, InitializerIInv
<1>4. ASSUME NEW c \in Contexts, NEW a \in Actions,
             ExecutorStep(c, a) \/ ExecutorFault(c, a)
      PROVE  IInv'
  BY <1>0, <1>4, ExecutorIInv
<1>5. CASE UNCHANGED vars
  <2>1. /\ UNCHANGED <<threadFrame, posted, main, todo, cur, key, exe>>
    BY <1>5 DEF vars, mainVars, ctxVars, threadVars, threadFrame
  <2>2. \A d \in Contexts : InHand(d)' = InHand(d)
    BY <2>1 DEF InHand
  <2>3. main' = "notify" => Missing(cur', key') = {}
    BY <2>1 DEF IInv, ChosenIsReady
  <2>4. \A d \in Contexts, a \in Actions : exe[d][a] \in PastWait => started[d][a]
    BY StartedWhen
  <2> QED
    BY <1>0, <2>1, <2>2, <2>3, <2>4, QuietStep DEF threadFrame
<1> QED
  BY <1>1, <1>2, <1>3, <1>4, <1>5 DEF Next

\* The inductive invariant holds.
LEMMA Invariance == Spec => []IInv
BY InitIInv, NextIInv, PTL DEF Spec

-----------------------------------------------------------------------------
(* The theorems.                                                           *)

\* The execution index of a context is neither lost nor duplicated while the
\* context runs.
THEOREM IndexIsConserved == Spec => []IndexConserved
<1>1. IInv => IndexConserved
  <2> SUFFICES ASSUME IInv, NEW c \in Live, ~ refused[c], ~ IsStopped(c)
               PROVE  \/ NoIndex(c) /\ InHand(c) = <<index[c]>>
                      \/ /\ InHand(c) = <<>>
                         /\ \E a \in Actions : Holds(c, a)
    BY DEF IndexConserved, Holds
  <2>1. c \in Contexts
    BY LiveType DEF IInv
  <2>2. ~ (NoIndex(c) /\ InHand(c) = <<>>)
    BY DEF IInv, IndexKept
  <2> QED
    BY <2>1, <2>2 DEF IInv, AtMostOneIndex
<1> QED
  BY <1>1, Invariance, PTL

\* A context computes one action at a time.
THEOREM ComputesOneAtATime == Spec => []OneAtATime
<1>1. IInv => OneAtATime
  <2> SUFFICES ASSUME IInv, NEW c \in Contexts, NEW a \in Actions, NEW b \in Actions,
                      pending[c][a] # <<>>, pending[c][b] # <<>>
               PROVE  a = b
    BY DEF OneAtATime, IInv, RunnerHoldsIndex
  <2>1. ~ NoIndex(c)
    BY DEF NoIndex
  <2>2. PICK x \in Actions : Holds(c, x)
    BY <2>1 DEF IInv, AtMostOneIndex
  <2> QED
    BY <2>2 DEF Holds
<1> QED
  BY <1>1, Invariance, PTL

\* An action is started only when the results it needs are there.
THEOREM StartsWhenReady == Spec => []StartedOnlyWhenReady
<1>1. IInv => StartedOnlyWhenReady
  BY DEF IInv, RunnerHoldsIndex, StartedOnlyWhenReady
<1> QED
  BY <1>1, Invariance, PTL

\* The search for the next action never runs around values that are all set
\* and not all complete.
THEOREM SearchIsSound == Spec => []SearchEnds
<1>1. IInv => SearchEnds
  <2> SUFFICES ASSUME IInv, main = "next", \A a \in Actions : value[cur][a] # ""
               PROVE  AllComplete(cur)
    BY DEF SearchEnds
  <2>1. cur \in Contexts /\ todo # <<>>
    BY DEF IInv, TypeOK
  <2>2. ~ refused[cur]
    BY <2>1 DEF IInv, RefusedIdle, InHand
  <2>3. \A a \in Actions : value[cur][a] # "null"
    BY <2>1, <2>2 DEF IInv, NullWhenRefused
  <2> QED
    BY <2>3 DEF AllComplete, Complete
<1> QED
  BY <1>1, Invariance, PTL

\* No step loses a result.
LEMMA StepKeepsResults ==
  ASSUME TypeOK, Next, NEW d \in Contexts, NEW b \in Actions, Complete(value[d][b])
  PROVE  Complete(value'[d][b])
<1> DEFINE Kept == \A c \in Contexts, a \in Actions :
                     Complete(value[c][a]) => Complete(value'[c][a])
<1>0. value \in [Contexts -> [Actions -> Values]]
  BY DEF TypeOK
<1>1. ASSUME UNCHANGED value PROVE Kept
  BY <1>1
<1>2. ASSUME NEW c \in Contexts, NEW a \in Actions, PeerUpdate(c, a) PROVE Kept
  <2>1. PICK p \in BOOLEAN : value' = [value EXCEPT ![c][a] =
                              IF Replaced(value[c][a], p) THEN "peer" ELSE value[c][a]]
    BY <1>2 DEF PeerUpdate
  <2> QED
    BY <1>0, <2>1 DEF Complete
<1>3. ASSUME RefuseOne PROVE Kept
  <2>1. \/ UNCHANGED value
        \/ value' = [value EXCEPT ![cur][key] = Nulled(value[cur][key])]
    BY <1>3 DEF RefuseOne, threadVars
  <2>2. CASE value' = [value EXCEPT ![cur][key] = Nulled(value[cur][key])]
    <3> SUFFICES ASSUME NEW c \in Contexts, NEW a \in Actions, Complete(value[c][a])
                 PROVE  value'[c][a] = value[c][a]
      OBVIOUS
    <3>1. Nulled(value[c][a]) = value[c][a]
      BY DEF Nulled, Complete
    <3> HIDE DEF Nulled
    <3>2. CASE cur = c /\ key = a
      BY <1>0, <2>2, <3>1, <3>2
    <3>3. CASE ~ (cur = c /\ key = a)
      BY <1>0, <2>2, <3>3
    <3> QED
      BY <3>2, <3>3
  <2> QED
    BY <1>1, <2>1, <2>2
<1>4. ASSUME NEW c \in Contexts, NEW a \in Actions, ReadResult(c, a) PROVE Kept
  <2>1. UNCHANGED value \/ value' = [value EXCEPT ![c][a] = "own"]
    BY <1>4 DEF ReadResult
  <2>2. CASE value' = [value EXCEPT ![c][a] = "own"]
    <3>1. \A e \in Contexts, f \in Actions :
            value'[e][f] = IF e = c /\ f = a THEN "own" ELSE value[e][f]
      BY <1>0, <2>2
    <3> QED
      BY <3>1 DEF Complete
  <2> QED
    BY <1>1, <2>1, <2>2
<1>5. MainStep \/ MainReturns => UNCHANGED value \/ RefuseOne
  BY DEF MainStep, ReadSignal, Routed, PickIndex, NextIsNone, NextRecurses,
    NextFound, NotifyNext, AnswerStopped, NoneStopped, TakeEnded, NoneUpdated,
    MainReturns, Notified, Rescheduled, threadVars
<1>6. Request => \/ UNCHANGED value
                 \/ \E c \in Contexts, a \in Actions : PeerUpdate(c, a)
  BY DEF Request, PostRun, PostAgain, PeerRefuses, threadVars
<1>7. \A c \in Contexts :
        InitializerStep(c) \/ InitializerReturns(c) => UNCHANGED value
  BY DEF InitializerStep, InitializerReturns, initializerFrame
<1>8. \A c \in Contexts, a \in Actions :
        ExecutorStep(c, a) \/ ExecutorFault(c, a)
          => UNCHANGED value \/ ReadResult(c, a)
  BY DEF ExecutorStep, ExecutorFault, ExecutorRuns, Preempted, Launched,
    WaitChecks, FallAsleep, SpuriousWake, Unblocked, WriteParams, SubprocessGone,
    Finish, PostEnd, Leave
<1> HIDE DEF Kept
<1>9. Kept
  BY <1>1, <1>2, <1>3, <1>4, <1>5, <1>6, <1>7, <1>8 DEF Next
<1> QED
  BY <1>9 DEF Kept

\* A result once known is never lost.
THEOREM ResultsAreKept == Spec => ResultsKept
<1>1. TypeOK /\ [Next]_vars =>
        [\A c \in Contexts, a \in Actions :
           Complete(value[c][a]) => Complete(value'[c][a])]_vars
  BY StepKeepsResults
<1> QED
  BY <1>1, TypeCorrect, PTL DEF Spec, ResultsKept

-----------------------------------------------------------------------------
(* When no subprocess fails, a thread stops only with a result, and so the *)
(* answer of a context whose threads have all stopped is complete.         *)

\* A thread of a context that was not refused stops, and its executor leaves
\* ReadResult, only with a result, and the answer is complete.
Successful ==
  \A c \in Contexts : ~ refused[c] =>
    /\ answer[c] \in {"none", "complete"}
    /\ \A a \in Actions : stopped[c][a] \/ exe[c][a] = "published"
                            => Complete(value[c][a])

\* It is kept by a step under which every thread that ends or has read has a
\* result and no answer but a complete one is given.
LEMMA SuccessKept ==
  ASSUME Successful, TypeOK, Next,
         \A c \in Contexts : refused[c] => refused'[c],
         \A c \in Contexts : ~ refused[c] =>
           /\ answer'[c] \in {answer[c], "complete"}
           /\ \A a \in Actions : \/ stopped'[c][a] /\ ~ stopped[c][a]
                                 \/ exe'[c][a] = "published" /\ exe[c][a] # "published"
                                 => Complete(value'[c][a])
  PROVE  Successful'
<1> SUFFICES ASSUME NEW c \in Contexts, ~ refused'[c]
             PROVE  /\ answer'[c] \in {"none", "complete"}
                    /\ \A a \in Actions : stopped'[c][a] \/ exe'[c][a] = "published"
                                            => Complete(value'[c][a])
  BY DEF Successful, Complete
<1>1. ~ refused[c]
  OBVIOUS
<1>2. \A a \in Actions : Complete(value[c][a]) => Complete(value'[c][a])
  BY StepKeepsResults
<1> QED
  BY <1>1, <1>2 DEF Successful

\* An executor leaves its loop with a result: its parameters were there.
LEMMA ExecutorSucceeds ==
  ASSUME IInv, Successful, ~ CanFail, NEW c \in Contexts, NEW a \in Actions,
         ExecutorStep(c, a) \/ ExecutorFault(c, a)
  PROVE  Successful'
<1>1. Next
  BY DEF Next
<1>2. UNCHANGED <<refused, answer>>
  BY DEF ExecutorStep, ExecutorFault, executorFrame, ctxVars
<1>3. /\ value \in [Contexts -> [Actions -> Values]]
      /\ stopped \in [Contexts -> [Actions -> BOOLEAN]]
      /\ exe \in [Contexts -> [Actions -> Executor]]
  BY DEF IInv, TypeOK
<1>4. ASSUME NEW d \in Contexts, NEW b \in Actions, ~ refused[d],
             stopped'[d][b], ~ stopped[d][b]
      PROVE  Complete(value'[d][b])
  <2>1. d = c /\ b = a /\ Leave(c, a)
    <3>1. stopped' # stopped
      BY <1>4
    <3>2. Leave(c, a)
      BY <3>1 DEF ExecutorStep, ExecutorFault, ExecutorRuns, Preempted, Launched,
        WaitChecks, FallAsleep, SpuriousWake, Unblocked, WriteParams,
        SubprocessGone, ReadResult, Finish, PostEnd
    <3> QED
      BY <1>3, <1>4, <3>2 DEF Leave
  <2>2. \/ exe[c][a] = "published"
        \/ exe[c][a] = "run" /\ ~ HasParams(c, a)
    <3>1. stopped' # stopped
      BY <1>4
    <3> QED
      BY <3>1 DEF ExecutorStep, ExecutorFault, ExecutorRuns, Preempted, Launched,
        WaitChecks, FallAsleep, SpuriousWake, Unblocked, WriteParams,
        SubprocessGone, ReadResult, Finish, PostEnd
  <2>3. exe[c][a] = "run" => HasParams(c, a)
    <3> SUFFICES ASSUME exe[c][a] = "run" PROVE HasParams(c, a)
      OBVIOUS
    <3>1. started[c][a]
      BY StartedWhen DEF PastWait
    <3> QED
      BY <1>4, <2>1, <3>1 DEF IInv, RunnerHoldsIndex
  <2>4. Complete(value[c][a])
    BY <1>4, <2>1, <2>2, <2>3 DEF Successful
  <2> QED
    BY <2>1, <2>4 DEF Leave
<1>5. ASSUME NEW d \in Contexts, NEW b \in Actions,
             exe'[d][b] = "published", exe[d][b] # "published"
      PROVE  Complete(value'[d][b])
  <2>1. PICK l : exe' = [exe EXCEPT ![c][a] = l] /\ (l = "published" => ReadResult(c, a))
    BY DEF ExecutorStep, ExecutorFault, ExecutorRuns, Preempted, Launched,
      WaitChecks, FallAsleep, SpuriousWake, Unblocked, WriteParams, SubprocessGone,
      ReadResult, Finish, PostEnd, Leave, Goto
  <2>2. d = c /\ b = a /\ l = "published"
    BY <1>3, <1>5, <2>1
  <2>3. value' = [value EXCEPT ![c][a] = "own"]
    BY <2>1, <2>2 DEF ReadResult
  <2> QED
    BY <1>3, <2>2, <2>3 DEF Complete
<1> QED
  BY <1>1, <1>2, <1>4, <1>5, SuccessKept DEF IInv

\* stop_thread wakes executors that sleep; none has read its result by that.
LEMMA StopReadsNothing ==
  ASSUME TypeOK, NEW c \in Contexts, NEW S, StopThreads(c, S),
         NEW d \in Contexts, NEW b \in Actions, exe'[d][b] = "published"
  PROVE  exe[d][b] = "published"
BY DEF TypeOK, StopThreads, Woken

\* The main loop stops threads that have a result, or refused ones, and
\* answers contexts whose threads have all stopped.
LEMMA MainSucceeds ==
  ASSUME IInv, Successful, ~ CanFail, MainStep \/ MainReturns
  PROVE  Successful'
<1>0. Next /\ TypeOK /\ cur \in Contexts
  BY DEF Next, IInv, TypeOK
<1>1. CASE ReadSignal \/ Routed \/ NoneStopped \/ NoneUpdated \/ PickIndex
           \/ NextRecurses \/ NextFound \/ NotifyNext \/ TakeEnded \/ Rescheduled
  <2>1. UNCHANGED <<refused, answer, stopped, exe>>
    BY <1>1 DEF ReadSignal, Routed, NoneStopped, NoneUpdated, PickIndex,
      NextRecurses, NextFound, NotifyNext, Notify, TakeEnded, Rescheduled,
      threadVars, ctxVars
  <2> QED
    BY <1>0, <2>1, SuccessKept
<1>2. CASE RefuseOne
  <2>1. UNCHANGED <<refused, answer>> /\ refused[cur]
    BY <1>2 DEF RefuseOne, ctxVars, IInv, NullWhenRefused
  <2>2. StopThreads(cur, {key}) \/ UNCHANGED <<stopped, exe>>
    BY <1>2 DEF RefuseOne, threadVars
  <2>3. \A d \in Contexts, b \in Actions : d # cur =>
          /\ stopped'[d][b] => stopped[d][b]
          /\ exe'[d][b] = "published" => exe[d][b] = "published"
    BY <1>0, <2>2, StopEffect, StopReadsNothing
  <2> QED
    BY <1>0, <2>1, <2>3, SuccessKept
<1>3. CASE NextIsNone
  <2>1. UNCHANGED <<refused, answer, value>> /\ AllComplete(cur)
    BY <1>3 DEF NextIsNone, ctxVars
  <2>2. StopThreads(cur, Actions) \/ UNCHANGED <<stopped, exe>>
    BY <1>3 DEF NextIsNone
  <2>3. \A d \in Contexts, b \in Actions :
          /\ stopped'[d][b] => stopped[d][b] \/ d = cur
          /\ exe'[d][b] = "published" => exe[d][b] = "published"
    BY <1>0, <2>2, StopEffect, StopReadsNothing
  <2> QED
    BY <1>0, <2>1, <2>3, SuccessKept DEF AllComplete, Complete
<1>4. CASE Notified
  <2>1. UNCHANGED <<refused, answer, stopped>> /\ key \in Actions
    BY <1>4 DEF Notified, ctxVars, IInv, TypeOK
  <2>2. exe' = [exe EXCEPT ![cur][key] = Woken(exe[cur][key])]
    BY <1>4 DEF Notified
  <2>3. \A d \in Contexts, b \in Actions :
          exe'[d][b] = "published" => exe[d][b] = "published"
    BY <1>0, <2>2 DEF TypeOK, Woken
  <2> QED
    BY <1>0, <2>1, <2>3, SuccessKept
<1>5. CASE AnswerStopped
  <2>1. PICK i \in DOMAIN ctxs, c \in Contexts :
          i = First(StoppedContexts) /\ c = ctxs[i] /\ IsStopped(c)
    BY <1>5, FirstStopped, ElementOfSeq, LenProperties DEF AnswerStopped, IInv, TypeOK
  <2>2. /\ answer' = [answer EXCEPT ![c] = Response(c)]
        /\ UNCHANGED <<refused, stopped, exe>>
    BY <1>5, <2>1 DEF AnswerStopped
  <2>3. ~ refused[c] => Response(c) = "complete"
    BY <2>1 DEF IsStopped, Successful, Response, Results
  <2>4. \A d \in Contexts : ~ refused[d] => answer'[d] \in {answer[d], "complete"}
    BY <2>2, <2>3 DEF IInv, TypeOK
  <2> QED
    BY <1>0, <2>2, <2>4, SuccessKept
<1> QED
  BY <1>1, <1>2, <1>3, <1>4, <1>5 DEF MainStep, MainReturns

\* A peer's update comes with a result, a refusal makes no promise.
LEMMA RequestSucceeds ==
  ASSUME IInv, Successful, Request
  PROVE  Successful'
<1>0. Next /\ TypeOK
  BY DEF Next, IInv
<1>1. ASSUME NEW c \in Contexts,
             PostAgain(c) \/ PeerRefuses(c) \/ \E i \in Indices : PostRun(c, i)
      PROVE  Successful'
  <2>1. UNCHANGED <<answer, stopped, exe>>
    BY <1>1 DEF PostAgain, PeerRefuses, PostRun, threadVars
  <2>2. refused' = refused \/ refused' = [refused EXCEPT ![c] = TRUE]
    BY <1>1 DEF PostAgain, PeerRefuses, PostRun
  <2>3. \A d \in Contexts : refused[d] => refused'[d]
    BY <2>2 DEF IInv, TypeOK
  <2> QED
    BY <1>0, <2>1, <2>3, SuccessKept
<1>2. ASSUME NEW c \in Contexts, NEW a \in Actions, PeerUpdate(c, a)
      PROVE  Successful'
  <2>1. /\ UNCHANGED <<answer, refused>> /\ StopThreads(c, {a})
        /\ \E p \in BOOLEAN : value' = [value EXCEPT ![c][a] =
                                IF Replaced(value[c][a], p) THEN "peer" ELSE value[c][a]]
    BY <1>2 DEF PeerUpdate
  <2>2. ~ refused[c] => value[c][a] # "null"
    BY DEF IInv, NullWhenRefused
  <2>3. ~ refused[c] => Complete(value'[c][a])
    <3>1. PICK p \in BOOLEAN : value' = [value EXCEPT ![c][a] =
                                IF Replaced(value[c][a], p) THEN "peer" ELSE value[c][a]]
      BY <2>1
    <3>2. value'[c][a] = IF Replaced(value[c][a], p) THEN "peer" ELSE value[c][a]
      BY <1>0, <3>1 DEF TypeOK
    <3>3. Replaced("", p)
      BY DEF Replaced
    <3>4. CASE value[c][a] = ""
      BY <3>2, <3>3, <3>4 DEF Complete
    <3>5. CASE value[c][a] # ""
      BY <2>2, <3>2, <3>5 DEF Complete
    <3> QED
      BY <3>4, <3>5
  <2>4. \A d \in Contexts, b \in Actions :
          /\ stopped'[d][b] => stopped[d][b] \/ (d = c /\ b = a)
          /\ exe'[d][b] = "published" => exe[d][b] = "published"
    BY <1>0, <2>1, StopEffect, StopReadsNothing
  <2> QED
    BY <1>0, <2>1, <2>3, <2>4, SuccessKept
<1> QED
  BY <1>1, <1>2 DEF Request

\* Every step keeps it.
LEMMA NextSucceeds ==
  ASSUME IInv, Successful, ~ CanFail, [Next]_vars
  PROVE  Successful'
<1>1. CASE MainStep \/ MainReturns
  BY <1>1, MainSucceeds
<1>2. CASE Request
  BY <1>2, RequestSucceeds
<1>3. ASSUME NEW c \in Contexts, InitializerStep(c) \/ InitializerReturns(c)
      PROVE  Successful'
  <2>1. UNCHANGED <<refused, answer, stopped>>
    BY <1>3 DEF InitializerStep, InitializerReturns, initializerFrame, ctxVars
  <2>2. exe' = exe \/ \E a : \E l \in {"forked", "ended", "launch"} :
                        exe' = [exe EXCEPT ![c][a] = l]
    BY <1>3, Zenon DEF InitializerStep, InitializerNext, InitializerForked,
      InitializerSynced, InitializerSlice, InitializerReturns, InitializerYielded,
      Fork, Goto
  <2>3. \A d \in Contexts, b \in Actions :
          exe'[d][b] = "published" => exe[d][b] = "published"
    <3>1. CASE exe' = exe
      BY <3>1
    <3>2. CASE exe' # exe
      <4>1. PICK a : \E l \in {"forked", "ended", "launch"} : exe' = [exe EXCEPT ![c][a] = l]
        BY <2>2, <3>2
      <4> QED
        BY <4>1 DEF IInv, TypeOK
    <3> QED
      BY <3>1, <3>2
  <2>4. Next /\ TypeOK
    BY <1>3 DEF Next, IInv
  <2> QED
    BY <2>1, <2>3, <2>4, SuccessKept
<1>4. ASSUME NEW c \in Contexts, NEW a \in Actions,
             ExecutorStep(c, a) \/ ExecutorFault(c, a)
      PROVE  Successful'
  BY <1>4, ExecutorSucceeds
<1>5. CASE UNCHANGED vars
  BY <1>5 DEF vars, mainVars, ctxVars, threadVars, Successful, Complete
<1> QED
  BY <1>1, <1>2, <1>3, <1>4, <1>5 DEF Next

\* When no subprocess fails and the context was not refused, its sessions are
\* answered with the complete result, whatever runs beside it.
THEOREM AnswersAreComplete == Spec => []AnsweredComplete
<1>1. CASE CanFail
  <2>1. AnsweredComplete
    BY <1>1 DEF AnsweredComplete
  <2> QED
    BY <2>1, PTL
<1>2. CASE ~ CanFail
  <2>1. Init => Successful
    <3>1. ASSUME Init, NEW c \in Contexts
          PROVE  /\ answer[c] = "none"
                 /\ \A a \in Actions : ~ stopped[c][a] /\ exe[c][a] # "published"
      BY <3>1 DEF Init, All
    <3> HIDE DEF Init
    <3> QED
      BY <3>1, Zenon DEF Successful
  <2>2. IInv /\ Successful /\ [Next]_vars => Successful'
    BY <1>2, NextSucceeds
  <2>3. Successful => AnsweredComplete
    BY DEF Successful, AnsweredComplete
  <2> QED
    BY <2>1, <2>2, <2>3, Invariance, PTL DEF Spec
<1> QED
  BY <1>1, <1>2

-----------------------------------------------------------------------------
(* The manifest.                                                           *)

\* Induction over a range of numbers.
LEMMA UpTo ==
  ASSUME NEW m \in Nat, NEW S, 0 \in S, \A i \in 0 .. m - 1 : i \in S => i + 1 \in S
  PROVE  \A i \in 0..m : i \in S
<1>. DEFINE T == {i \in Nat : i \in 0..m /\ i \notin S}
<1>1. SUFFICES ASSUME T # {}
               PROVE  FALSE
  OBVIOUS
<1>2. PICK x \in T : \A y \in T : ~ (<<y, x>> \in OpToRel(<, Nat))
  <2>1. T \subseteq Nat
    OBVIOUS
  <2>. HIDE DEF T
  <2>. QED  BY <1>1, <2>1, WFMin, NatLessThanWellFounded
<1>3. x \in Nat /\ \A y \in T : y \in Nat /\ ~ (y < x)
  BY <1>2 DEF OpToRel
<1>4. x \in 0..m /\ x \notin S
  OBVIOUS
<1>5. x # 0 /\ x - 1 \in 0 .. m - 1 /\ (x - 1) + 1 = x /\ x - 1 < x /\ x - 1 \in Nat
  BY <1>4
<1>6. x - 1 \in S
  BY <1>3, <1>5
<1>. QED  BY <1>4, <1>5, <1>6

\* The indices that keys leave one after another.
Successive(f, keys, given, after) ==
  /\ after[0] = given
  /\ \A i \in 1..Len(keys) : after[i] = f[keys[i]][after[i - 1]]

LEMMA InTurnIs ==
  ASSUME NEW f, NEW K, NEW keys \in Seq(K), NEW given
  PROVE  \E after : /\ Successive(f, keys, given, after)
                    /\ File!InTurn(f, keys, given) = after[Len(keys)]
<1>. DEFINE L == Len(keys)
            Is(a, k) == a = [i \in 0..k |-> IF i = 0 THEN given ELSE f[keys[i]][a[i - 1]]]
            S == {k \in 0..L : \E a : Is(a, k)}
<1>0. L \in Nat
  OBVIOUS
<1>1. 0 \in S
  <2>1. Is([i \in 0..0 |-> given], 0)
    OBVIOUS
  <2>. HIDE DEF Is
  <2>. QED  BY <1>0, <2>1
<1>2. ASSUME NEW k \in 0 .. L - 1, k \in S
      PROVE  k + 1 \in S
  <2>1. PICK a : Is(a, k)
    <3>. HIDE DEF Is
    <3>. QED  BY <1>2
  <2>. DEFINE g == [i \in 0 .. k + 1 |-> IF i = k + 1 THEN f[keys[k + 1]][a[k]] ELSE a[i]]
  <2>2. ASSUME NEW i \in 0 .. k + 1
        PROVE  g[i] = IF i = 0 THEN given ELSE f[keys[i]][g[i - 1]]
    <3>1. CASE i = 0
      BY <2>1, <3>1
    <3>2. CASE i \in 1..k
      <4>1. a[i] = f[keys[i]][a[i - 1]]
        BY <2>1, <3>2
      <4>. QED  BY <3>2, <4>1
    <3>3. CASE i = k + 1
      BY <3>3
    <3>. QED  BY <3>1, <3>2, <3>3
  <2>3. Is(g, k + 1)
    BY <2>2
  <2>. HIDE DEF Is
  <2>. QED  BY <1>0, <2>3
<1>3. L \in S
  <2>. HIDE DEF S, L
  <2>1. \A k \in 0..L : k \in S
    BY <1>0, <1>1, <1>2, UpTo
  <2>. QED  BY <1>0, <2>1
<1>. DEFINE a == CHOOSE x : Is(x, L)
<1>4. Is(a, L)
  <2>1. \E x : Is(x, L)
    <3>. HIDE DEF Is
    <3>. QED  BY <1>3
  <2>. QED  BY <2>1
<1>5. File!InTurn(f, keys, given) = a[L]
  BY DEF File!InTurn
<1>. HIDE DEF a
<1>6. Successive(f, keys, given, a)
  BY <1>0, <1>4 DEF Successive
<1>. QED  BY <1>5, <1>6

\* What is made in turn depends on what is done with those keys only.
LEMMA InTurnSame ==
  ASSUME NEW f, NEW g, NEW K, NEW keys \in Seq(K), NEW given,
         \A i \in 1..Len(keys) : f[keys[i]] = g[keys[i]]
  PROVE  File!InTurn(f, keys, given) = File!InTurn(g, keys, given)
<1>1. PICK a : /\ Successive(f, keys, given, a)
               /\ File!InTurn(f, keys, given) = a[Len(keys)]
  BY InTurnIs
<1>2. PICK b : /\ Successive(g, keys, given, b)
               /\ File!InTurn(g, keys, given) = b[Len(keys)]
  BY InTurnIs
<1>. DEFINE S == {i \in 0..Len(keys) : a[i] = b[i]}
<1>3. Len(keys) \in Nat
  OBVIOUS
<1>4. 0 \in S
  BY <1>1, <1>2, <1>3 DEF Successive
<1>5. ASSUME NEW i \in 0 .. Len(keys) - 1, i \in S
      PROVE  i + 1 \in S
  <2>1. i + 1 \in 1..Len(keys) /\ (i + 1) - 1 = i
    BY <1>3
  <2>2. a[i + 1] = f[keys[i + 1]][a[i]] /\ b[i + 1] = g[keys[i + 1]][b[i]]
    BY <1>1, <1>2, <2>1 DEF Successive
  <2>. QED  BY <1>3, <1>5, <2>1, <2>2
<1>6. Len(keys) \in S
  <2>. HIDE DEF S
  <2>1. \A i \in 0..Len(keys) : i \in S
    BY <1>3, <1>4, <1>5, UpTo
  <2>. QED  BY <1>3, <2>1
<1>. QED  BY <1>1, <1>2, <1>6

\* The keys are numbered so that each needs later ones only.
Numbered(deps, n) ==
  /\ n \in Nat /\ deps \in [1..n -> Seq(1..n)]
  /\ \A k \in 1..n : \A i \in 1..Len(deps[k]) : deps[k][i] \in 1..n /\ deps[k][i] > k

Emplacing(f, deps, n, k) ==
  [given \in Seq(1..n) |-> IF File!Contains(given, k) THEN given
                           ELSE Append(File!InTurn(f, deps[k], given), k)]

LEMMA EmplacingSame ==
  ASSUME NEW deps, NEW n, Numbered(deps, n), NEW k \in 1..n, NEW f, NEW g,
         \A x \in 1..n : x > k => f[x] = g[x]
  PROVE  Emplacing(f, deps, n, k) = Emplacing(g, deps, n, k)
<1>1. deps[k] \in Seq(1..n)
  BY DEF Numbered
<1>2. \A i \in 1..Len(deps[k]) : f[deps[k][i]] = g[deps[k][i]]
  BY DEF Numbered
<1>3. \A given : File!InTurn(f, deps[k], given) = File!InTurn(g, deps[k], given)
  BY <1>1, <1>2, InTurnSame
<1>. QED  BY <1>3 DEF Emplacing

\* The recursive definition of emplace has a solution, since the later keys come
\* first.
LEMMA EmplaceIs ==
  ASSUME NEW deps, NEW n, Numbered(deps, n)
  PROVE  \A k \in 1..n : File!Emplace(deps)[k] = Emplacing(File!Emplace(deps), deps, n, k)
<1>. DEFINE Is(f) == f = [k \in 1..n |-> Emplacing(f, deps, n, k)]
            From(f, j) == \A k \in 1..n : k > n - j => f[k] = Emplacing(f, deps, n, k)
            S == {j \in 0..n : \E f : From(f, j)}
<1>0. n \in Nat
  BY DEF Numbered
<1>1. 0 \in S
  <2>1. From(<<>>, 0)
    BY <1>0
  <2>. HIDE DEF From
  <2>. QED  BY <1>0, <2>1
<1>2. ASSUME NEW j \in 0 .. n - 1, j \in S
      PROVE  j + 1 \in S
  <2>1. PICK f : From(f, j)
    <3>. HIDE DEF From
    <3>. QED  BY <1>2
  <2>. DEFINE g == [k \in 1..n |-> IF k = n - j THEN Emplacing(f, deps, n, k) ELSE f[k]]
  <2>2. ASSUME NEW k \in 1..n, k > n - (j + 1)
        PROVE  g[k] = Emplacing(g, deps, n, k)
    <3>1. g[k] = Emplacing(f, deps, n, k)
      <4>1. CASE k = n - j
        BY <4>1
      <4>2. CASE k # n - j
        <5>1. k > n - j
          BY <1>0, <2>2, <4>2
        <5>. QED  BY <2>1, <4>2, <5>1
      <4>. QED  BY <4>1, <4>2
    <3>2. \A x \in 1..n : x > k => f[x] = g[x]
      BY <1>0, <2>2
    <3>. HIDE DEF g
    <3>. QED  BY <3>1, <3>2, EmplacingSame
  <2>3. From(g, j + 1)
    <3>. HIDE DEF g
    <3>. QED  BY <2>2
  <2>. HIDE DEF From
  <2>. QED  BY <1>0, <2>3
<1>3. n \in S
  <2>. HIDE DEF S
  <2>. QED  BY <1>0, <1>1, <1>2, UpTo
<1>4. PICK f : From(f, n)
  <2>. HIDE DEF From
  <2>. QED  BY <1>3
<1>5. \E g : Is(g)
  <2>. DEFINE g == [k \in 1..n |-> f[k]]
  <2>1. ASSUME NEW k \in 1..n
        PROVE  g[k] = Emplacing(g, deps, n, k)
    <3>1. g[k] = Emplacing(f, deps, n, k)
      BY <1>0, <1>4
    <3>2. \A x \in 1..n : x > k => f[x] = g[x]
      OBVIOUS
    <3>. HIDE DEF g
    <3>. QED  BY <3>1, <3>2, EmplacingSame
  <2>2. g = [k \in 1..n |-> g[k]]
    OBVIOUS
  <2>3. Is(g)
    <3>. HIDE DEF g
    <3>. QED  BY <2>1, <2>2
  <2>. HIDE DEF Is, g
  <2>. QED  BY <2>3
<1>6. DOMAIN deps = 1..n
  BY DEF Numbered
<1>7. File!Emplace(deps) = CHOOSE g : Is(g)
  BY <1>6, Zenon DEF File!Emplace, Emplacing
<1>8. Is(File!Emplace(deps))
  <2>. HIDE DEF Is
  <2>. QED  BY <1>5, <1>7
<1>. HIDE DEF Is
<1>9. \A g : Is(g) => \A k \in 1..n : g[k] = Emplacing(g, deps, n, k)
  BY DEF Is
<1>. QED  BY <1>8, <1>9

-----------------------------------------------------------------------------
\* Keys that are in an index once, and after what they need.
Filed(deps, n, s) ==
  /\ s \in Seq(1..n)
  /\ \A i, j \in 1..Len(s) : s[i] = s[j] => i = j
  /\ \A i \in 1..Len(s) : \A x \in 1..Len(deps[s[i]]) :
       \E j \in 1 .. i - 1 : s[j] = deps[s[i]][x]

\* What is in the index stays there; what comes is not before a key.
Grown(n, s, t, least) ==
  /\ \A x \in 1..n : File!Contains(s, x) => File!Contains(t, x)
  /\ \A x \in 1..n : File!Contains(t, x) => File!Contains(s, x) \/ x >= least

Enters(f, deps, n, k) ==
  \A s : Filed(deps, n, s) => /\ Filed(deps, n, f[k][s]) /\ Grown(n, s, f[k][s], k)
                              /\ File!Contains(f[k][s], k)

LEMMA AllEnter ==
  ASSUME NEW deps, NEW n \in Nat, NEW keys \in Seq(1..n), NEW f, NEW least \in Nat,
         \A i \in 1..Len(keys) : keys[i] >= least /\ Enters(f, deps, n, keys[i]),
         NEW s, Filed(deps, n, s), NEW t, t = File!InTurn(f, keys, s)
  PROVE  /\ Filed(deps, n, t) /\ Grown(n, s, t, least)
         /\ \A i \in 1..Len(keys) : File!Contains(t, keys[i])
<1>1. PICK a : Successive(f, keys, s, a) /\ File!InTurn(f, keys, s) = a[Len(keys)]
  BY InTurnIs
<1>2. Len(keys) \in Nat /\ \A i \in 1..Len(keys) : keys[i] \in 1..n
  OBVIOUS
<1>. DEFINE Done(i) == /\ Filed(deps, n, a[i]) /\ Grown(n, s, a[i], least)
                       /\ \A x \in 1..i : File!Contains(a[i], keys[x])
            S == {i \in 0..Len(keys) : Done(i)}
<1>3. 0 \in S
  <2>1. a[0] = s
    BY <1>1 DEF Successive
  <2>. QED  BY <1>2, <2>1 DEF Grown
<1>4. ASSUME NEW i \in 0 .. Len(keys) - 1, i \in S
      PROVE  i + 1 \in S
  <2>1. i + 1 \in 1..Len(keys) /\ (i + 1) - 1 = i /\ i + 1 \in 0..Len(keys) /\ i \in Nat
    BY <1>2
  <2>2. PICK k \in 1..n : k = keys[i + 1] /\ k >= least /\ Enters(f, deps, n, k)
    BY <1>2, <2>1
  <2>3. PICK u : u = a[i] /\ Done(i)
    BY <1>4
  <2>4. PICK v : v = f[k][u] /\ a[i + 1] = v
    BY <1>1, <2>1, <2>2, <2>3 DEF Successive
  <2>5. Filed(deps, n, v) /\ Grown(n, u, v, k) /\ File!Contains(v, k)
    BY <2>2, <2>3, <2>4 DEF Enters
  <2>6. Grown(n, s, v, least)
    BY <2>2, <2>3, <2>5 DEF Grown
  <2>7. ASSUME NEW x \in 1 .. i + 1
        PROVE  File!Contains(v, keys[x])
    <3>1. CASE x = i + 1
      BY <2>2, <2>5, <3>1
    <3>2. CASE x \in 1..i
      <4>1. keys[x] \in 1..n
        BY <1>2, <2>1, <3>2
      <4>. QED  BY <2>3, <2>5, <3>2, <4>1 DEF Grown
    <3>. QED  BY <2>1, <3>1, <3>2
  <2>. QED  BY <2>1, <2>4, <2>5, <2>6, <2>7
<1>5. Len(keys) \in S
  <2>. HIDE DEF S
  <2>1. \A i \in 0..Len(keys) : i \in S
    BY <1>2, <1>3, <1>4, UpTo
  <2>. QED  BY <1>2, <2>1
<1>. QED  BY <1>1, <1>5

\* A key that is not there yet, once what it needs is.
LEMMA KeyEnters ==
  ASSUME NEW deps, NEW n, Numbered(deps, n), NEW k \in 1..n, NEW t, Filed(deps, n, t),
         ~ File!Contains(t, k), \A x \in 1..Len(deps[k]) : File!Contains(t, deps[k][x])
  PROVE  /\ Filed(deps, n, Append(t, k)) /\ File!Contains(Append(t, k), k)
         /\ \A x : File!Contains(Append(t, k), x) <=> File!Contains(t, x) \/ x = k
<1>. DEFINE u == Append(t, k)
<1>1. /\ t \in Seq(1..n) /\ u \in Seq(1..n) /\ Len(t) \in Nat /\ Len(u) = Len(t) + 1
      /\ u[Len(t) + 1] = k /\ \A i \in 1..Len(t) : u[i] = t[i]
  BY DEF Filed
<1>. HIDE DEF u
<1>2. \A i \in 1..Len(t) : t[i] # k
  BY DEF File!Contains
<1>3. \A i, j \in 1..Len(u) : u[i] = u[j] => i = j
  <2>1. \A i \in 1..Len(u) : i \in 1..Len(t) \/ i = Len(t) + 1
    BY <1>1
  <2>. QED  BY <1>1, <1>2, <2>1 DEF Filed
<1>4. ASSUME NEW i \in 1..Len(u), NEW x \in 1..Len(deps[u[i]])
      PROVE  \E j \in 1 .. i - 1 : u[j] = deps[u[i]][x]
  <2>1. CASE i \in 1..Len(t)
    <3>1. PICK j \in 1 .. i - 1 : t[j] = deps[t[i]][x]
      BY <1>1, <2>1 DEF Filed
    <3>. QED  BY <1>1, <2>1, <3>1
  <2>2. CASE i = Len(t) + 1
    <3>1. u[i] = k
      BY <1>1, <2>2
    <3>2. PICK j \in 1..Len(t) : t[j] = deps[k][x]
      BY <3>1 DEF File!Contains
    <3>. QED  BY <1>1, <2>2, <3>1, <3>2
  <2>. QED  BY <1>1, <2>1, <2>2
<1>5. \A x : File!Contains(u, x) <=> File!Contains(t, x) \/ x = k
  BY <1>1 DEF File!Contains
<1>. QED  BY <1>1, <1>3, <1>4, <1>5 DEF Filed, u

LEMMA EveryKeyEnters ==
  ASSUME NEW deps, NEW n, Numbered(deps, n)
  PROVE  \A k \in 1..n : Enters(File!Emplace(deps), deps, n, k)
<1>1. PICK f : f = File!Emplace(deps)
  OBVIOUS
<1>. DEFINE S == {j \in 0..n : \A k \in 1..n : k > n - j => Enters(f, deps, n, k)}
<1>2. n \in Nat
  BY DEF Numbered
<1>3. 0 \in S
  BY <1>2
<1>4. ASSUME NEW j \in 0 .. n - 1, j \in S
      PROVE  j + 1 \in S
  <2>1. ASSUME NEW k \in 1..n, k = n - j
        PROVE  Enters(f, deps, n, k)
    <3>. SUFFICES ASSUME NEW s, Filed(deps, n, s)
                  PROVE  /\ Filed(deps, n, f[k][s]) /\ Grown(n, s, f[k][s], k)
                         /\ File!Contains(f[k][s], k)
      BY DEF Enters
    <3>1. deps[k] \in Seq(1..n) /\ s \in Seq(1..n)
      BY DEF Numbered, Filed
    <3>2. f[k][s] = IF File!Contains(s, k) THEN s ELSE Append(File!InTurn(f, deps[k], s), k)
      <4>1. f[k] = Emplacing(f, deps, n, k)
        BY <1>1, EmplaceIs
      <4>. QED  BY <3>1, <4>1 DEF Emplacing
    <3>3. CASE File!Contains(s, k)
      BY <3>2, <3>3 DEF Grown
    <3>4. CASE ~ File!Contains(s, k)
      <4>1. PICK t : t = File!InTurn(f, deps[k], s)
        OBVIOUS
      <4>2. \A i \in 1..Len(deps[k]) : deps[k][i] >= k + 1 /\ Enters(f, deps, n, deps[k][i])
        <5>1. ASSUME NEW i \in 1..Len(deps[k])
              PROVE  deps[k][i] >= k + 1 /\ Enters(f, deps, n, deps[k][i])
          <6>1. PICK d \in 1..n : d = deps[k][i] /\ d > k
            BY DEF Numbered
          <6>2. Enters(f, deps, n, d) /\ d >= k + 1
            BY <1>2, <1>4, <2>1, <6>1
          <6>. QED  BY <6>1, <6>2
        <5>. QED  BY <5>1
      <4>3. /\ Filed(deps, n, t) /\ Grown(n, s, t, k + 1)
            /\ \A i \in 1..Len(deps[k]) : File!Contains(t, deps[k][i])
        <5>1. k + 1 \in Nat
          OBVIOUS
        <5>. QED  BY <1>2, <3>1, <4>1, <4>2, <5>1, AllEnter
      <4>4. ~ File!Contains(t, k)
        BY <3>4, <4>3 DEF Grown
      <4>5. /\ Filed(deps, n, Append(t, k)) /\ File!Contains(Append(t, k), k)
            /\ \A x : File!Contains(Append(t, k), x) <=> File!Contains(t, x) \/ x = k
        BY <4>3, <4>4, KeyEnters
      <4>6. Grown(n, s, Append(t, k), k)
        BY <4>3, <4>5 DEF Grown
      <4>. QED  BY <3>2, <3>4, <4>1, <4>5, <4>6
    <3>. QED  BY <3>3, <3>4
  <2>2. ASSUME NEW k \in 1..n, k > n - (j + 1)
        PROVE  Enters(f, deps, n, k)
    <3>1. k = n - j \/ k > n - j
      BY <1>2, <2>2
    <3>. QED  BY <1>4, <2>1, <3>1
  <2>. QED  BY <1>2, <2>2
<1>5. n \in S
  <2>. HIDE DEF S
  <2>1. \A j \in 0..n : j \in S
    BY <1>2, <1>3, <1>4, UpTo
  <2>. QED  BY <1>2, <2>1
<1>. QED  BY <1>1, <1>2, <1>5

-----------------------------------------------------------------------------
LEMMA CardinalityIs == \A S : File!Cardinality(S) = Cardinality(S)
BY Zenon DEF File!Cardinality, Cardinality, File!IsFiniteSet, IsFiniteSet

LEMMA SequenceIs ==
  ASSUME NEW K, NEW s \in Seq(K)
  PROVE  /\ s \in [1..Len(s) -> K] /\ DOMAIN s = 1..Len(s) /\ Len(s) \in Nat
         /\ \A i \in 1..Len(s) : s[i] \in K
OBVIOUS

LEMMA FilledIsFiled ==
  ASSUME NEW deps, NEW n, Numbered(deps, n), NEW keys \in Seq(1..n),
         \A k \in 1..n : \E i \in 1..Len(keys) : keys[i] = k
  PROVE  File!DependenciesAreFound(deps, File!Filled(deps, keys))
<1>1. PICK t : t = File!Filled(deps, keys)
  OBVIOUS
<1>2. n \in Nat /\ DOMAIN deps = 1..n
  BY DEF Numbered
<1>3. Filed(deps, n, t) /\ \A i \in 1..Len(keys) : File!Contains(t, keys[i])
  <2>1. Filed(deps, n, <<>>)
    BY DEF Filed
  <2>2. \A i \in 1..Len(keys) : keys[i] >= 0 /\ Enters(File!Emplace(deps), deps, n, keys[i])
    <3>1. \A i \in 1..Len(keys) : keys[i] \in 1..n
      BY SequenceIs
    <3>. QED  BY <3>1, EveryKeyEnters
  <2>3. t = File!InTurn(File!Emplace(deps), keys, <<>>)
    BY <1>1 DEF File!Filled
  <2>4. 0 \in Nat
    OBVIOUS
  <2>. QED  BY <1>2, <2>1, <2>2, <2>3, <2>4, AllEnter
<1>4. /\ t \in [1..Len(t) -> 1..n] /\ DOMAIN t = 1..Len(t) /\ Len(t) \in Nat
      /\ \A i \in 1..Len(t) : t[i] \in 1..n
  <2>1. t \in Seq(1..n)
    BY <1>3 DEF Filed
  <2>. QED  BY <2>1, SequenceIs
<1>5. \A k \in 1..n : \E i \in 1..Len(t) : t[i] = k
  BY <1>3 DEF File!Contains
<1>6. File!ToSet(t) = 1..n
  BY <1>4, <1>5 DEF File!ToSet
<1>7. Len(t) = Cardinality(1..n)
  <2>1. IsFiniteSet(1..Len(t)) /\ Cardinality(1..Len(t)) = Len(t)
    <3>1. 1 \in Int /\ Len(t) \in Int
      BY <1>4
    <3>2. /\ IsFiniteSet(1..Len(t))
          /\ Cardinality(1..Len(t)) = IF 1 > Len(t) THEN 0 ELSE Len(t) - 1 + 1
      BY ONLY <3>1, FS_Interval
    <3>. QED  BY <1>4, <3>2
  <2>2. \A i, j \in 1..Len(t) : t[i] = t[j] => i = j
    BY <1>3 DEF Filed
  <2>3. t \in Injection(1..Len(t), 1..n)
    BY <1>4, <2>2 DEF Injection, IsInjective
  <2>4. t \in Surjection(1..Len(t), 1..n)
    BY <1>4, <1>5 DEF Surjection
  <2>5. ExistsBijection(1..Len(t), 1..n)
    BY <2>3, <2>4 DEF Bijection, ExistsBijection
  <2>. QED  BY <2>1, <2>5, FS_Bijection
<1>8. ASSUME NEW i \in 1..Len(t)
      PROVE  File!ToSet(deps[t[i]]) \subseteq {t[j] : j \in 1 .. i - 1}
  <2>1. PICK k \in 1..n : k = t[i]
    BY <1>4
  <2>2. deps[k] \in Seq(1..n)
    BY DEF Numbered
  <2>3. DOMAIN deps[k] = 1..Len(deps[k])
    BY <2>2, SequenceIs
  <2>4. \A x \in 1..Len(deps[k]) : \E j \in 1 .. i - 1 : t[j] = deps[k][x]
    BY <1>3, <2>1 DEF Filed
  <2>. QED  BY <2>1, <2>3, <2>4 DEF File!ToSet
<1>9. File!DependenciesAreFound(deps, t)
  BY <1>2, <1>4, <1>6, <1>7, <1>8, CardinalityIs DEF File!DependenciesAreFound
<1>. QED  BY <1>1, <1>9

-----------------------------------------------------------------------------
\* A largest number is among those up to a bound.
LEMMA MaxIsThere ==
  ASSUME NEW b \in Nat, NEW M, M # {}, \A x \in M : x \in 0..b
  PROVE  File!Max(M) \in M /\ \A x \in M : x <= File!Max(M)
<1>1. \E x \in M : \A y \in M : x >= y
  <2>. SUFFICES ASSUME \A x \in M : \E y \in M : ~ (x >= y)
                PROVE  FALSE
    OBVIOUS
  <2>1. \A j \in 0..b : \A x \in M : x <= b - j
    <3>. DEFINE T == {j \in 0..b : \A x \in M : x <= b - j}
    <3>1. 0 \in T
      OBVIOUS
    <3>2. ASSUME NEW j \in 0 .. b - 1, j \in T
          PROVE  j + 1 \in T
      <4>1. ASSUME NEW x \in M
            PROVE  x <= b - (j + 1)
        <5>1. PICK y \in M : ~ (x >= y)
          OBVIOUS
        <5>2. x \in 0..b /\ y \in 0..b /\ y <= b - j
          BY <3>2
        <5>. QED  BY <5>1, <5>2
      <4>. QED  BY <4>1
    <3>3. \A j \in 0..b : j \in T
      <4>. HIDE DEF T
      <4>. QED  BY <3>1, <3>2, UpTo
    <3>. QED  BY <3>3
  <2>2. PICK x \in M : TRUE
    OBVIOUS
  <2>3. PICK y \in M : ~ (x >= y)
    OBVIOUS
  <2>4. x \in 0..b /\ y \in 0..b /\ y <= b - b
    BY <2>1
  <2>. QED  BY <2>3, <2>4
<1>2. \A x, y \in M : x \in Nat /\ y \in Nat
  OBVIOUS
<1>. QED  BY <1>1, <1>2 DEF File!Max

Deepest(f, deps, k) == File!Max({1} \union {1 + f[dep] : dep \in File!ToSet(deps[k])})

LEMMA DeepestSame ==
  ASSUME NEW deps, NEW n, Numbered(deps, n), NEW k \in 1..n, NEW f, NEW g,
         \A x \in 1..n : x > k => f[x] = g[x]
  PROVE  Deepest(f, deps, k) = Deepest(g, deps, k)
<1>1. \A dep \in File!ToSet(deps[k]) : dep \in 1..n /\ dep > k
  <2>1. deps[k] \in Seq(1..n)
    BY DEF Numbered
  <2>2. DOMAIN deps[k] = 1..Len(deps[k])
    BY <2>1, SequenceIs
  <2>. QED  BY <2>2 DEF Numbered, File!ToSet
<1>2. {1 + f[dep] : dep \in File!ToSet(deps[k])} = {1 + g[dep] : dep \in File!ToSet(deps[k])}
  BY <1>1
<1>. QED  BY <1>2 DEF Deepest

LEMMA DepthIs ==
  ASSUME NEW deps, NEW n, Numbered(deps, n)
  PROVE  \A k \in 1..n : File!Depth(deps)[k] = Deepest(File!Depth(deps), deps, k)
<1>. DEFINE Is(f) == f = [k \in 1..n |-> Deepest(f, deps, k)]
            From(f, j) == \A k \in 1..n : k > n - j => f[k] = Deepest(f, deps, k)
            S == {j \in 0..n : \E f : From(f, j)}
<1>0. n \in Nat
  BY DEF Numbered
<1>1. 0 \in S
  <2>1. From(<<>>, 0)
    BY <1>0
  <2>. HIDE DEF From
  <2>. QED  BY <1>0, <2>1
<1>2. ASSUME NEW j \in 0 .. n - 1, j \in S
      PROVE  j + 1 \in S
  <2>1. PICK f : From(f, j)
    <3>. HIDE DEF From
    <3>. QED  BY <1>2
  <2>. DEFINE g == [k \in 1..n |-> IF k = n - j THEN Deepest(f, deps, k) ELSE f[k]]
  <2>2. ASSUME NEW k \in 1..n, k > n - (j + 1)
        PROVE  g[k] = Deepest(g, deps, k)
    <3>1. g[k] = Deepest(f, deps, k)
      <4>1. CASE k = n - j
        BY <4>1
      <4>2. CASE k # n - j
        <5>1. k > n - j
          BY <1>0, <2>2, <4>2
        <5>. QED  BY <2>1, <4>2, <5>1
      <4>. QED  BY <4>1, <4>2
    <3>2. \A x \in 1..n : x > k => f[x] = g[x]
      BY <1>0, <2>2
    <3>. HIDE DEF g
    <3>. QED  BY <3>1, <3>2, DeepestSame
  <2>3. From(g, j + 1)
    <3>. HIDE DEF g
    <3>. QED  BY <2>2
  <2>. HIDE DEF From
  <2>. QED  BY <1>0, <2>3
<1>3. n \in S
  <2>. HIDE DEF S
  <2>. QED  BY <1>0, <1>1, <1>2, UpTo
<1>4. PICK f : From(f, n)
  <2>. HIDE DEF From
  <2>. QED  BY <1>3
<1>5. \E g : Is(g)
  <2>. DEFINE g == [k \in 1..n |-> f[k]]
  <2>1. ASSUME NEW k \in 1..n
        PROVE  g[k] = Deepest(g, deps, k)
    <3>1. g[k] = Deepest(f, deps, k)
      BY <1>0, <1>4
    <3>2. \A x \in 1..n : x > k => f[x] = g[x]
      OBVIOUS
    <3>. HIDE DEF g
    <3>. QED  BY <3>1, <3>2, DeepestSame
  <2>2. g = [k \in 1..n |-> g[k]]
    OBVIOUS
  <2>3. Is(g)
    <3>. HIDE DEF g
    <3>. QED  BY <2>1, <2>2
  <2>. HIDE DEF Is, g
  <2>. QED  BY <2>3
<1>6. DOMAIN deps = 1..n
  BY DEF Numbered
<1>7. File!Depth(deps) = CHOOSE g : Is(g)
  BY <1>6, Zenon DEF File!Depth, Deepest
<1>8. Is(File!Depth(deps))
  <2>. HIDE DEF Is
  <2>. QED  BY <1>5, <1>7
<1>. HIDE DEF Is
<1>9. \A g : Is(g) => \A k \in 1..n : g[k] = Deepest(g, deps, k)
  BY DEF Is
<1>. QED  BY <1>8, <1>9

\* A key is deeper than what it needs.
LEMMA NeededIsLessDeep ==
  ASSUME NEW deps, NEW n, Numbered(deps, n), NEW depth, depth = File!Depth(deps)
  PROVE  \A k \in 1..n : /\ depth[k] \in Nat
                         /\ \A dep \in File!ToSet(deps[k]) : dep \in 1..n /\ depth[dep] < depth[k]
<1>0. n \in Nat
  BY DEF Numbered
<1>. DEFINE Less(k) == /\ depth[k] \in 1 .. n - k + 1
                       /\ \A dep \in File!ToSet(deps[k]) : dep \in 1..n /\ depth[dep] < depth[k]
            S == {j \in 0..n : \A k \in 1..n : k > n - j => Less(k)}
<1>1. 0 \in S
  BY <1>0
<1>2. ASSUME NEW j \in 0 .. n - 1, j \in S
      PROVE  j + 1 \in S
  <2>1. ASSUME NEW k \in 1..n, k = n - j
        PROVE  Less(k)
    <3>. DEFINE M == {1} \union {1 + depth[dep] : dep \in File!ToSet(deps[k])}
    <3>1. \A dep \in File!ToSet(deps[k]) : dep \in 1..n /\ dep > k
      <4>1. deps[k] \in Seq(1..n)
        BY DEF Numbered
      <4>2. DOMAIN deps[k] = 1..Len(deps[k])
        BY <4>1, SequenceIs
      <4>. QED  BY <4>2 DEF Numbered, File!ToSet
    <3>2. \A dep \in File!ToSet(deps[k]) : depth[dep] \in 1 .. n - k
      <4>1. ASSUME NEW dep \in 1..n, dep > k
            PROVE  depth[dep] \in 1 .. n - k
        <5>1. depth[dep] \in 1 .. n - dep + 1
          BY <1>0, <1>2, <2>1, <4>1
        <5>. QED  BY <1>0, <4>1, <5>1
      <4>. QED  BY <3>1, <4>1
    <3>3. n - k + 1 \in Nat /\ \A x \in M : x \in 1 .. n - k + 1
      BY <1>0, <3>2
    <3>4. depth[k] = File!Max(M)
      BY DepthIs DEF Deepest
    <3>5. 1 \in M /\ \A dep \in File!ToSet(deps[k]) : 1 + depth[dep] \in M
      OBVIOUS
    <3>6. \A x \in M : x \in 0 .. n - k + 1
      BY <3>3
    <3>. HIDE DEF M
    <3>7. depth[k] \in M /\ \A x \in M : x <= depth[k]
      BY <3>3, <3>4, <3>5, <3>6, MaxIsThere
    <3>8. depth[k] \in 1 .. n - k + 1
      BY <3>3, <3>7
    <3>9. \A dep \in File!ToSet(deps[k]) : depth[dep] < depth[k]
      <4>1. ASSUME NEW dep \in File!ToSet(deps[k])
            PROVE  depth[dep] < depth[k]
        <5>1. depth[dep] \in Nat /\ depth[k] \in Nat
          BY <1>0, <3>2, <3>8
        <5>2. 1 + depth[dep] <= depth[k]
          BY <3>5, <3>7
        <5>. QED  BY <5>1, <5>2
      <4>. QED  BY <4>1
    <3>. QED  BY <3>1, <3>8, <3>9
  <2>2. ASSUME NEW k \in 1..n, k > n - (j + 1)
        PROVE  Less(k)
    <3>1. k = n - j \/ k > n - j
      BY <1>0, <2>2
    <3>2. k > n - j => Less(k)
      BY <1>2
    <3>. QED  BY <2>1, <3>1, <3>2
  <2>. HIDE DEF Less
  <2>. QED  BY <1>0, <2>2
<1>3. n \in S
  <2>. HIDE DEF S
  <2>. QED  BY <1>0, <1>1, <1>2, UpTo
<1>4. ASSUME NEW k \in 1..n
      PROVE  Less(k)
  <2>. HIDE DEF Less
  <2>. QED  BY <1>0, <1>3
<1>. QED  BY <1>0, <1>4

\* A sequence of all elements of a set.
LEMMA SeqOfSet ==
  ASSUME NEW S, IsFiniteSet(S), NEW s \in File!SetToSeqs(S)
  PROVE  /\ s \in Seq(S) /\ DOMAIN s = 1..Len(s)
         /\ \A x \in S : \E i \in 1..Len(s) : s[i] = x
<1>1. Cardinality(S) \in Nat
  BY FS_CardinalityType
<1>2. s \in [1..Cardinality(S) -> S] /\ \A i, j \in 1..Cardinality(S) : i # j => s[i] # s[j]
  BY CardinalityIs DEF File!SetToSeqs
<1>3. s \in Seq(S) /\ Len(s) = Cardinality(S) /\ DOMAIN s = 1..Len(s)
  BY <1>1, <1>2
<1>4. s \in Injection(1..Len(s), S)
  BY <1>2, <1>3 DEF Injection, IsInjective
<1>5. Cardinality(1..Len(s)) = Cardinality(S)
  <2>1. 1 \in Int /\ Len(s) \in Int
    BY <1>1, <1>3
  <2>2. Cardinality(1..Len(s)) = IF 1 > Len(s) THEN 0 ELSE Len(s) - 1 + 1
    BY ONLY <2>1, FS_Interval
  <2>. QED  BY <1>1, <1>3, <2>2
<1>6. s \in Surjection(1..Len(s), S)
  BY <1>4, <1>5, FS_Injection
<1>. QED  BY <1>3, <1>6 DEF Surjection

LEMMA SortedIsOrdered ==
  ASSUME NEW deps, NEW n, Numbered(deps, n), NEW s \in File!Sorted(deps)
  PROVE  File!DependenciesComeLater(deps, s)
<1>1. PICK depth : depth = File!Depth(deps)
  OBVIOUS
<1>2. n \in Nat /\ DOMAIN deps = 1..n /\ IsFiniteSet(1..n)
  <2>1. 1 \in Int /\ n \in Int /\ DOMAIN deps = 1..n
    BY DEF Numbered
  <2>. QED  BY <2>1, FS_Interval DEF Numbered
<1>3. /\ s \in File!SetToSeqs(1..n)
      /\ \A i, j \in DOMAIN s : i < j => depth[s[i]] >= depth[s[j]]
  BY <1>1, <1>2 DEF File!Sorted
<1>4. s \in Seq(1..n) /\ DOMAIN s = 1..Len(s)
  BY <1>2, <1>3, SeqOfSet
<1>5. ASSUME NEW i \in 1..Len(s), NEW j \in 1..Len(s), File!Contains(deps[s[i]], s[j])
      PROVE  i < j
  <2>1. PICK a \in 1..n, b \in 1..n : a = s[i] /\ b = s[j]
    BY <1>4, SequenceIs
  <2>2. b \in File!ToSet(deps[a])
    <3>1. deps[a] \in Seq(1..n)
      BY DEF Numbered
    <3>2. DOMAIN deps[a] = 1..Len(deps[a])
      BY <3>1, SequenceIs
    <3>. QED  BY <1>5, <2>1, <3>2 DEF File!Contains, File!ToSet
  <2>3. depth[a] \in Nat /\ depth[b] \in Nat /\ depth[b] < depth[a]
    BY <1>1, <2>2, NeededIsLessDeep
  <2>4. ~ (j < i) /\ i # j
    BY <1>3, <1>4, <2>1, <2>3
  <2>. QED  BY <1>4, <2>4
<1>. QED  BY <1>4, <1>5 DEF File!DependenciesComeLater

Put(d, m) == <<d>> \o m
Longer(D, F) == {Put(d, m) : d \in D, m \in F}

LEMMA LongerIs ==
  ASSUME NEW D, NEW F, NEW e \in Longer(D, F)
  PROVE  \E d \in D, m \in F : e = Put(d, m)
BY DEF Longer

\* What the manifests of the run have in common.
LEMMA ManifestsAreNumbered ==
  ASSUME NEW n \in Nat
  PROVE  \A deps \in File!Manifests(n) : Numbered(deps, n)
<1>. DEFINE later(k) == UNION {File!SetToSeqs(S) : S \in SUBSET (k + 1 .. n)}
            Those(f, k) == IF k > n THEN {<<>>} ELSE Longer(later(k), f[k + 1])
            Is(f) == f = [k \in 1 .. n + 1 |-> Those(f, k)]
            made == CHOOSE f : Is(f)
            Fits(m, k) == /\ m \in Seq(Seq(1..n)) /\ Len(m) = n + 1 - k
                          /\ \A i \in 1..Len(m) : \A x \in 1..Len(m[i]) :
                               m[i][x] \in 1..n /\ m[i][x] > i + k - 1
<1>1. \A k \in 1..n : \A d \in later(k) : /\ d \in Seq(1..n) /\ Len(d) \in Nat
                                          /\ \A x \in 1..Len(d) : d[x] \in 1..n /\ d[x] > k
  <2>1. ASSUME NEW k \in 1..n, NEW S \in SUBSET (k + 1 .. n), NEW d \in File!SetToSeqs(S)
        PROVE  /\ d \in Seq(1..n) /\ Len(d) \in Nat
               /\ \A x \in 1..Len(d) : d[x] \in 1..n /\ d[x] > k
    <3>1. IsFiniteSet(S)
      <4>1. k + 1 \in Int /\ n \in Int
        OBVIOUS
      <4>2. IsFiniteSet(k + 1 .. n)
        BY <4>1, FS_Interval
      <4>. QED  BY <4>2, FS_Subset
    <3>2. d \in Seq(S)
      BY <3>1, SeqOfSet
    <3>3. Len(d) \in Nat /\ \A x \in 1..Len(d) : d[x] \in S
      BY <3>2, SequenceIs
    <3>4. d \in [1..Len(d) -> 1..n]
      <4>1. d \in [1..Len(d) -> S]
        BY <3>2, SequenceIs
      <4>2. S \subseteq 1..n
        OBVIOUS
      <4>. QED  BY <4>1, <4>2
    <3>5. d \in Seq(1..n)
      BY <3>3, <3>4
    <3>. QED  BY <3>3, <3>5
  <2>. QED  BY <2>1
<1>2. \E f : Is(f)
  <2>. DEFINE From(f, j) == \A k \in 1 .. n + 1 : k > n + 1 - j => f[k] = Those(f, k)
              S == {j \in 0 .. n + 1 : \E f : From(f, j)}
  <2>1. 0 \in S
    <3>1. From(<<>>, 0)
      OBVIOUS
    <3>. HIDE DEF From
    <3>. QED  BY <3>1
  <2>2. ASSUME NEW j \in 0 .. (n + 1) - 1, j \in S
        PROVE  j + 1 \in S
    <3>1. PICK f : From(f, j)
      <4>. HIDE DEF From
      <4>. QED  BY <2>2
    <3>. DEFINE g == [k \in 1 .. n + 1 |-> IF k = n + 1 - j THEN Those(f, k) ELSE f[k]]
    <3>. HIDE DEF later
    <3>2. ASSUME NEW k \in 1 .. n + 1, k > n + 1 - (j + 1)
          PROVE  g[k] = Those(g, k)
      <4>1. k <= n => k + 1 \in 1 .. n + 1 /\ k + 1 > n + 1 - j
        BY <3>2
      <4>2. k <= n => g[k + 1] = f[k + 1]
        BY <4>1
      <4>3. Those(g, k) = Those(f, k)
        <5>. HIDE DEF g
        <5>1. CASE k > n
          BY <5>1
        <5>2. CASE ~ (k > n)
          <6>1. g[k + 1] = f[k + 1]
            BY <3>2, <4>2, <5>2
          <6>. QED  BY <5>2, <6>1
        <5>. QED  BY <5>1, <5>2
      <4>4. CASE k = n + 1 - j
        <5>1. g[k] = Those(f, k)
          BY <4>4
        <5>. QED  BY <4>3, <5>1
      <4>5. CASE k # n + 1 - j
        <5>1. g[k] = f[k] /\ k > n + 1 - j
          BY <3>2, <4>5
        <5>2. f[k] = Those(f, k)
          <6>. HIDE DEF Those
          <6>. QED  BY <3>1, <5>1
        <5>. HIDE DEF Those
        <5>. QED  BY <4>3, <5>1, <5>2
      <4>. QED  BY <4>4, <4>5
    <3>3. From(g, j + 1)
      <4>. HIDE DEF g, Those
      <4>. QED  BY <3>2
    <3>. HIDE DEF From
    <3>. QED  BY <3>3
  <2>3. n + 1 \in S
    <3>1. n + 1 \in Nat
      OBVIOUS
    <3>. HIDE DEF S
    <3>2. \A j \in 0 .. n + 1 : j \in S
      BY <2>1, <2>2, <3>1, UpTo
    <3>. QED  BY <3>1, <3>2
  <2>4. PICK f : From(f, n + 1)
    <3>. HIDE DEF From
    <3>. QED  BY <2>3
  <2>. DEFINE g == [k \in 1 .. n + 1 |-> f[k]]
  <2>5. ASSUME NEW k \in 1 .. n + 1
        PROVE  g[k] = Those(g, k)
    <3>. HIDE DEF later
    <3>1. g[k] = Those(f, k)
      <4>. HIDE DEF Those
      <4>. QED  BY <2>4
    <3>2. CASE k > n
      <4>. HIDE DEF g
      <4>. QED  BY <3>1, <3>2
    <3>3. CASE ~ (k > n)
      <4>1. g[k + 1] = f[k + 1]
        BY <3>3
      <4>. HIDE DEF g
      <4>. QED  BY <3>1, <3>3, <4>1
    <3>. QED  BY <3>2, <3>3
  <2>6. g = [k \in 1 .. n + 1 |-> g[k]]
    OBVIOUS
  <2>7. Is(g)
    <3>. HIDE DEF g, Those
    <3>. QED  BY <2>5, <2>6
  <2>. HIDE DEF Is, g
  <2>. QED  BY <2>7
<1>3. Is(made)
  <2>. HIDE DEF Is
  <2>. QED  BY <1>2
<1>4. File!Manifests(n) = made[1]
  BY DEF File!Manifests, Longer, Put
<1>. HIDE DEF made, later
<1>5. \A k \in 1 .. n + 1 : made[k] = Those(made, k)
  <2>. HIDE DEF Those
  <2>1. \A f : Is(f) => \A k \in 1 .. n + 1 : f[k] = Those(f, k)
    OBVIOUS
  <2>. HIDE DEF Is
  <2>. QED  BY <1>3, <2>1
<1>. DEFINE S == {j \in 0..n : \A m \in made[n + 1 - j] : Fits(m, n + 1 - j)}
<1>6. 0 \in S
  <2>1. made[n + 1] = {<<>>}
    <3>1. made[n + 1] = Those(made, n + 1)
      BY <1>5
    <3>. QED  BY <3>1
  <2>2. Fits(<<>>, n + 1)
    OBVIOUS
  <2>. HIDE DEF Fits
  <2>. QED  BY <2>1, <2>2
<1>7. ASSUME NEW j \in 0 .. n - 1, j \in S
      PROVE  j + 1 \in S
  <2>1. PICK k \in 1..n : k = n + 1 - (j + 1) /\ k + 1 = n + 1 - j
    OBVIOUS
  <2>2. ASSUME NEW d \in later(k), NEW m \in made[k + 1]
        PROVE  Fits(Put(d, m), k)
    <3>1. /\ d \in Seq(1..n) /\ Len(d) \in Nat
          /\ \A x \in 1..Len(d) : d[x] \in 1..n /\ d[x] > k
      BY <1>1, <2>2
    <3>2. Fits(m, k + 1)
      <4>. HIDE DEF Fits
      <4>. QED  BY <1>7, <2>1, <2>2
    <3>3. PICK all : all = Put(d, m)
      OBVIOUS
    <3>4. /\ all \in Seq(Seq(1..n)) /\ Len(all) = Len(m) + 1 /\ Len(m) \in Nat
          /\ all[1] = d /\ \A i \in 1..Len(m) : all[i + 1] = m[i]
      <4>1. PICK K : K = Seq(1..n)
        OBVIOUS
      <4>2. d \in K /\ m \in Seq(K)
        BY <3>1, <3>2, <4>1
      <4>. HIDE DEF Fits
      <4>3. /\ all \in Seq(K) /\ Len(all) = Len(m) + 1 /\ Len(m) \in Nat
            /\ all[1] = d /\ \A i \in 1..Len(m) : all[i + 1] = m[i]
        BY ONLY <3>3, <4>2 DEF Put
      <4>. QED  BY <4>1, <4>3, Zenon
    <3>5. ASSUME NEW i \in 1..Len(all), NEW x \in 1..Len(all[i])
          PROVE  all[i][x] \in 1..n /\ all[i][x] > i + k - 1
      <4>1. CASE i = 1
        BY <3>1, <3>4, <4>1
      <4>2. CASE i # 1
        <5>1. PICK h \in 1..Len(m) : i = h + 1 /\ all[i] = m[h]
          <6>1. i - 1 \in 1..Len(m) /\ i = (i - 1) + 1
            BY <3>4, <4>2
          <6>. QED  BY <3>4, <6>1
        <5>2. m[h][x] \in 1..n /\ m[h][x] > h + (k + 1) - 1
          BY <3>2, <5>1
        <5>3. h + (k + 1) - 1 = i + k - 1
          BY <3>4, <5>1
        <5>. QED  BY <5>1, <5>2, <5>3
      <4>. QED  BY <4>1, <4>2
    <3>6. Len(all) = n + 1 - k
      BY <2>1, <3>2, <3>4
    <3>7. Fits(all, k)
      BY <3>4, <3>5, <3>6
    <3>. HIDE DEF Fits
    <3>. QED  BY <3>3, <3>7
  <2>3. made[k] = Longer(later(k), made[k + 1])
    <3>1. made[k] = Those(made, k)
      BY <1>5, <2>1
    <3>. QED  BY <2>1, <3>1
  <2>4. \A m \in made[k] : Fits(m, k)
    <3>. HIDE DEF Fits
    <3>1. \A e \in made[k] : \E d \in later(k), m \in made[k + 1] : e = Put(d, m)
      BY <2>3, LongerIs
    <3>. QED  BY <2>2, <3>1
  <2>5. j + 1 \in 0..n
    OBVIOUS
  <2>. HIDE DEF Fits
  <2>. QED  BY <2>1, <2>4, <2>5
<1>8. n \in S
  <2>. HIDE DEF S
  <2>1. \A j \in 0..n : j \in S
    BY <1>6, <1>7, UpTo
  <2>. QED  BY <2>1
<1>9. ASSUME NEW deps \in made[1]
      PROVE  Numbered(deps, n)
  <2>1. Fits(deps, n + 1 - n) /\ n + 1 - n = 1
    <3>. HIDE DEF Fits
    <3>. QED  BY <1>8
  <2>2. deps \in Seq(Seq(1..n)) /\ Len(deps) = n
    BY <2>1
  <2>3. deps \in [1..n -> Seq(1..n)]
    BY <2>2
  <2>4. \A k \in 1..n : \A i \in 1..Len(deps[k]) : deps[k][i] \in 1..n /\ deps[k][i] > k
    BY <2>1, <2>2
  <2>. QED  BY <2>3, <2>4 DEF Numbered
<1>. QED  BY <1>4, <1>9

\* However the file of a manifest is ordered, and whatever the number of its keys:
\* emplace puts every key into the index once, after all it depends on, and a sort
\* by depth puts it before all it depends on (action-manifest.cpp 13-61,
\* execution-context.cpp 77-93).
THEOREM ManifestsInOrder == \A n \in Nat : File!ManifestsAreOrdered(n)
<1>. SUFFICES ASSUME NEW n \in Nat, NEW deps \in File!Manifests(n)
              PROVE  /\ \A keys \in File!SetToSeqs(1..n) :
                          File!DependenciesAreFound(deps, File!Filled(deps, keys))
                     /\ \A s \in File!Sorted(deps) : File!DependenciesComeLater(deps, s)
  BY DEF File!ManifestsAreOrdered
<1>1. Numbered(deps, n)
  BY ManifestsAreNumbered
<1>2. IsFiniteSet(1..n)
  <2>1. 1 \in Int /\ n \in Int
    OBVIOUS
  <2>. QED  BY <2>1, FS_Interval
<1>3. ASSUME NEW keys \in File!SetToSeqs(1..n)
      PROVE  File!DependenciesAreFound(deps, File!Filled(deps, keys))
  <2>1. keys \in Seq(1..n) /\ \A x \in 1..n : \E i \in 1..Len(keys) : keys[i] = x
    BY <1>2, SeqOfSet
  <2>. QED  BY <1>1, <2>1, FilledIsFiled
<1>4. \A s \in File!Sorted(deps) : File!DependenciesComeLater(deps, s)
  BY <1>1, SortedIsOrdered
<1>. QED  BY <1>3, <1>4

\* Manifests of four keys are put into the order that ManifestAssumption takes
\* for granted: what the run evaluates (action-manifest.cpp 13-61,
\* execution-context.cpp 77-93).
THEOREM ManifestStaysOrdered == Spec => []ManifestIsOrdered
<1>1. ManifestIsOrdered
  <2>1. 4 \in Nat
    OBVIOUS
  <2>2. File!ManifestsAreOrdered(4)
    BY <2>1, ManifestsInOrder
  <2>. QED  BY <2>2 DEF ManifestIsOrdered
<1>. QED  BY <1>1, PTL

=============================================================================

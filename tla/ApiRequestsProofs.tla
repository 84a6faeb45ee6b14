-------------------------- MODULE ApiRequestsProofs -------------------------
(***************************************************************************)
(* Proofs about ApiRequests, for any contexts, concurrency and manifest:   *)
(* the number of running transfers is right, a handle carries one request  *)
(* at a time, and each index is asked for once.                            *)
(***************************************************************************)
EXTENDS ApiRequests, FiniteSetTheorems, TLAPS

-----------------------------------------------------------------------------
(* The inductive invariant.                                                *)

InCall == main \in {"read", "remove", "build"}

\* The handles that make_api_requests has in hand from the k-th on are out of
\* the multi handle, but for the one whose message has just been read.
InHand ==
  /\ \A k, l \in 1 .. Len(handles) :
       main \in {"read", "remove", "build", "add", "perform"} /\ k # l
         => handles[k] # handles[l]
  /\ main \in {"read", "build"} =>
       \A k \in 1 .. Len(handles) : stage[handles[k]] = "out"
  /\ main = "remove" =>
       /\ Len(handles) > 0
       /\ \A k \in 1 .. Len(handles) - 1 : stage[handles[k]] = "out"
       /\ stage[LastRead] = "read"
  /\ main = "add" =>
       \A k \in i + 1 .. Len(handles) : stage[handles[k]] = "out"
  /\ main = "perform" =>
       \A k \in i + 2 .. Len(handles) : stage[handles[k]] = "out"

\* Handles are made as they are needed.
Made ==
  /\ made \in Nat /\ IsFiniteSet(called)
  /\ made <= (Cardinality(called) - (IF InCall THEN 1 ELSE 0)) * Asked
  /\ \A h \in Handles : h > made => stage[h] = "out"
  /\ \A k \in 1 .. Len(handles) : handles[k] <= made
  /\ InCall => i = 0
  /\ main \in {"add", "perform"} => i < Asked /\ Len(handles) >= Asked
  /\ main # "idle" => cur \in called

\* How many of its requests a context has made.
MadeBy(c) ==
  IF c \notin called THEN 0
  ELSE IF c # cur \/ main = "idle" THEN Asked
  ELSE IF main = "perform" THEN i + 1
  ELSE i

Upto(c, n) == {Request(c, StartIndices[k]) : k \in 1 .. n}

\* These are under way, each once.
Requested ==
  /\ \A h \in Running(stage) : data[h] \in Requests
  /\ \A g, h \in Running(stage) : data[g] = data[h] => g = h
  /\ \A h \in Running(stage) :
       data[h] \in sent <=> stage[h] \in {"waiting", "answered"}
  /\ \A c \in Contexts : Underway(c) = Upto(c, MadeBy(c))

IInv == TypeOK /\ CounterIsRight /\ InHand /\ Made /\ Requested

-----------------------------------------------------------------------------
(* Numbers.                                                                *)

LEMMA AskedType == Asked \in Nat /\ Asked > 0
BY SizeAssumption DEF Asked

LEMMA Product ==
  ASSUME NEW q \in Nat \ {0}, NEW k \in Nat, NEW l \in Nat, k < l
  PROVE  k * q \in Nat /\ l * q \in Nat /\ k * q < l * q
<1>1. PICK d \in Nat : l = k + d /\ d > 0
  <2>1. l - k \in Nat /\ l = k + (l - k) /\ l - k > 0
    OBVIOUS
  <2> QED
    BY <2>1
<1>2. l * q = k * q + d * q
  BY <1>1
<1>3. d * q > 0 /\ d * q \in Nat /\ k * q \in Nat
  BY <1>1
<1> QED
  BY <1>2, <1>3

\* populate_indices: the other contexts start apart, none where the primary does.
LEMMA IndicesApart ==
  /\ \A k \in 1 .. Asked : StartIndices[k] \in Nat \ {0}
  /\ \A k, l \in 1 .. Asked : StartIndices[k] = StartIndices[l] => k = l
<1> DEFINE q == ManifestSize \div Concurrency
<1>1. CASE ManifestSize < Concurrency
  BY <1>1, AskedType DEF StartIndices
<1>2. CASE ~ (ManifestSize < Concurrency)
  <2>1. q \in Nat \ {0}
    BY <1>2, SizeAssumption
  <2>2. \A k \in 1 .. Asked : StartIndices[k] = k * q
    BY <1>2 DEF StartIndices
  <2> HIDE DEF q
  <2>3. \A k \in 1 .. Asked : k * q \in Nat /\ k * q # 0
    BY <2>1, AskedType
  <2>4. ASSUME NEW k \in 1 .. Asked, NEW l \in 1 .. Asked, k * q = l * q
        PROVE  k = l
    <3>1. k \in Nat /\ l \in Nat
      BY AskedType
    <3>2. ~ (k < l)
      BY <2>1, <2>4, <3>1, Product
    <3>3. ~ (l < k)
      BY <2>1, <2>4, <3>1, Product
    <3> QED
      BY <3>1, <3>2, <3>3
  <2> QED
    BY <2>2, <2>3, <2>4
<1> QED
  BY <1>1, <1>2

\* There are handles enough.
LEMMA HandlesSuffice ==
  ASSUME NEW S \in SUBSET Contexts, NEW n \in Nat, n <= Cardinality(S) * Asked
  PROVE  n <= Cardinality(Contexts) * Asked
<1>1. /\ Cardinality(S) \in Nat /\ Cardinality(Contexts) \in Nat
      /\ Cardinality(S) <= Cardinality(Contexts)
  BY SizeAssumption, FS_Subset, FS_CardinalityType
<1>2. Cardinality(S) = Cardinality(Contexts)
        \/ Cardinality(S) * Asked < Cardinality(Contexts) * Asked
  BY <1>1, AskedType, Product
<1>3. Cardinality(S) * Asked \in Nat /\ Cardinality(Contexts) * Asked \in Nat
  BY <1>1, AskedType
<1> QED
  BY <1>2, <1>3

LEMMA HandlesType == Handles \subseteq Nat \ {0} /\ IsFiniteSet(Handles)
<1> DEFINE n == Cardinality(Contexts) * Asked
<1>1. n \in Nat /\ Handles = 1 .. n
  BY SizeAssumption, FS_CardinalityType, AskedType DEF Handles
<1> HIDE DEF n
<1>2. IsFiniteSet(1 .. n)
  BY <1>1, FS_Interval
<1> QED
  BY <1>1, <1>2

\* The running transfers can be counted.
LEMMA RunningFinite ==
  ASSUME NEW st
  PROVE  Cardinality(Running(st)) \in Nat
<1>1. Running(st) \subseteq Handles
  BY DEF Running
<1> QED
  BY <1>1, HandlesType, FS_Subset, FS_CardinalityType

-----------------------------------------------------------------------------
(* Init.                                                                   *)

LEMMA InitIInv == Init => IInv
<1> SUFFICES ASSUME Init
             PROVE  IInv
  OBVIOUS
<1>1. Running(stage) = {}
  BY DEF Init, Running, Active
<1>2. TypeOK
  BY AskedType DEF Init, TypeOK, Stages
<1>3. CounterIsRight
  BY <1>1, FS_EmptySet DEF Init, CounterIsRight
<1>4. InHand
  BY DEF Init, InHand
<1>5. Made
  BY FS_EmptySet, AskedType DEF Init, Made, InCall
<1>6. Requested
  BY <1>1 DEF Init, Requested, Underway, Upto, MadeBy
<1> QED
  BY <1>2, <1>3, <1>4, <1>5, <1>6 DEF IInv

-----------------------------------------------------------------------------
(* What perform does, on either thread.                                    *)

LEMMA PerformKeeps ==
  ASSUME IInv, Perform
  PROVE  /\ stage' \in [Handles -> Stages] /\ num' \in Nat
         /\ sent' \subseteq Requests
         /\ num' = Cardinality(Running(stage'))
         /\ \A h \in Handles : /\ stage'[h] = "out" <=> stage[h] = "out"
                               /\ stage'[h] = "read" <=> stage[h] = "read"
         /\ \A h \in Running(stage') : data'[h] \in Requests
         /\ \A g, h \in Running(stage') : data'[g] = data'[h] => g = h
         /\ \A h \in Running(stage') :
              data'[h] \in sent' <=> stage'[h] \in {"waiting", "answered"}
         /\ \A c : Underway(c)' = Underway(c)
<1>1. /\ stage \in [Handles -> Stages] /\ data' = data
      /\ sent \subseteq Requests
      /\ stage' = [h \in Handles |-> Performed(stage[h])]
  BY DEF IInv, TypeOK, Perform
<1>2. \A h \in Handles :
        /\ stage'[h] \in Stages
        /\ stage'[h] = "out" <=> stage[h] = "out"
        /\ stage'[h] = "read" <=> stage[h] = "read"
        /\ stage'[h] \in Active => stage[h] \in Active /\ stage'[h] # "answered"
        /\ stage[h] \in Active => (stage'[h] \notin Active <=> stage[h] = "answered")
        /\ stage'[h] = "waiting" <=> stage[h] \in {"connected", "waiting"}
  BY <1>1 DEF Performed, Stages, Active
<1>3. /\ \A h \in Running(stage') :
           h \in Running(stage) /\ h \in Handles /\ stage'[h] # "answered"
      /\ \A h \in Running(stage) :
           h \in Handles /\ (h \in Running(stage') \/ stage[h] = "answered")
  BY <1>1, <1>2 DEF Running
<1> DEFINE conn == {g \in Handles : stage[g] = "connected"}
<1>4. /\ sent' = sent \union {data[h] : h \in conn}
      /\ conn \subseteq Running(stage)
  BY DEF Perform, Running, Active
<1>5. sent' \subseteq Requests
  BY <1>1, <1>4 DEF IInv, Requested
<1>6. num' = Cardinality(Running(stage')) /\ num' \in Nat
  BY RunningFinite DEF Perform
<1>7. ASSUME NEW h \in Running(stage')
      PROVE  data[h] \in sent' <=> stage'[h] \in {"waiting", "answered"}
  <2>1. data[h] \in sent <=> stage[h] \in {"waiting", "answered"}
    BY <1>3, <1>7 DEF IInv, Requested
  <2>2. data[h] \in sent' <=> data[h] \in sent \/ h \in conn
    BY <1>3, <1>4, <1>7 DEF IInv, Requested
  <2>3. /\ h \in Handles /\ stage'[h] # "answered" /\ stage[h] # "answered"
        /\ h \in conn <=> stage[h] = "connected"
    BY <1>2, <1>3, <1>7 DEF Running
  <2> QED
    BY <2>1, <2>2, <2>3, <1>2
<1>8. ASSUME NEW c
      PROVE  Underway(c)' = Underway(c)
  <2>1. ASSUME NEW r \in Underway(c)
        PROVE  r \in Underway(c)'
    <3>1. CASE r \in sent /\ r.context = c
      BY <3>1, <1>4 DEF Underway
    <3>2. ASSUME NEW h \in Running(stage), data[h].context = c, r = data[h]
          PROVE  r \in Underway(c)'
      <4>1. CASE h \in Running(stage')
        BY <3>2, <4>1, <1>1 DEF Underway
      <4>2. CASE stage[h] = "answered"
        <5>1. r \in sent
          BY <3>2, <4>2 DEF IInv, Requested
        <5> QED
          BY <3>2, <5>1, <1>4 DEF Underway
      <4> QED
        BY <3>2, <4>1, <4>2, <1>3
    <3> QED
      BY <2>1, <3>1, <3>2 DEF Underway
  <2>2. ASSUME NEW r \in Underway(c)'
        PROVE  r \in Underway(c)
    BY <2>2, <1>1, <1>3, <1>4 DEF Underway
  <2> QED
    BY <2>1, <2>2
<1> QED
  BY <1>1, <1>2, <1>3, <1>5, <1>6, <1>7, <1>8 DEF IInv, Requested

\* Steps that leave what has been asked for alone.
LEMMA RequestedKept ==
  ASSUME IInv, Running(stage)' = Running(stage), UNCHANGED <<data, sent>>,
         \A h \in Running(stage) : stage'[h] \in {"waiting", "answered"}
                                     <=> stage[h] \in {"waiting", "answered"},
         \A c \in Contexts : MadeBy(c)' = MadeBy(c)
  PROVE  Requested'
<1>1. \A c : Underway(c)' = Underway(c)
  BY DEF Underway
<1>2. \A c \in Contexts : Upto(c, MadeBy(c))' = Upto(c, MadeBy(c))
  BY DEF Upto
<1> QED
  BY <1>1, <1>2 DEF IInv, Requested

-----------------------------------------------------------------------------
(* make_api_requests.                                                      *)

LEMMA CallStep ==
  ASSUME IInv, NEW c \in Contexts, Call(c)
  PROVE  IInv'
<1>1. TypeOK'
  BY AskedType DEF IInv, TypeOK, Call, multiVars
<1>2. CounterIsRight'
  BY DEF IInv, CounterIsRight, Call, multiVars, Running
<1>3. InHand'
  BY DEF IInv, InHand, Call, multiVars
<1>4. Made'
  <2>1. /\ called' = called \union {c} /\ c \notin called
        /\ IsFiniteSet(called) /\ Cardinality(called) \in Nat
    BY FS_CardinalityType DEF Call, IInv, Made
  <2>2. IsFiniteSet(called') /\ Cardinality(called') = Cardinality(called) + 1
    BY <2>1, FS_AddElement
  <2>3. /\ ~ InCall /\ InCall' /\ made' = made /\ made \in Nat
        /\ made <= (Cardinality(called) - 0) * Asked
    BY DEF Call, InCall, multiVars, IInv, Made
  <2>4. (Cardinality(called') - 1) = Cardinality(called)
    BY <2>1, <2>2
  <2>5. made' <= (Cardinality(called)' - (IF InCall' THEN 1 ELSE 0)) * Asked
    BY <2>1, <2>3, <2>4
  <2>6. Len(handles') = 0 /\ i' = 0 /\ main' = "read" /\ cur' \in called'
        /\ stage' = stage
    BY DEF Call, multiVars
  <2>7. \A h \in Handles : h > made => stage[h] = "out"
    BY DEF IInv, Made
  <2>8. Asked' = Asked /\ Handles' = Handles
    BY DEF Asked, Handles
  <2> QED
    BY <2>2, <2>3, <2>5, <2>6, <2>7, <2>8 DEF Made
<1>5. Requested'
  <2>1. \A d \in Contexts : MadeBy(d)' = MadeBy(d)
    BY DEF Call, MadeBy
  <2> QED
    BY <2>1, RequestedKept DEF Call, multiVars, Running
<1> QED
  BY <1>1, <1>2, <1>3, <1>4, <1>5 DEF IInv

LEMMA InfoReadStep ==
  ASSUME IInv, InfoRead
  PROVE  IInv'
<1> DEFINE over == {h \in Handles : stage[h] = "over"}
<1>1. /\ main = "read" /\ UNCHANGED <<cur, called, i, idx, made, data, listed, num, io, sent>>
      /\ \/ main' = "build" /\ left' = 0 /\ UNCHANGED <<handles, stage>>
         \/ \E h \in over :
              /\ main' = "remove" /\ left' = Cardinality(over) - 1
              /\ handles' = Append(handles, h)
              /\ stage' = [stage EXCEPT ![h] = "read"]
  BY DEF InfoRead
<1>2. CASE main' = "build" /\ left' = 0 /\ UNCHANGED <<handles, stage>>
  <2>1. TypeOK'
    BY <1>1, <1>2 DEF IInv, TypeOK
  <2>2. CounterIsRight'
    BY <1>1, <1>2 DEF IInv, CounterIsRight, Running
  <2>3. InHand'
    BY <1>1, <1>2 DEF IInv, InHand
  <2>4. Made'
    BY <1>1, <1>2 DEF IInv, Made, InCall
  <2>5. Requested'
    <3>1. \A d \in Contexts : MadeBy(d)' = MadeBy(d)
      BY <1>1, <1>2 DEF MadeBy
    <3> QED
      BY <1>1, <1>2, <3>1, RequestedKept DEF Running
  <2> QED
    BY <2>1, <2>2, <2>3, <2>4, <2>5 DEF IInv
<1>3. ASSUME NEW h \in over, main' = "remove", left' = Cardinality(over) - 1,
             handles' = Append(handles, h), stage' = [stage EXCEPT ![h] = "read"]
      PROVE  IInv'
  <2>1. /\ h \in Handles /\ stage[h] = "over" /\ stage \in [Handles -> Stages]
        /\ handles \in Seq(Handles)
    BY DEF IInv, TypeOK
  <2>2. Running(stage)' = Running(stage)
    BY <1>3, <2>1 DEF Running, Active
  <2>3. left' \in Nat
    <3>1. IsFiniteSet(over)
      BY HandlesType, FS_Subset
    <3>2. Cardinality(over) \in Nat /\ Cardinality(over) # 0
      BY <3>1, <2>1, FS_CardinalityType, FS_EmptySet
    <3> QED
      BY <1>3, <3>2
  <2>4. TypeOK'
    BY <1>1, <1>3, <2>1, <2>3 DEF IInv, TypeOK, Stages
  <2>5. CounterIsRight'
    BY <1>1, <1>3, <2>2 DEF IInv, CounterIsRight
  <2>6. /\ Len(handles') = Len(handles) + 1 /\ handles'[Len(handles')] = h
        /\ \A k \in 1 .. Len(handles) : handles'[k] = handles[k] /\ handles[k] \in Handles
        /\ Len(handles) \in Nat
    BY <1>3, <2>1
  <2>7. \A k \in 1 .. Len(handles) : stage[handles[k]] = "out" /\ handles[k] # h
    BY <1>1, <2>1 DEF IInv, InHand
  <2>8. InHand'
    <3>1. \A k, l \in 1 .. Len(handles') : k # l => handles'[k] # handles'[l]
      BY <1>1, <2>6, <2>7 DEF IInv, InHand
    <3>2. stage'[h] = "read" /\ \A k \in 1 .. Len(handles) : stage'[handles[k]] = "out"
      BY <1>3, <2>1, <2>6, <2>7
    <3> QED
      BY <1>3, <2>6, <3>1, <3>2 DEF InHand, LastRead
  <2>9. Made'
    <3>1. h <= made
      BY <2>1, HandlesType DEF IInv, Made
    <3>2. \A g \in Handles : g > made => stage'[g] = "out"
      BY <1>3, <2>1, <3>1, HandlesType DEF IInv, Made
    <3>3. \A k \in 1 .. Len(handles') : handles'[k] <= made
      BY <2>6, <3>1 DEF IInv, Made
    <3> QED
      BY <1>1, <1>3, <3>2, <3>3 DEF IInv, Made, InCall
  <2>10. Requested'
    <3>1. \A d \in Contexts : MadeBy(d)' = MadeBy(d)
      BY <1>1, <1>3 DEF MadeBy
    <3>2. \A g \in Running(stage) : stage'[g] = stage[g]
      BY <1>3, <2>1 DEF Running, Active
    <3> QED
      BY <1>1, <3>1, <3>2, <2>2, RequestedKept
  <2> QED
    BY <2>4, <2>5, <2>8, <2>9, <2>10 DEF IInv
<1> QED
  BY <1>1, <1>2, <1>3

LEMMA RemoveHandleStep ==
  ASSUME IInv, RemoveHandle
  PROVE  IInv'
<1> DEFINE h == LastRead
<1>1. /\ main = "remove" /\ main' \in {"read", "build"}
      /\ stage' = [stage EXCEPT ![h] = "out"] /\ listed' = listed \ {h}
      /\ UNCHANGED <<cur, called, left, handles, i, idx, made, data, num, io, sent>>
  BY DEF RemoveHandle, TakenOut
<1>2. /\ stage \in [Handles -> Stages] /\ handles \in Seq(Handles)
      /\ Len(handles) \in Nat /\ Len(handles) > 0 /\ stage[h] = "read"
      /\ h = handles[Len(handles)] /\ h \in Handles
  BY <1>1 DEF IInv, TypeOK, InHand, LastRead
<1> HIDE DEF h
<1>3. Running(stage)' = Running(stage) /\ \A g \in Running(stage) : stage'[g] = stage[g]
  BY <1>1, <1>2 DEF Running, Active
<1>4. TypeOK'
  BY <1>1, <1>2 DEF IInv, TypeOK, Stages
<1>5. CounterIsRight'
  BY <1>1, <1>3 DEF IInv, CounterIsRight
<1>6. InHand'
  <2>1. \A k \in 1 .. Len(handles) : stage'[handles[k]] = "out"
    BY <1>1, <1>2 DEF IInv, InHand
  <2> QED
    BY <1>1, <2>1 DEF IInv, InHand
<1>7. Made'
  BY <1>1, <1>2 DEF IInv, Made, InCall
<1>8. Requested'
  <2>1. \A d \in Contexts : MadeBy(d)' = MadeBy(d)
    BY <1>1 DEF MadeBy
  <2> QED
    BY <1>1, <1>3, <2>1, RequestedKept
<1> QED
  BY <1>4, <1>5, <1>6, <1>7, <1>8 DEF IInv

LEMMA BuildStep ==
  ASSUME IInv, Build
  PROVE  IInv'
<1> DEFINE m == Missing
           new == [k \in 1 .. m |-> made + k]
<1>1. /\ main = "build" /\ main' = "add" /\ made' = made + m
      /\ handles' = handles \o new /\ idx' = SecondIndex
      /\ UNCHANGED <<cur, called, left, i, stage, data, listed, num, io, sent>>
  BY DEF Build
<1>2. /\ handles \in Seq(Handles) /\ Len(handles) \in Nat /\ made \in Nat
      /\ called \subseteq Contexts /\ i = 0 /\ cur \in called
  BY <1>1 DEF IInv, TypeOK, Made, InCall
<1>3. m \in Nat /\ m <= Asked /\ Len(handles) + m >= Asked
  BY <1>2, AskedType DEF Missing
<1> HIDE DEF m
<1>4. made' \in Nat /\ made' <= Cardinality(called) * Asked
  <2>1. Cardinality(called) \in Nat
    BY FS_CardinalityType DEF IInv, Made
  <2>2. made <= (Cardinality(called) - 1) * Asked
    BY <1>1 DEF IInv, Made, InCall
  <2>3. (Cardinality(called) - 1) * Asked + Asked = Cardinality(called) * Asked
        /\ (Cardinality(called) - 1) * Asked \in Int
        /\ Cardinality(called) * Asked \in Int
    BY <2>1, AskedType
  <2> QED
    BY <1>1, <1>2, <1>3, <2>2, <2>3, AskedType
<1>5. \A k \in 1 .. m : made + k \in Handles /\ made + k <= made' /\ made + k > made
  <2>1. made' <= Cardinality(Contexts) * Asked
    BY <1>2, <1>4, HandlesSuffice
  <2>2. Cardinality(Contexts) * Asked \in Nat
    BY SizeAssumption, FS_CardinalityType, AskedType
  <2> QED
    BY <1>1, <1>2, <1>3, <2>1, <2>2 DEF Handles
<1>6. /\ new \in Seq(Handles) /\ Len(new) = m
  BY <1>3, <1>5
<1>7. /\ handles' \in Seq(Handles) /\ Len(handles') = Len(handles) + m
      /\ \A k \in 1 .. Len(handles') :
           /\ k <= Len(handles) => handles'[k] = handles[k] /\ handles[k] \in Handles
           /\ k > Len(handles) => /\ handles'[k] = made + (k - Len(handles))
                                  /\ k - Len(handles) \in 1 .. m
  BY <1>1, <1>2, <1>3, <1>6
<1> HIDE DEF new
<1>8. TypeOK'
  <2>1. idx' \in Int
    BY <1>1, IndicesApart, AskedType DEF SecondIndex, Garbage, StartIndices
  <2> QED
    BY <1>1, <1>4, <1>7, <2>1 DEF IInv, TypeOK
<1>9. CounterIsRight'
  BY <1>1 DEF IInv, CounterIsRight, Running
<1>10. InHand'
  <2>1. \A k \in 1 .. Len(handles') : stage'[handles'[k]] = "out"
    <3>1. SUFFICES ASSUME NEW k \in 1 .. Len(handles')
                   PROVE  stage[handles'[k]] = "out"
      BY <1>1
    <3>2. CASE k <= Len(handles)
      BY <1>1, <1>2, <1>7, <3>2 DEF IInv, InHand
    <3>3. CASE k > Len(handles)
      BY <1>2, <1>5, <1>7, <3>3 DEF IInv, Made
    <3> QED
      BY <1>2, <1>7, <1>3, <3>2, <3>3
  <2>2. \A k \in 1 .. Len(handles) : handles[k] <= made /\ handles[k] \in Nat
    <3>1. \A k \in 1 .. Len(handles) : handles[k] \in Handles
      BY <1>2
    <3> QED
      BY <3>1, HandlesType DEF IInv, Made
  <2>3. \A k, l \in 1 .. Len(handles) : k # l => handles[k] # handles[l]
    BY <1>1 DEF IInv, InHand
  <2>4. ASSUME NEW k \in 1 .. Len(handles'), NEW l \in 1 .. Len(handles'), k < l
        PROVE  handles'[k] # handles'[l]
    <3>1. CASE l <= Len(handles)
      <4>1. k \in 1 .. Len(handles) /\ l \in 1 .. Len(handles) /\ k # l
        BY <1>2, <1>3, <1>7, <2>4, <3>1
      <4> QED
        BY <4>1, <2>3, <1>7, <2>4, <3>1
    <3>2. CASE k <= Len(handles) /\ l > Len(handles)
      <4>1. handles'[k] <= made /\ handles'[k] \in Nat
        <5>1. k \in 1 .. Len(handles)
          BY <1>2, <3>2
        <5> QED
          BY <5>1, <1>7, <2>2
      <4>2. handles'[l] > made
        BY <1>2, <1>5, <1>7, <3>2
      <4> QED
        BY <1>2, <4>1, <4>2
    <3>3. CASE k > Len(handles)
      BY <1>2, <1>3, <1>7, <2>4, <3>3
    <3> QED
      BY <1>2, <1>3, <1>7, <2>4, <3>1, <3>2, <3>3
  <2>5. \A k, l \in 1 .. Len(handles') : k # l => handles'[k] # handles'[l]
    BY <1>2, <1>3, <1>7, <2>4
  <2>6. main' = "add" /\ \A k \in i' + 1 .. Len(handles') : k \in 1 .. Len(handles')
    BY <1>1, <1>2, <1>3, <1>7
  <2> QED
    BY <2>1, <2>5, <2>6 DEF InHand
<1>11. Made'
  <2>1. \A h \in Handles : h > made' => stage'[h] = "out"
    BY <1>1, <1>2, <1>3, HandlesType DEF IInv, Made
  <2>2. \A k \in 1 .. Len(handles') : handles'[k] <= made'
    <3>1. SUFFICES ASSUME NEW k \in 1 .. Len(handles')
                   PROVE  handles'[k] <= made'
      OBVIOUS
    <3>2. CASE k <= Len(handles)
      <4>1. handles[k] <= made /\ handles[k] \in Nat
        <5>1. k \in 1 .. Len(handles) /\ handles[k] \in Handles
          BY <1>2, <1>7, <3>2
        <5> QED
          BY <5>1, HandlesType DEF IInv, Made
      <4> QED
        BY <1>1, <1>2, <1>3, <1>7, <3>2, <4>1
    <3>3. CASE k > Len(handles)
      BY <1>5, <1>7, <3>3
    <3> QED
      BY <1>2, <1>3, <1>7, <3>2, <3>3
  <2>3. (Cardinality(called) - 0) * Asked = Cardinality(called) * Asked
    BY FS_CardinalityType DEF IInv, Made
  <2> QED
    BY <1>1, <1>2, <1>3, <1>4, <1>7, <2>1, <2>2, <2>3, AskedType DEF IInv, Made, InCall
<1>12. Requested'
  <2>1. \A d \in Contexts : MadeBy(d)' = MadeBy(d)
    BY <1>1 DEF MadeBy
  <2> QED
    BY <1>1, <2>1, RequestedKept DEF Running
<1> QED
  BY <1>8, <1>9, <1>10, <1>11, <1>12 DEF IInv

LEMMA AddHandleStep ==
  ASSUME IInv, AddHandle
  PROVE  IInv'
<1> DEFINE h == handles[i + 1]
           r == Request(cur, StartIndices[i + 1])
<1>1. /\ main = "add" /\ main' = "perform" /\ idx' = StartIndices[i + 1]
      /\ data' = [data EXCEPT ![h] = r] /\ stage' = [stage EXCEPT ![h] = "added"]
      /\ listed' = listed \union {h}
      /\ UNCHANGED <<cur, called, left, handles, i, made, num, io, sent>>
  BY DEF AddHandle, NextIndex
<1>2. /\ handles \in Seq(Handles) /\ Len(handles) \in Nat /\ i \in Nat
      /\ i < Asked /\ Asked \in Nat /\ Len(handles) >= Asked /\ cur \in called
      /\ cur \in Contexts /\ stage \in [Handles -> Stages]
      /\ data \in [Handles -> Requests \union {NoRequest}] /\ sent \subseteq Requests
  BY <1>1, AskedType DEF IInv, TypeOK, Made
<1>3. i + 1 \in 1 .. Asked /\ i + 1 \in 1 .. Len(handles)
  BY <1>2
<1>4. h \in Handles /\ stage[h] = "out"
  <2>1. i + 1 \in i + 1 .. Len(handles)
    BY <1>2
  <2> QED
    BY <1>1, <1>2, <1>3, <2>1 DEF IInv, InHand
<1>5. StartIndices[i + 1] \in Nat
  BY <1>3, IndicesApart
<1>6. r \in Requests /\ r.context = cur
  BY <1>2, <1>5 DEF Request, Requests
<1>7. TypeOK'
  BY <1>1, <1>2, <1>4, <1>5, <1>6 DEF IInv, TypeOK, Stages, Active
<1>8. CounterIsRight'
  BY <1>1 DEF CounterIsRight
<1>9. InHand'
  <2>1. \A k \in i + 2 .. Len(handles) :
          k \in 1 .. Len(handles) /\ k \in i + 1 .. Len(handles) /\ k # i + 1
    BY <1>2
  <2>2. \A k \in i + 2 .. Len(handles) : handles[k] # h /\ stage[handles[k]] = "out"
    BY <1>1, <1>3, <2>1 DEF IInv, InHand
  <2>3. \A k \in i' + 2 .. Len(handles') : stage'[handles'[k]] = "out"
    <3>1. \A k \in i + 2 .. Len(handles) : handles[k] \in Handles
      BY <1>2, <2>1
    <3> QED
      BY <1>1, <1>2, <2>2, <3>1
  <2> QED
    BY <1>1, <2>3 DEF IInv, InHand
<1>10. Made'
  <2>1. h <= made
    BY <1>3 DEF IInv, Made
  <2>2. \A g \in Handles : g > made => stage'[g] = "out"
    <3>1. \A g \in Handles : g > made => g # h
      BY <1>4, <2>1, HandlesType DEF IInv, Made
    <3> QED
      BY <1>1, <1>2, <3>1 DEF IInv, Made
  <2> QED
    BY <1>1, <2>2 DEF IInv, Made, InCall
<1> HIDE DEF h
<1>11. Running(stage)' = Running(stage) \union {h} /\ h \notin Running(stage)
  BY <1>1, <1>2, <1>4 DEF Running, Active
<1>12. MadeBy(cur) = i /\ MadeBy(cur)' = i + 1
       /\ \A c \in Contexts \ {cur} : MadeBy(c)' = MadeBy(c)
  BY <1>1, <1>2 DEF MadeBy
<1>13. Underway(cur) = Upto(cur, i)
  BY <1>2, <1>12 DEF IInv, Requested
<1>14. r \notin Underway(cur)
  <2>1. SUFFICES ASSUME NEW k \in 1 .. i, r = Request(cur, StartIndices[k])
                 PROVE  FALSE
    BY <1>13 DEF Upto
  <2>2. StartIndices[k] = StartIndices[i + 1] /\ k \in 1 .. Asked /\ k # i + 1
    BY <1>2, <2>1 DEF Request
  <2> QED
    BY <1>3, <2>2, IndicesApart
<1>15. r \notin sent /\ \A g \in Running(stage) : data[g] # r
  BY <1>6, <1>14 DEF Underway
<1> HIDE DEF r
<1>16. /\ \A g \in Running(stage) : data'[g] = data[g] /\ stage'[g] = stage[g]
       /\ data'[h] = r /\ stage'[h] = "added" /\ sent' = sent
  BY <1>1, <1>2, <1>4, <1>11 DEF Running
<1>17. \A c : Underway(c)' = Underway(c) \union (IF c = cur THEN {r} ELSE {})
  BY <1>6, <1>11, <1>16 DEF Underway
<1>18. Upto(cur, i + 1) = Upto(cur, i) \union {r}
  <2>1. 1 .. i + 1 = (1 .. i) \union {i + 1}
    BY <1>2
  <2> QED
    BY <2>1 DEF Upto, r
<1>19. Requested'
  <2>1. \A g \in Running(stage)' : data'[g] \in Requests
    BY <1>6, <1>11, <1>16 DEF IInv, Requested
  <2>2. \A f, g \in Running(stage)' : data'[f] = data'[g] => f = g
    BY <1>11, <1>15, <1>16 DEF IInv, Requested
  <2>3. \A g \in Running(stage)' :
          data'[g] \in sent' <=> stage'[g] \in {"waiting", "answered"}
    BY <1>11, <1>15, <1>16 DEF IInv, Requested
  <2>4. ASSUME NEW c \in Contexts
        PROVE  Underway(c)' = Upto(c, MadeBy(c))'
    <3>1. Upto(c, MadeBy(c))' = Upto(c, MadeBy(c)')
      BY <1>1 DEF Upto
    <3>2. CASE c = cur
      <4>1. MadeBy(c) = i /\ MadeBy(c)' = i + 1
        BY <1>1, <1>2, <3>2 DEF MadeBy
      <4>2. Underway(c) = Upto(c, i)
        BY <4>1 DEF IInv, Requested
      <4>3. Upto(c, i + 1) = Upto(c, i) \union {r}
        BY <1>18, <3>2
      <4>4. Underway(c)' = Underway(c) \union {r}
        BY <1>17, <3>2
      <4> QED
        BY <3>1, <4>1, <4>2, <4>3, <4>4
    <3>3. CASE c # cur
      BY <3>1, <3>3, <1>12, <1>17 DEF IInv, Requested
    <3> QED
      BY <3>2, <3>3
  <2> QED
    BY <2>1, <2>2, <2>3, <2>4 DEF Requested
<1> QED
  BY <1>7, <1>8, <1>9, <1>10, <1>19 DEF IInv

LEMMA MainPerformsStep ==
  ASSUME IInv, MainPerforms
  PROVE  IInv'
<1>1. /\ main = "perform" /\ Perform /\ i' = i + 1
      /\ main' = IF i + 1 < Asked THEN "add" ELSE "idle"
      /\ UNCHANGED <<cur, called, left, handles, idx, io, made, data, listed>>
  BY DEF MainPerforms, PerformFirst, Perform
<1>2. /\ i \in Nat /\ i < Asked /\ Asked \in Nat /\ cur \in called
      /\ handles \in Seq(Handles) /\ Len(handles) \in Nat
  BY <1>1, AskedType DEF IInv, TypeOK, Made
<1>3. TypeOK'
  BY <1>1, <1>2, PerformKeeps DEF IInv, TypeOK
<1>4. CounterIsRight'
  BY <1>1, PerformKeeps DEF CounterIsRight
<1>5. InHand'
  <2>1. \A k \in i + 2 .. Len(handles) : handles[k] \in Handles /\ stage[handles[k]] = "out"
    BY <1>1, <1>2 DEF IInv, InHand
  <2>2. \A k \in i' + 1 .. Len(handles') : k \in i + 2 .. Len(handles)
    BY <1>1, <1>2
  <2>3. \A k \in i' + 1 .. Len(handles') : stage'[handles'[k]] = "out"
    BY <1>1, <2>1, <2>2, PerformKeeps
  <2> QED
    BY <1>1, <2>3 DEF IInv, InHand
<1>6. Made'
  BY <1>1, <1>2, PerformKeeps DEF IInv, Made, InCall
<1>7. \A c \in Contexts : MadeBy(c)' = MadeBy(c)
  BY <1>1, <1>2 DEF MadeBy
<1>8. Requested'
  BY <1>1, <1>7, PerformKeeps DEF IInv, Requested, Upto
<1> QED
  BY <1>3, <1>4, <1>5, <1>6, <1>8 DEF IInv

-----------------------------------------------------------------------------
(* The IO thread and the network.                                          *)

LEMMA IoPerformsStep ==
  ASSUME IInv, IoPerforms
  PROVE  IInv'
<1>1. /\ Perform /\ io' = "loop"
      /\ UNCHANGED <<main, cur, called, left, handles, i, idx, made, data, listed>>
  BY DEF IoPerforms, mainVars, Perform
<1>2. handles \in Seq(Handles) /\ Len(handles) \in Nat /\ i \in Nat
  BY DEF IInv, TypeOK
<1>3. TypeOK'
  BY <1>1, PerformKeeps DEF IInv, TypeOK
<1>4. CounterIsRight'
  BY <1>1, PerformKeeps DEF CounterIsRight
<1>5. InHand'
  <2>1. \A k \in 1 .. Len(handles) :
          /\ stage'[handles[k]] = "out" <=> stage[handles[k]] = "out"
          /\ stage'[handles[k]] = "read" <=> stage[handles[k]] = "read"
    BY <1>1, <1>2, PerformKeeps
  <2>2. /\ \A k \in i + 1 .. Len(handles) : k \in 1 .. Len(handles)
        /\ \A k \in i + 2 .. Len(handles) : k \in 1 .. Len(handles)
        /\ \A k \in 1 .. Len(handles) - 1 : k \in 1 .. Len(handles)
        /\ Len(handles) > 0 => Len(handles) \in 1 .. Len(handles)
    BY <1>2
  <2> QED
    BY <1>1, <2>1, <2>2 DEF IInv, InHand, LastRead
<1>6. Made'
  BY <1>1, PerformKeeps DEF IInv, Made, InCall
<1>7. \A c \in Contexts : MadeBy(c)' = MadeBy(c)
  BY <1>1 DEF MadeBy
<1>8. Requested'
  BY <1>1, <1>7, PerformKeeps DEF IInv, Requested, Upto
<1> QED
  BY <1>3, <1>4, <1>5, <1>6, <1>8 DEF IInv

LEMMA NetworkStep ==
  ASSUME IInv, NEW h \in Handles, Network(h)
  PROVE  IInv'
<1>1. /\ UNCHANGED <<mainVars, made, data, listed, num, io, sent>>
      /\ \/ stage[h] = "connecting" /\ stage' = [stage EXCEPT ![h] = "connected"]
         \/ stage[h] = "waiting" /\ stage' = [stage EXCEPT ![h] = "answered"]
  BY DEF Network
<1>2. /\ stage \in [Handles -> Stages] /\ handles \in Seq(Handles)
      /\ Len(handles) \in Nat /\ i \in Nat
  BY DEF IInv, TypeOK
<1>3. \A g \in Handles : /\ stage'[g] = "out" <=> stage[g] = "out"
                         /\ stage'[g] = "read" <=> stage[g] = "read"
                         /\ stage'[g] \in Active <=> stage[g] \in Active
                         /\ stage'[g] \in {"waiting", "answered"}
                              <=> stage[g] \in {"waiting", "answered"}
                         /\ stage'[g] \in Stages
  BY <1>1, <1>2 DEF Active, Stages
<1>4. stage' \in [Handles -> Stages]
  BY <1>1, <1>2 DEF Active, Stages
<1>5. Running(stage)' = Running(stage)
  BY <1>3 DEF Running
<1>6. TypeOK'
  BY <1>1, <1>4 DEF IInv, TypeOK, mainVars
<1>7. CounterIsRight'
  BY <1>1, <1>5 DEF IInv, CounterIsRight, mainVars
<1>8. InHand'
  <2>1. \A k \in 1 .. Len(handles) :
          /\ stage'[handles[k]] = "out" <=> stage[handles[k]] = "out"
          /\ stage'[handles[k]] = "read" <=> stage[handles[k]] = "read"
    BY <1>2, <1>3
  <2>2. /\ \A k \in i + 1 .. Len(handles) : k \in 1 .. Len(handles)
        /\ \A k \in i + 2 .. Len(handles) : k \in 1 .. Len(handles)
        /\ \A k \in 1 .. Len(handles) - 1 : k \in 1 .. Len(handles)
        /\ Len(handles) > 0 => Len(handles) \in 1 .. Len(handles)
    BY <1>2
  <2> QED
    BY <1>1, <2>1, <2>2 DEF IInv, InHand, LastRead, mainVars
<1>9. Made'
  BY <1>1, <1>3 DEF IInv, Made, InCall, mainVars
<1>10. Requested'
  <2>1. \A c \in Contexts : MadeBy(c)' = MadeBy(c)
    BY <1>1 DEF MadeBy, mainVars
  <2>2. \A g \in Running(stage) : g \in Handles
    BY DEF Running
  <2> QED
    BY <1>1, <1>3, <1>5, <2>1, <2>2, RequestedKept
<1> QED
  BY <1>6, <1>7, <1>8, <1>9, <1>10 DEF IInv

LEMMA QuietStep ==
  ASSUME IInv, UNCHANGED <<mainVars, multiVars, sent>>, io' \in {"loop", "perform"}
  PROVE  IInv'
<1>1. TypeOK' /\ CounterIsRight' /\ InHand' /\ Made'
  BY DEF IInv, TypeOK, CounterIsRight, InHand, Made, InCall, LastRead, mainVars,
         multiVars, Running
<1>2. Requested'
  <2>1. \A c \in Contexts : MadeBy(c)' = MadeBy(c)
    BY DEF MadeBy, mainVars
  <2> QED
    BY <2>1, RequestedKept DEF mainVars, multiVars, Running
<1> QED
  BY <1>1, <1>2 DEF IInv

LEMMA NextIInv == IInv /\ [Next]_vars => IInv'
<1> SUFFICES ASSUME IInv, [Next]_vars
             PROVE  IInv'
  OBVIOUS
<1>1. ASSUME NEW c \in Contexts, Call(c)
      PROVE  IInv'
  BY <1>1, CallStep
<1>2. CASE MakeApiRequests
  BY <1>2, InfoReadStep, RemoveHandleStep, BuildStep, AddHandleStep,
     MainPerformsStep DEF MakeApiRequests
<1>3. CASE IoLooks
  BY <1>3, QuietStep DEF IoLooks
<1>4. CASE IoPerforms
  BY <1>4, IoPerformsStep
<1>5. ASSUME NEW h \in Handles, Network(h)
      PROVE  IInv'
  BY <1>5, NetworkStep
<1>6. CASE UNCHANGED vars
  BY <1>6, QuietStep DEF vars, IInv, TypeOK
<1> QED
  BY <1>1, <1>2, <1>3, <1>4, <1>5, <1>6 DEF Next

LEMMA Inductive == Spec => []IInv
BY InitIInv, NextIInv, PTL DEF Spec

-----------------------------------------------------------------------------
(* The theorems.                                                           *)

\* Every variable keeps its type.
THEOREM TypeCorrect == Spec => []TypeOK
<1>1. IInv => TypeOK
  BY DEF IInv
<1> QED
  BY <1>1, Inductive, PTL

\* The number that the IO thread reads without the mutex is that of the running
\* transfers, but for the one that is being added (controller-io.cpp:216-221).
THEOREM CounterCorrect == Spec => []CounterIsRight
<1>1. IInv => CounterIsRight
  BY DEF IInv
<1> QED
  BY <1>1, Inductive, PTL

\* A handle is set up only while nobody else has it (controller-app.cpp:326-350).
THEOREM HandlesCarryOne == Spec => CarriesOne
<1> DEFINE Kept == \A h \in Handles : data'[h] # data[h] => stage[h] = "out"
<1>1. IInv /\ [Next]_vars => [Kept]_vars
  <2> SUFFICES ASSUME IInv, Next
               PROVE  Kept
    BY DEF vars
  <2>1. CASE AddHandle
    <3>1. /\ data' = [data EXCEPT ![handles[i + 1]] = Request(cur, NextIndex)]
          /\ main = "add" /\ data \in [Handles -> Requests \union {NoRequest}]
      BY <2>1 DEF AddHandle, IInv, TypeOK
    <3>2. i + 1 \in i + 1 .. Len(handles)
      BY <3>1, AskedType DEF IInv, TypeOK, Made
    <3>3. stage[handles[i + 1]] = "out"
      BY <3>1, <3>2 DEF IInv, InHand
    <3> QED
      BY <3>1, <3>3
  <2>2. CASE ~ AddHandle
    <3>1. data' = data
      BY <2>2 DEF Next, Call, MakeApiRequests, InfoRead, RemoveHandle, Build,
                  MainPerforms, PerformFirst, Perform, IoLooks, IoPerforms,
                  Network, multiVars
    <3> QED
      BY <3>1
  <2> QED
    BY <2>1, <2>2
<1> QED
  BY <1>1, Inductive, PTL DEF Spec, CarriesOne

\* Each other context is asked for once, from where populate_indices has it
\* (controller-app.cpp:205-236, 328-350).
THEOREM EachAskedOnce == Spec => []EachIndexOnce
<1>1. IInv => EachIndexOnce
  <2> SUFFICES ASSUME IInv
               PROVE  EachIndexOnce
    OBVIOUS
  <2>1. ASSUME NEW c \in Contexts
        PROVE  /\ Underway(c) \subseteq ToMake(c)
               /\ c \in called /\ (c # cur \/ main = "idle") =>
                    Underway(c) = ToMake(c)
    <3>1. Underway(c) = Upto(c, MadeBy(c))
      BY DEF IInv, Requested
    <3>2. MadeBy(c) \in 0 .. Asked
      BY AskedType DEF MadeBy, IInv, TypeOK, Made
    <3>3. 1 .. MadeBy(c) \subseteq 1 .. Asked
      BY <3>2, AskedType
    <3>4. c \in called /\ (c # cur \/ main = "idle") => MadeBy(c) = Asked
      BY DEF MadeBy
    <3> QED
      BY <3>1, <3>3, <3>4 DEF Upto, ToMake
  <2> QED
    BY <2>1, IndicesApart DEF EachIndexOnce, IInv, Requested
<1> QED
  BY <1>1, Inductive, PTL

=============================================================================

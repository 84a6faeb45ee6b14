--------------------------- MODULE PeerMeshProofs ---------------------------
(***************************************************************************)
(* Proofs about PeerMesh, for any controllers, actions, executors that     *)
(* work, hang or fail, and faults: its types, the refinement of            *)
(* SharedResults, and its invariants.  Liveness (EndSpreads) is left to    *)
(* TLC.                                                                    *)
(***************************************************************************)
EXTENDS PeerMesh, SequenceTheorems, FiniteSetTheorems, TLAPS

-----------------------------------------------------------------------------
(* Queues of chunks.                                                       *)

LEMMA AppendRange ==
  ASSUME NEW T, NEW q \in Seq(T), NEW m \in T
  PROVE  /\ Append(q, m) \in Seq(T)
         /\ Range(Append(q, m)) = Range(q) \union {m}
<1>1. Append(q, m) \in Seq(T) /\ Len(Append(q, m)) = Len(q) + 1
  OBVIOUS
<1>2. \A i \in 1 .. Len(q) : Append(q, m)[i] = q[i]
  OBVIOUS
<1>3. Append(q, m)[Len(q) + 1] = m
  OBVIOUS
<1>4. Range(q) = {q[i] : i \in 1 .. Len(q)}
  BY DEF Range
<1>5. Range(Append(q, m)) = {Append(q, m)[i] : i \in 1 .. Len(q) + 1}
  BY <1>1, RangeEquality
<1>6. Len(q) \in Nat
  OBVIOUS
<1>7. Range(Append(q, m)) \subseteq Range(q) \union {m}
  BY <1>2, <1>3, <1>4, <1>5, <1>6
<1>8. Range(q) \union {m} \subseteq Range(Append(q, m))
  BY <1>2, <1>3, <1>4, <1>5, <1>6
<1> QED BY <1>1, <1>7, <1>8

LEMMA TailRange ==
  ASSUME NEW T, NEW q \in Seq(T), q # <<>>
  PROVE  /\ Tail(q) \in Seq(T) /\ Head(q) \in T
         /\ Head(q) \in Range(q)
         /\ Range(q) = Range(Tail(q)) \union {Head(q)}
<1>1. /\ Tail(q) \in Seq(T) /\ Head(q) \in T
      /\ Len(q) \in Nat /\ Len(q) > 0 /\ Len(Tail(q)) = Len(q) - 1
  OBVIOUS
<1>2. Head(q) = q[1]
  OBVIOUS
<1>3. \A i \in 1 .. Len(q) - 1 : Tail(q)[i] = q[i + 1]
  OBVIOUS
<1>4. Range(q) = {q[i] : i \in 1 .. Len(q)}
  BY DEF Range
<1>5. Range(Tail(q)) = {Tail(q)[i] : i \in 1 .. Len(q) - 1}
  BY <1>1, RangeEquality
<1>6. Head(q) \in Range(q)
  BY <1>1, <1>2, <1>4
<1>7. Range(Tail(q)) \subseteq Range(q)
  BY <1>1, <1>3, <1>4, <1>5
<1>8. ASSUME NEW i \in 1 .. Len(q), i # 1 PROVE q[i] \in Range(Tail(q))
  <2>1. i - 1 \in 1 .. Len(q) - 1 /\ i = (i - 1) + 1
    BY <1>1, <1>8
  <2> QED BY <2>1, <1>3, <1>5
<1> QED BY <1>1, <1>2, <1>4, <1>6, <1>7, <1>8

LEMMA EmptyRange == Range(<<>>) = {}
BY DEF Range

LEMMA RangeIn ==
  ASSUME NEW T, NEW q \in Seq(T), NEW m \in Range(q)
  PROVE  m \in T
BY RangeOfSeq

\* A chunk of this kind can only be the first.
OnlyFirst(q, kind) == q = <<>> \/ \A m \in Range(Tail(q)) : m.is # kind

LEMMA AppendOnlyFirst ==
  ASSUME NEW T, NEW q \in Seq(T), NEW m \in T, NEW kind,
         OnlyFirst(q, kind), q = <<>> \/ m.is # kind
  PROVE  OnlyFirst(Append(q, m), kind)
<1>1. CASE q = <<>>
  <2>1. Append(q, m) = <<m>> /\ Tail(<<m>>) = <<>>
    BY <1>1
  <2> QED BY <2>1, EmptyRange DEF OnlyFirst
<1>2. CASE q # <<>>
  <2>1. Tail(Append(q, m)) = Append(Tail(q), m)
    BY <1>2
  <2>2. Tail(q) \in Seq(T)
    BY <1>2, TailRange
  <2> DEFINE t == Tail(q)
  <2> HIDE DEF t
  <2>3. t \in Seq(T)
    BY <2>2 DEF t
  <2>4. Range(Append(t, m)) = Range(t) \union {m}
    BY <2>3, AppendRange
  <2>5. \A k \in Range(t) : k.is # kind
    BY <1>2 DEF OnlyFirst, t
  <2>6. \A k \in Range(Append(t, m)) : k.is # kind
    BY <1>2, <2>4, <2>5
  <2>7. Tail(Append(q, m)) = Append(t, m)
    BY <2>1 DEF t
  <2> QED BY <2>6, <2>7 DEF OnlyFirst
<1> QED BY <1>1, <1>2

LEMMA TailHasNone ==
  ASSUME NEW T, NEW q \in Seq(T), NEW kind, q # <<>>, OnlyFirst(q, kind)
  PROVE  \A m \in Range(Tail(q)) : m.is # kind
BY DEF OnlyFirst

LEMMA NoneOnlyFirst ==
  ASSUME NEW T, NEW q \in Seq(T), NEW kind, \A m \in Range(q) : m.is # kind
  PROVE  OnlyFirst(q, kind)
BY TailRange DEF OnlyFirst

-----------------------------------------------------------------------------
(* Types.                                                                  *)

LEMMA ChunkTypes ==
  ASSUME NEW P \in SUBSET Nodes, NEW R \in SUBSET Actions
  PROVE  /\ Created(P, R) \in Chunks /\ Missing \in Chunks
         /\ Result(R) \in Chunks /\ Last(R) \in Chunks
BY DEF Chunks, Created, Missing, Result, Last

LEMMA PutType ==
  ASSUME NEW P \in SUBSET Nodes
  PROVE  Put(P) \in Chunks
BY DEF Chunks, Put

LEMMA SentType ==
  ASSUME NEW q \in Seq(Chunks), NEW c, NEW s, NEW m \in Chunks
  PROVE  Sent(q, c, s, m) \in Seq(Chunks)
BY DEF Sent

\* What SendAll does to one stream.
LEMMA SendAllEffect ==
  ASSUME StreamTypes, NEW n \in Nodes, NEW m \in Chunks, SendAll(n, m)
  PROVE  /\ up' \in [Nodes -> [Nodes -> Seq(Chunks)]]
         /\ down' \in [Nodes -> [Nodes -> Seq(Chunks)]]
         /\ \A c \in Nodes, s \in Nodes :
              /\ up'[c][s] = IF c = n /\ client[c][s] = "open"
                             THEN Sent(up[c][s], c, s, m) ELSE up[c][s]
              /\ down'[c][s] = IF s = n /\ server[c][s] = "open"
                               THEN Sent(down[c][s], c, s, m) ELSE down[c][s]
<1>1. \A c \in Nodes, s \in Nodes :
        /\ Sent(up[c][s], c, s, m) \in Seq(Chunks)
        /\ Sent(down[c][s], c, s, m) \in Seq(Chunks)
  BY SentType DEF StreamTypes
<1>2. \A c \in Nodes, s \in Nodes :
        up'[c][s] = IF c = n /\ client[c][s] = "open"
                    THEN Sent(up[c][s], c, s, m) ELSE up[c][s]
  BY DEF SendAll, StreamTypes
<1>3. \A c \in Nodes, s \in Nodes :
        down'[c][s] = IF s = n /\ server[c][s] = "open"
                      THEN Sent(down[c][s], c, s, m) ELSE down[c][s]
  BY DEF SendAll, StreamTypes
<1>4. up' \in [Nodes -> [Nodes -> Seq(Chunks)]]
  BY <1>1 DEF SendAll, StreamTypes
<1>5. down' \in [Nodes -> [Nodes -> Seq(Chunks)]]
  BY <1>1 DEF SendAll, StreamTypes
<1> QED BY <1>2, <1>3, <1>4, <1>5

LEMMA LearnTypes ==
  ASSUME ContextTypes, NEW n \in Nodes, NEW R \in SUBSET Actions,
         NEW b \in BOOLEAN, Learn(n, R, b)
  PROVE  /\ known' \in [Nodes -> SUBSET Actions]
         /\ run' \in [Nodes -> Actions]
         /\ stopped' \in [Nodes -> SUBSET Actions]
<1>1. known' \in [Nodes -> SUBSET Actions]
  BY DEF Learn, ContextTypes
<1>2. run' \in [Nodes -> Actions]
  BY DEF Learn, Reschedule, Incomplete, ContextTypes
<1>3. stopped' \in [Nodes -> SUBSET Actions]
  BY DEF Learn, Reschedule, ContextTypes
<1> QED BY <1>1, <1>2, <1>3

\* The chunk at the head of a queue that is not empty.
LEMMA HeadOf ==
  ASSUME NEW q \in Seq(Chunks), q # <<>>
  PROVE  /\ Tail(q) \in Seq(Chunks) /\ Head(q) \in Chunks
         /\ Head(q).peers \in SUBSET Nodes
         /\ Head(q).results \in SUBSET Actions
<1>1. Tail(q) \in Seq(Chunks) /\ Head(q) \in Chunks
  BY TailRange
<1> QED BY <1>1 DEF Chunks

LEMMA ArrivesEffect ==
  ASSUME StreamTypes, NEW c \in Nodes, NEW s \in Nodes, NEW kind,
         Arrives(c, s, kind)
  PROVE  /\ up[c][s] \in Seq(Chunks) /\ up[c][s] # <<>>
         /\ Head(up[c][s]) \in Chunks /\ Head(up[c][s]).is = kind
         /\ Head(up[c][s]).peers \in SUBSET Nodes
         /\ Head(up[c][s]).results \in SUBSET Actions
         /\ \A c2 \in Nodes, s2 \in Nodes :
              up'[c2][s2] = IF c2 = c /\ s2 = s THEN Tail(up[c][s])
                           ELSE up[c2][s2]
         /\ up' \in [Nodes -> [Nodes -> Seq(Chunks)]]
<1>1. /\ up[c][s] \in Seq(Chunks) /\ up[c][s] # <<>>
      /\ Head(up[c][s]).is = kind
  BY DEF Arrives, StreamTypes
<1>2. /\ Tail(up[c][s]) \in Seq(Chunks) /\ Head(up[c][s]) \in Chunks
      /\ Head(up[c][s]).peers \in SUBSET Nodes
      /\ Head(up[c][s]).results \in SUBSET Actions
  BY <1>1, HeadOf
<1>3. \A c2 \in Nodes, s2 \in Nodes :
        up'[c2][s2] = IF c2 = c /\ s2 = s THEN Tail(up[c][s]) ELSE up[c2][s2]
  BY DEF Arrives, StreamTypes
<1>4. up' \in [Nodes -> [Nodes -> Seq(Chunks)]]
  BY <1>2 DEF Arrives, StreamTypes
<1> QED BY <1>1, <1>2, <1>3, <1>4

LEMMA ReturnsEffect ==
  ASSUME StreamTypes, NEW c \in Nodes, NEW s \in Nodes, NEW kind,
         Returns(c, s, kind)
  PROVE  /\ down[c][s] \in Seq(Chunks) /\ down[c][s] # <<>>
         /\ Head(down[c][s]) \in Chunks /\ Head(down[c][s]).is = kind
         /\ Head(down[c][s]).peers \in SUBSET Nodes
         /\ Head(down[c][s]).results \in SUBSET Actions
         /\ \A c2 \in Nodes, s2 \in Nodes :
              down'[c2][s2] = IF c2 = c /\ s2 = s THEN Tail(down[c][s])
                           ELSE down[c2][s2]
         /\ down' \in [Nodes -> [Nodes -> Seq(Chunks)]]
<1>1. /\ down[c][s] \in Seq(Chunks) /\ down[c][s] # <<>>
      /\ Head(down[c][s]).is = kind
  BY DEF Returns, StreamTypes
<1>2. /\ Tail(down[c][s]) \in Seq(Chunks) /\ Head(down[c][s]) \in Chunks
      /\ Head(down[c][s]).peers \in SUBSET Nodes
      /\ Head(down[c][s]).results \in SUBSET Actions
  BY <1>1, HeadOf
<1>3. \A c2 \in Nodes, s2 \in Nodes :
        down'[c2][s2] = IF c2 = c /\ s2 = s THEN Tail(down[c][s]) ELSE down[c2][s2]
  BY DEF Returns, StreamTypes
<1>4. down' \in [Nodes -> [Nodes -> Seq(Chunks)]]
  BY <1>2 DEF Returns, StreamTypes
<1> QED BY <1>1, <1>2, <1>3, <1>4

\* The actions, one by one.
LEMMA NextCases ==
  ASSUME Next
  PROVE  \/ StartPrimary
         \/ \E n \in Nodes : \/ StartSecondary(n) \/ Finish(n) \/ Fail(n)
                            \/ Update(n) \/ End(n)
         \/ \E c \in Nodes, s \in Nodes :
              \/ Connected(c, s) \/ ConnectFails(c, s) \/ Lose(c, s)
              \/ PutFound(c, s) \/ PutMissing(c, s)
              \/ RequestResult(c, s) \/ RequestLast(c, s)
              \/ RequestDropped(c, s)
              \/ ResponseFirst(c, s) \/ ResponseResult(c, s)
              \/ ResponseLast(c, s) \/ ResponseDropped(c, s)
              \/ RefusedAlone(c, s) \/ RefusedInCompany(c, s)
BY DEF Next, Request, Response, Fault

LEMMA InitTypes == Init => TypeOK
<1>1. <<>> \in Seq(Chunks)
  OBVIOUS
<1>2. (CHOOSE a \in Actions : TRUE) \in Actions
  BY ActionAssumption
<1> QED
  BY <1>1, <1>2, NodeAssumption, FaultAssumption
  DEF Init, TypeOK, ContextTypes, StreamTypes

LEMMA TypeStep ==
  ASSUME TypeOK, Next
  PROVE  TypeOK'
<1> USE DEF TypeOK

<1>1. CASE StartPrimary
  BY <1>1, NodeAssumption
  DEF StartPrimary, FirstAction, ContextTypes, StreamTypes, ctxVars, streamVars, faultVars
<1>2. ASSUME NEW n \in Nodes, StartSecondary(n) PROVE TypeOK'
  <2>1. ContextTypes'
    BY <1>2, NodeAssumption
    DEF StartSecondary, FirstAction, ContextTypes, ctxVars
  <2>2. StreamTypes'
    BY <1>2, NodeAssumption
    DEF StartSecondary, StreamTypes, faultVars
  <2> QED BY <2>1, <2>2
<1>3. ASSUME NEW n \in Nodes, Finish(n) PROVE TypeOK'
  <2>1. ContextTypes'
    BY <1>3 DEF Finish, ContextTypes
  <2>2. StreamTypes'
    BY <1>3 DEF Finish, StreamTypes, streamVars, faultVars
  <2> QED BY <2>1, <2>2
<1>20. ASSUME NEW n \in Nodes, Fail(n) PROVE TypeOK'
  <2>1. ContextTypes'
    BY <1>20 DEF Fail, ContextTypes
  <2>2. StreamTypes'
    BY <1>20 DEF Fail, StreamTypes, streamVars, faultVars
  <2> QED BY <2>1, <2>2
<1>4. ASSUME NEW n \in Nodes, Update(n) PROVE TypeOK'
  <2>1. Result({run[n]}) \in Chunks
    BY ChunkTypes DEF ContextTypes
  <2>2. StreamTypes'
    <3>1. CASE run[n] \in known[n]
      BY <1>4, <2>1, <3>1, SendAllEffect DEF Update, StreamTypes, faultVars
    <3>2. CASE run[n] \notin known[n]
      BY <1>4, <3>2 DEF Update, StreamTypes, faultVars
    <3> QED BY <3>1, <3>2
  <2>3. ContextTypes'
    BY <1>4 DEF Update, Incomplete, ContextTypes
  <2> QED BY <2>2, <2>3
<1>5. ASSUME NEW n \in Nodes, End(n) PROVE TypeOK'
  <2>1. Last(Results(n)) \in Chunks
    BY ChunkTypes DEF ContextTypes, Results
  <2>2. up' \in [Nodes -> [Nodes -> Seq(Chunks)]]
        /\ down' \in [Nodes -> [Nodes -> Seq(Chunks)]]
    BY <1>5, <2>1, SendAllEffect DEF End
  <2>3. client' \in [Nodes -> [Nodes -> {"none", "connecting", "failed", "open",
                                       "ended", "closed"}]]
    BY <1>5 DEF End, StreamTypes
  <2>4. server' \in [Nodes -> [Nodes -> {"none", "open", "erased", "finished",
                                       "closed"}]]
    BY <1>5 DEF End, StreamTypes
  <2>5. ContextTypes'
    BY <1>5 DEF End, ContextTypes
  <2> QED BY <1>5, <2>2, <2>3, <2>4, <2>5 DEF End, StreamTypes, faultVars
<1>6. ASSUME NEW c \in Nodes, NEW s \in Nodes, Connected(c, s)
      PROVE  TypeOK'
  <2>1. Put(call[c][s]) \in Chunks
    BY PutType DEF StreamTypes
  <2>2. up[c][s] \in Seq(Chunks)
    BY DEF StreamTypes
  <2>3. Append(up[c][s], Put(call[c][s])) \in Seq(Chunks)
    BY <2>1, <2>2, AppendRange
  <2> QED
    BY <1>6, <2>3
    DEF Connected, ContextTypes, StreamTypes, ctxVars, faultVars
<1>7. ASSUME NEW c \in Nodes, NEW s \in Nodes, ConnectFails(c, s)
      PROVE  TypeOK'
  <2>1. ContextTypes'
    BY <1>7 DEF ConnectFails, ContextTypes, ctxVars
  <2>2. faults' \in 0 .. MaxFaults
    BY <1>7, FaultAssumption DEF ConnectFails, CanFail, StreamTypes
  <2>3. StreamTypes'
    BY <1>7, <2>2 DEF ConnectFails, StreamTypes
  <2> QED BY <2>1, <2>3
<1>8. ASSUME NEW c \in Nodes, NEW s \in Nodes, Lose(c, s)
      PROVE  TypeOK'
  <2>0. <<>> \in Seq(Chunks)
    OBVIOUS
  <2>1. /\ up' \in [Nodes -> [Nodes -> Seq(Chunks)]]
        /\ down' \in [Nodes -> [Nodes -> Seq(Chunks)]]
    BY <1>8, <2>0 DEF Lose, StreamTypes
  <2>2. lost' \in [Nodes -> [Nodes -> BOOLEAN]]
    BY <1>8 DEF Lose, Shared, StreamTypes
  <2> QED
    BY <1>8, <2>1, <2>2, FaultAssumption
    DEF Lose, CanFail, ContextTypes, StreamTypes, ctxVars
<1>9. ASSUME NEW c \in Nodes, NEW s \in Nodes, PutFound(c, s)
      PROVE  TypeOK'
  <2>1. Arrives(c, s, "put")
    BY <1>9 DEF PutFound
  <2> DEFINE m == Head(up[c][s])
  <2>2. m.peers \in SUBSET Nodes /\ up' \in [Nodes -> [Nodes -> Seq(Chunks)]]
    BY <2>1, ArrivesEffect
  <2>3. Merged(s, m) \in SUBSET Nodes /\ NewPeers(s, m) \in SUBSET Nodes
    BY <2>2 DEF Merged, NewPeers, ContextTypes
  <2>7. Created(Merged(s, m), known[s]) \in Chunks
    BY <2>3, ChunkTypes DEF ContextTypes
  <2>8. down[c][s] \in Seq(Chunks)
    BY DEF StreamTypes
  <2>4. Sent(down[c][s], c, s, Created(Merged(s, m), known[s])) \in Seq(Chunks)
    BY <2>7, <2>8, SentType
  <2>5. ContextTypes'
    BY <1>9, <2>3 DEF PutFound, ContextTypes
  <2>6. down' \in [Nodes -> [Nodes -> Seq(Chunks)]]
    BY <1>9, <2>4 DEF PutFound, StreamTypes
  <2> QED
    BY <1>9, <2>2, <2>5, <2>6 DEF PutFound, StreamTypes, faultVars
<1>10. ASSUME NEW c \in Nodes, NEW s \in Nodes, PutMissing(c, s)
      PROVE  TypeOK'
  <2>1. up' \in [Nodes -> [Nodes -> Seq(Chunks)]]
    BY <1>10, ArrivesEffect DEF PutMissing
  <2>2. Sent(down[c][s], c, s, Missing) \in Seq(Chunks)
    BY ChunkTypes, SentType DEF StreamTypes
  <2> QED
    BY <1>10, <2>1, <2>2
    DEF PutMissing, ContextTypes, StreamTypes, ctxVars, faultVars
<1>11. ASSUME NEW c \in Nodes, NEW s \in Nodes, RequestResult(c, s)
      PROVE  TypeOK'
  <2>1. Arrives(c, s, "result") /\ Learn(s, Head(up[c][s]).results, TRUE)
    BY <1>11 DEF RequestResult
  <2>2. /\ up' \in [Nodes -> [Nodes -> Seq(Chunks)]]
        /\ Head(up[c][s]).results \in SUBSET Actions
    BY <2>1, ArrivesEffect
  <2>3. ContextTypes'
    BY <1>11, <2>1, <2>2, LearnTypes DEF RequestResult, ContextTypes
  <2> QED
    BY <1>11, <2>2, <2>3 DEF RequestResult, StreamTypes, faultVars
<1>12. ASSUME NEW c \in Nodes, NEW s \in Nodes, RequestLast(c, s)
      PROVE  TypeOK'
  <2>1. Arrives(c, s, "last") /\ Learn(s, Head(up[c][s]).results, TRUE)
    BY <1>12 DEF RequestLast
  <2>2. /\ up' \in [Nodes -> [Nodes -> Seq(Chunks)]]
        /\ Head(up[c][s]).results \in SUBSET Actions
    BY <2>1, ArrivesEffect
  <2>3. ContextTypes'
    BY <1>12, <2>1, <2>2, LearnTypes DEF RequestLast, ContextTypes
  <2> QED
    BY <1>12, <2>2, <2>3 DEF RequestLast, StreamTypes, faultVars
<1>13. ASSUME NEW c \in Nodes, NEW s \in Nodes, RequestDropped(c, s)
      PROVE  TypeOK'
  <2>1. up' \in [Nodes -> [Nodes -> Seq(Chunks)]]
    BY <1>13, ArrivesEffect DEF RequestDropped
  <2> QED
    BY <1>13, <2>1
    DEF RequestDropped, ContextTypes, StreamTypes, ctxVars, faultVars
<1>14. ASSUME NEW c \in Nodes, NEW s \in Nodes, ResponseFirst(c, s)
      PROVE  TypeOK'
  <2> DEFINE m == Head(down[c][s])
  <2>1. Returns(c, s, "created") /\ Learn(c, m.results, FALSE)
    BY <1>14 DEF ResponseFirst
  <2>2. /\ down' \in [Nodes -> [Nodes -> Seq(Chunks)]]
        /\ m.results \in SUBSET Actions /\ m.peers \in SUBSET Nodes
    BY <2>1, ReturnsEffect
  <2>3. Merged(c, m) \in SUBSET Nodes
    BY <2>2 DEF Merged, ContextTypes
  <2>7. /\ known' \in [Nodes -> SUBSET Actions]
        /\ run' \in [Nodes -> Actions]
        /\ stopped' \in [Nodes -> SUBSET Actions]
    BY <2>1, <2>2, LearnTypes
  <2>4. ContextTypes'
    BY <1>14, <2>3, <2>7 DEF ResponseFirst, ContextTypes
  <2>5. client' \in [Nodes -> [Nodes -> {"none", "connecting", "failed", "open",
                                       "ended", "closed"}]]
    BY <1>14 DEF ResponseFirst, StreamTypes
  <2>6. call' \in [Nodes -> [Nodes -> SUBSET Nodes]]
    <3>1. PICK P \in SUBSET Nodes, N \in SUBSET Nodes :
            call' = [call EXCEPT ![c] =
                       [k \in Nodes |-> IF k \in N THEN P ELSE @[k]]]
      <4>1. NewPeers(c, m) \in SUBSET Nodes
        BY <2>3 DEF NewPeers
      <4> QED BY <1>14, <2>3, <4>1 DEF ResponseFirst
    <3> DEFINE row == [k \in Nodes |-> IF k \in N THEN P ELSE call[c][k]]
    <3>2. row \in [Nodes -> SUBSET Nodes]
      <4>1. \A k \in Nodes : call[c][k] \in SUBSET Nodes
        BY DEF StreamTypes
      <4> QED BY <4>1
    <3>3. call' = [call EXCEPT ![c] = row]
      BY <3>1
    <3>4. call \in [Nodes -> [Nodes -> SUBSET Nodes]]
      BY DEF StreamTypes
    <3> HIDE DEF row
    <3> QED BY <3>2, <3>3, <3>4
  <2> QED
    BY <1>14, <2>2, <2>4, <2>5, <2>6
    DEF ResponseFirst, StreamTypes, faultVars
<1>15. ASSUME NEW c \in Nodes, NEW s \in Nodes, ResponseResult(c, s)
      PROVE  TypeOK'
  <2>1. Returns(c, s, "result") /\ Learn(c, Head(down[c][s]).results, FALSE)
    BY <1>15 DEF ResponseResult
  <2>2. /\ down' \in [Nodes -> [Nodes -> Seq(Chunks)]]
        /\ Head(down[c][s]).results \in SUBSET Actions
    BY <2>1, ReturnsEffect
  <2>3. ContextTypes'
    BY <1>15, <2>1, <2>2, LearnTypes DEF ResponseResult, ContextTypes
  <2> QED
    BY <1>15, <2>2, <2>3 DEF ResponseResult, StreamTypes, faultVars
<1>16. ASSUME NEW c \in Nodes, NEW s \in Nodes, ResponseLast(c, s)
      PROVE  TypeOK'
  <2>1. Returns(c, s, "last") /\ Learn(c, Head(down[c][s]).results, FALSE)
    BY <1>16 DEF ResponseLast
  <2>2. /\ down' \in [Nodes -> [Nodes -> Seq(Chunks)]]
        /\ Head(down[c][s]).results \in SUBSET Actions
    BY <2>1, ReturnsEffect
  <2>3. ContextTypes'
    BY <1>16, <2>1, <2>2, LearnTypes DEF ResponseLast, ContextTypes
  <2> QED
    BY <1>16, <2>2, <2>3 DEF ResponseLast, StreamTypes, faultVars
<1>17. ASSUME NEW c \in Nodes, NEW s \in Nodes, ResponseDropped(c, s)
      PROVE  TypeOK'
  <2>1. PICK kind \in {"created", "result", "last", "missing"} :
          /\ Returns(c, s, kind)
          /\ client' = [client EXCEPT ![c][s] =
               IF @ = "ended" /\ kind \in {"created", "result"}
               THEN @ ELSE "closed"]
    BY <1>17 DEF ResponseDropped
  <2>2. down' \in [Nodes -> [Nodes -> Seq(Chunks)]]
    BY <2>1, ReturnsEffect
  <2>3. client' \in [Nodes -> [Nodes -> {"none", "connecting", "failed", "open",
                                       "ended", "closed"}]]
    BY <2>1 DEF StreamTypes
  <2> QED
    BY <1>17, <2>2, <2>3
    DEF ResponseDropped, ContextTypes, StreamTypes, ctxVars, faultVars
<1>18. ASSUME NEW c \in Nodes, NEW s \in Nodes, RefusedAlone(c, s)
      PROVE  TypeOK'
  <2>1. down' \in [Nodes -> [Nodes -> Seq(Chunks)]]
    BY <1>18, ReturnsEffect DEF RefusedAlone
  <2> QED
    BY <1>18, <2>1 DEF RefusedAlone, ContextTypes, StreamTypes, faultVars
<1>19. ASSUME NEW c \in Nodes, NEW s \in Nodes, RefusedInCompany(c, s)
      PROVE  TypeOK'
  <2>1. down' \in [Nodes -> [Nodes -> Seq(Chunks)]]
    BY <1>19, ReturnsEffect DEF RefusedInCompany
  <2> QED
    BY <1>19, <2>1
    DEF RefusedInCompany, ContextTypes, StreamTypes, ctxVars, faultVars
<1> QED
  BY <1>1, <1>2, <1>3, <1>4, <1>5, <1>6, <1>7, <1>8, <1>9, <1>10, <1>11,
     <1>12, <1>13, <1>14, <1>15, <1>16, <1>17, <1>18, <1>19, <1>20, NextCases

LEMMA TypeStutter ==
  ASSUME TypeOK, UNCHANGED vars
  PROVE  TypeOK'
BY DEF TypeOK, ContextTypes, StreamTypes, vars, ctxVars, streamVars, faultVars

\* Every variable keeps its type.
THEOREM TypeCorrect == Spec => []TypeOK
<1>1. TypeOK /\ [Next]_vars => TypeOK'
  BY TypeStep, TypeStutter
<1> QED BY InitTypes, <1>1, PTL DEF Spec

-----------------------------------------------------------------------------
(* What a step may do to one queue, one end of a stream or one context.    *)

\* A chunk that c puts on its way to s.
UpNew(c, s, m) ==
  \/ /\ client[c][s] = "connecting" /\ client'[c][s] = "open"
     /\ m = Put(call[c][s])
  \/ /\ ctx[c] = "live" /\ client[c][s] = "open"
     /\ run[c] \in known[c]
     /\ m = Result({run[c]})
  \/ /\ ctx[c] = "live" /\ client[c][s] = "open"
     /\ IsStopped(c) /\ ctx'[c] = "ended"
     /\ m = Last(known[c])

UpMove(c, s) ==
  \/ up'[c][s] = up[c][s]
  \/ up'[c][s] = <<>>
  \/ up[c][s] # <<>> /\ up'[c][s] = Tail(up[c][s])
  \/ \E m \in Chunks : UpNew(c, s, m) /\ up'[c][s] = Append(up[c][s], m)

PutAt(c, s) == up[c][s] # <<>> /\ Head(up[c][s]).is = "put"

\* A chunk that s puts on its way to c.
DownNew(c, s, m) ==
  \/ /\ PutAt(c, s) /\ ctx[s] = "live" /\ server'[c][s] = "open"
     /\ m = Created(peers'[s], known[s])
  \/ /\ PutAt(c, s) /\ ctx[s] # "live" /\ server'[c][s] = "closed"
     /\ m = Missing
  \/ /\ ctx[s] = "live" /\ server[c][s] = "open"
     /\ run[s] \in known[s]
     /\ m = Result({run[s]})
  \/ /\ ctx[s] = "live" /\ server[c][s] = "open"
     /\ IsStopped(s)
     /\ m = Last(known[s])

DownMove(c, s) ==
  \/ down'[c][s] = down[c][s]
  \/ down'[c][s] = <<>> /\ lost'[c][s]
  \/ /\ down[c][s] # <<>> /\ down'[c][s] = Tail(down[c][s])
     /\ InList(c, s) /\ Head(down[c][s]).is = "created"
          => peers'[c] = peers[c] \union Head(down[c][s]).peers
  \/ \E m \in Chunks : DownNew(c, s, m) /\ down'[c][s] = Append(down[c][s], m)

ServerMove(c, s) ==
  \/ server'[c][s] = server[c][s]
  \/ /\ PutAt(c, s) /\ up'[c][s] = Tail(up[c][s])
     /\ \/ server'[c][s] = "open" /\ ctx[s] = "live" /\ ctx'[s] = "live"
        \/ server'[c][s] = "closed" /\ ctx[s] # "live" /\ ctx'[s] = ctx[s]
  \/ /\ server[c][s] = "open" /\ server'[c][s] = "erased"
     /\ up[c][s] # <<>> /\ Head(up[c][s]).is = "last"
     /\ Learn(s, Head(up[c][s]).results, TRUE)
  \/ server[c][s] = "open" /\ server'[c][s] = "finished" /\ ctx'[s] = "ended"

\* c sets out to connect to s.
CallNew(c, s) ==
  /\ client'[c][s] = "connecting" /\ s \in peers'[c]
  /\ call'[c][s] \subseteq peers'[c]
  /\ \/ /\ s = Primary /\ c # Primary /\ ctx[c] = "none"
        /\ peers'[c] = {Primary, c}
     \/ /\ ctx[c] = "live" /\ s \notin peers[c]
        /\ \E q \in Nodes : client[c][q] = "open"

ClientMove(c, s) ==
  \/ client'[c][s] = client[c][s] /\ call'[c][s] = call[c][s]
  \/ CallNew(c, s)
  \/ /\ call'[c][s] = call[c][s]
     /\ \/ client[c][s] = "connecting" /\ client'[c][s] \in {"open", "failed"}
        \/ /\ client[c][s] = "open" /\ client'[c][s] = "ended"
           /\ ctx'[c] = "ended"
        \/ /\ client'[c][s] = "closed" /\ down[c][s] # <<>>
           /\ down'[c][s] = Tail(down[c][s])
           /\ ~ InList(c, s) \/ Head(down[c][s]).is # "created"

CtxMove(n) ==
  \/ ctx'[n] = ctx[n]
  \/ /\ ctx[n] = "none" /\ ctx'[n] = "live" /\ peers'[n] = {Primary, n}
     /\ n = Primary \/ ctx[Primary] # "none"
  \/ /\ ctx[n] = "live" /\ ctx'[n] = "ended" /\ IsStopped(n)
     /\ \A m \in Nodes : server'[m][n] # "open" /\ client'[n][m] # "open"

\* The peers of another context that n is told of.
ToldBy(n, m) ==
  \/ /\ PutAt(m, n) /\ peers'[n] = peers[n] \union Head(up[m][n]).peers
     /\ server'[m][n] = "open"
     /\ peers'[n] \ (peers[n] \union {m}) \subseteq told'[n]
     /\ \/ lost[m][n]
        \/ \E k \in Range(down'[m][n]) : k.is = "created" /\ k.peers = peers'[n]
  \/ /\ InList(n, m) /\ down[n][m] # <<>> /\ Head(down[n][m]).is = "created"
     /\ peers'[n] = peers[n] \union Head(down[n][m]).peers
     /\ \A p \in peers'[n] \ peers[n] : client'[n][p] = "connecting"

PeersMove(n) ==
  \/ peers'[n] = peers[n]
  \/ ctx[n] = "none" /\ ctx'[n] = "live" /\ peers'[n] = {Primary, n}
  \/ ctx[n] = "live" /\ ctx'[n] = "live" /\ \E m \in Nodes : ToldBy(n, m)

LEMMA UpStep ==
  ASSUME TypeOK, Next
  PROVE  \A c \in Nodes, s \in Nodes : UpMove(c, s)
<1> USE DEF TypeOK
<1> SUFFICES ASSUME NEW c \in Nodes, NEW s \in Nodes PROVE UpMove(c, s)
  OBVIOUS
<1>1. CASE StartPrimary
  BY <1>1
  DEF StartPrimary, streamVars, UpMove
<1>2. ASSUME NEW n1 \in Nodes, StartSecondary(n1) PROVE UpMove(c, s)
  BY <1>2
  DEF StartSecondary, UpMove
<1>3. ASSUME NEW n1 \in Nodes, Finish(n1) PROVE UpMove(c, s)
  BY <1>3
  DEF Finish, streamVars, UpMove
<1>20. ASSUME NEW n1 \in Nodes, Fail(n1) PROVE UpMove(c, s)
  BY <1>20
  DEF Fail, streamVars, UpMove
<1>4. ASSUME NEW n1 \in Nodes, Update(n1) PROVE UpMove(c, s)
  <2>1. Result({run[n1]}) \in Chunks
    BY ChunkTypes DEF ContextTypes
  <2>2. CASE run[n1] \notin known[n1]
    BY <1>4, <2>2 DEF Update, UpMove
  <2> SUFFICES ASSUME run[n1] \in known[n1] PROVE UpMove(c, s)
    BY <2>2
  <2>6. SendAll(n1, Result({run[n1]}))
    BY <1>4 DEF Update
  <2>3. up'[c][s] = IF c = n1 /\ client[c][s] = "open"
                    THEN Sent(up[c][s], c, s, Result({run[n1]})) ELSE up[c][s]
    BY <2>1, <2>6, SendAllEffect
  <2>4. CASE c = n1 /\ client[c][s] = "open" /\ ~ lost[c][s]
    <3>1. UpNew(c, s, Result({run[n1]}))
      BY <1>4, <2>4 DEF Update, UpNew, ContextTypes
    <3> QED BY <2>1, <2>3, <2>4, <3>1 DEF Sent, UpMove
  <2>5. CASE ~ (c = n1 /\ client[c][s] = "open" /\ ~ lost[c][s])
    BY <2>3, <2>5 DEF Sent, UpMove
  <2> QED BY <2>4, <2>5
<1>5. ASSUME NEW n1 \in Nodes, End(n1) PROVE UpMove(c, s)
  <2>1. Last(known[n1]) \in Chunks
    BY ChunkTypes DEF ContextTypes
  <2>2. SendAll(n1, Last(known[n1]))
    BY <1>5 DEF End, Results
  <2>3. up'[c][s] = IF c = n1 /\ client[c][s] = "open"
                    THEN Sent(up[c][s], c, s, Last(known[n1])) ELSE up[c][s]
    BY <2>1, <2>2, SendAllEffect
  <2>4. CASE c = n1 /\ client[c][s] = "open" /\ ~ lost[c][s]
    <3>1. UpNew(c, s, Last(known[n1]))
      BY <1>5, <2>4 DEF End, UpNew, ContextTypes
    <3> QED BY <2>1, <2>3, <2>4, <3>1 DEF Sent, UpMove
  <2>5. CASE ~ (c = n1 /\ client[c][s] = "open" /\ ~ lost[c][s])
    BY <2>3, <2>5 DEF Sent, UpMove
  <2> QED BY <2>4, <2>5
<1>6. ASSUME NEW c1 \in Nodes, NEW s1 \in Nodes, Connected(c1, s1)
      PROVE  UpMove(c, s)
  <2>1. CASE c = c1 /\ s = s1
    <3>1. Put(call[c][s]) \in Chunks
      BY PutType DEF StreamTypes
    <3>2. UpNew(c, s, Put(call[c][s]))
      BY <1>6, <2>1 DEF Connected, UpNew, StreamTypes
    <3>3. up'[c][s] = Append(up[c][s], Put(call[c][s]))
      BY <1>6, <2>1 DEF Connected, StreamTypes
    <3> QED BY <3>1, <3>2, <3>3 DEF UpMove
  <2>2. CASE ~ (c = c1 /\ s = s1)
    BY <1>6, <2>2 DEF Connected, StreamTypes, UpMove
  <2> QED BY <2>1, <2>2
<1>7. ASSUME NEW c1 \in Nodes, NEW s1 \in Nodes, ConnectFails(c1, s1)
      PROVE  UpMove(c, s)
  BY <1>7
  DEF ConnectFails, UpMove
<1>8. ASSUME NEW c1 \in Nodes, NEW s1 \in Nodes, Lose(c1, s1)
      PROVE  UpMove(c, s)
  BY <1>8 DEF Lose, StreamTypes, UpMove
<1>9. ASSUME NEW c1 \in Nodes, NEW s1 \in Nodes, PutFound(c1, s1)
      PROVE  UpMove(c, s)
  <2>1. Arrives(c1, s1, "put")
    BY <1>9 DEF PutFound
  <2> QED BY <2>1, ArrivesEffect DEF UpMove
<1>10. ASSUME NEW c1 \in Nodes, NEW s1 \in Nodes, PutMissing(c1, s1)
      PROVE  UpMove(c, s)
  <2>1. Arrives(c1, s1, "put")
    BY <1>10 DEF PutMissing
  <2> QED BY <2>1, ArrivesEffect DEF UpMove
<1>11. ASSUME NEW c1 \in Nodes, NEW s1 \in Nodes, RequestResult(c1, s1)
      PROVE  UpMove(c, s)
  <2>1. Arrives(c1, s1, "result")
    BY <1>11 DEF RequestResult
  <2> QED BY <2>1, ArrivesEffect DEF UpMove
<1>12. ASSUME NEW c1 \in Nodes, NEW s1 \in Nodes, RequestLast(c1, s1)
      PROVE  UpMove(c, s)
  <2>1. Arrives(c1, s1, "last")
    BY <1>12 DEF RequestLast
  <2> QED BY <2>1, ArrivesEffect DEF UpMove
<1>13. ASSUME NEW c1 \in Nodes, NEW s1 \in Nodes, RequestDropped(c1, s1)
      PROVE  UpMove(c, s)
  <2>1. PICK kind \in {"result", "last"} : Arrives(c1, s1, kind)
    BY <1>13 DEF RequestDropped
  <2> QED BY <2>1, ArrivesEffect DEF UpMove
<1>14. ASSUME NEW c1 \in Nodes, NEW s1 \in Nodes, ResponseFirst(c1, s1)
      PROVE  UpMove(c, s)
  BY <1>14
  DEF ResponseFirst, UpMove
<1>15. ASSUME NEW c1 \in Nodes, NEW s1 \in Nodes, ResponseResult(c1, s1)
      PROVE  UpMove(c, s)
  BY <1>15
  DEF ResponseResult, UpMove
<1>16. ASSUME NEW c1 \in Nodes, NEW s1 \in Nodes, ResponseLast(c1, s1)
      PROVE  UpMove(c, s)
  BY <1>16
  DEF ResponseLast, UpMove
<1>17. ASSUME NEW c1 \in Nodes, NEW s1 \in Nodes, ResponseDropped(c1, s1)
      PROVE  UpMove(c, s)
  BY <1>17
  DEF ResponseDropped, UpMove
<1>18. ASSUME NEW c1 \in Nodes, NEW s1 \in Nodes, RefusedAlone(c1, s1)
      PROVE  UpMove(c, s)
  BY <1>18
  DEF RefusedAlone, UpMove
<1>19. ASSUME NEW c1 \in Nodes, NEW s1 \in Nodes, RefusedInCompany(c1, s1)
      PROVE  UpMove(c, s)
  BY <1>19
  DEF RefusedInCompany, UpMove
<1> QED BY <1>1, <1>2, <1>3, <1>4, <1>5, <1>6, <1>7, <1>8, <1>9, <1>10, <1>11,
       <1>12, <1>13, <1>14, <1>15, <1>16, <1>17, <1>18, <1>19, <1>20, NextCases

LEMMA DownStep ==
  ASSUME TypeOK, Next
  PROVE  \A c \in Nodes, s \in Nodes : DownMove(c, s)
<1> USE DEF TypeOK
<1> SUFFICES ASSUME NEW c \in Nodes, NEW s \in Nodes PROVE DownMove(c, s)
  OBVIOUS
<1>1. CASE StartPrimary
  BY <1>1
  DEF StartPrimary, streamVars, DownMove
<1>2. ASSUME NEW n1 \in Nodes, StartSecondary(n1) PROVE DownMove(c, s)
  BY <1>2
  DEF StartSecondary, DownMove
<1>3. ASSUME NEW n1 \in Nodes, Finish(n1) PROVE DownMove(c, s)
  BY <1>3
  DEF Finish, streamVars, DownMove
<1>20. ASSUME NEW n1 \in Nodes, Fail(n1) PROVE DownMove(c, s)
  BY <1>20
  DEF Fail, streamVars, DownMove
<1>4. ASSUME NEW n1 \in Nodes, Update(n1) PROVE DownMove(c, s)
  <2>1. Result({run[n1]}) \in Chunks
    BY ChunkTypes DEF ContextTypes
  <2>2. CASE run[n1] \notin known[n1]
    BY <1>4, <2>2 DEF Update, DownMove
  <2> SUFFICES ASSUME run[n1] \in known[n1] PROVE DownMove(c, s)
    BY <2>2
  <2>6. SendAll(n1, Result({run[n1]}))
    BY <1>4 DEF Update
  <2>3. down'[c][s] = IF s = n1 /\ server[c][s] = "open"
                      THEN Sent(down[c][s], c, s, Result({run[n1]})) ELSE down[c][s]
    BY <2>1, <2>6, SendAllEffect
  <2>4. CASE s = n1 /\ server[c][s] = "open" /\ ~ lost[c][s]
    <3>1. DownNew(c, s, Result({run[n1]}))
      BY <1>4, <2>4 DEF Update, DownNew
    <3> QED BY <2>1, <2>3, <2>4, <3>1 DEF Sent, DownMove
  <2>5. CASE ~ (s = n1 /\ server[c][s] = "open" /\ ~ lost[c][s])
    BY <2>3, <2>5 DEF Sent, DownMove
  <2> QED BY <2>4, <2>5
<1>5. ASSUME NEW n1 \in Nodes, End(n1) PROVE DownMove(c, s)
  <2>1. Last(known[n1]) \in Chunks
    BY ChunkTypes DEF ContextTypes
  <2>2. SendAll(n1, Last(known[n1]))
    BY <1>5 DEF End, Results
  <2>3. down'[c][s] = IF s = n1 /\ server[c][s] = "open"
                      THEN Sent(down[c][s], c, s, Last(known[n1])) ELSE down[c][s]
    BY <2>1, <2>2, SendAllEffect
  <2>4. CASE s = n1 /\ server[c][s] = "open" /\ ~ lost[c][s]
    <3>1. DownNew(c, s, Last(known[n1]))
      BY <1>5, <2>4 DEF End, DownNew
    <3> QED BY <2>1, <2>3, <2>4, <3>1 DEF Sent, DownMove
  <2>5. CASE ~ (s = n1 /\ server[c][s] = "open" /\ ~ lost[c][s])
    BY <2>3, <2>5 DEF Sent, DownMove
  <2> QED BY <2>4, <2>5
<1>6. ASSUME NEW c1 \in Nodes, NEW s1 \in Nodes, Connected(c1, s1)
      PROVE  DownMove(c, s)
  BY <1>6
  DEF Connected, DownMove
<1>7. ASSUME NEW c1 \in Nodes, NEW s1 \in Nodes, ConnectFails(c1, s1)
      PROVE  DownMove(c, s)
  BY <1>7
  DEF ConnectFails, DownMove
<1>8. ASSUME NEW c1 \in Nodes, NEW s1 \in Nodes, Lose(c1, s1)
      PROVE  DownMove(c, s)
  <2>1. down'[c][s] = IF Shared(c1, s1, c, s) THEN <<>> ELSE down[c][s]
    BY <1>8 DEF Lose
  <2>2. Shared(c1, s1, c, s) => lost'[c][s]
    BY <1>8 DEF Lose, Shared
  <2> QED BY <2>1, <2>2 DEF DownMove
<1>9. ASSUME NEW c1 \in Nodes, NEW s1 \in Nodes, PutFound(c1, s1)
      PROVE  DownMove(c, s)
  <2>1. Arrives(c1, s1, "put")
    BY <1>9 DEF PutFound
  <2>2. PutAt(c1, s1) /\ Head(up[c1][s1]).peers \in SUBSET Nodes
    BY <2>1, ArrivesEffect DEF PutAt
  <2>3. peers'[s1] = Merged(s1, Head(up[c1][s1])) /\ peers'[s1] \in SUBSET Nodes
    BY <1>9, <2>2 DEF PutFound, Merged, ContextTypes
  <2>4. Created(peers'[s1], known[s1]) \in Chunks
    BY <2>3, ChunkTypes DEF ContextTypes
  <2>5. DownNew(c1, s1, Created(peers'[s1], known[s1]))
    BY <1>9, <2>2 DEF PutFound, DownNew, StreamTypes
  <2>6. down' = [down EXCEPT ![c1][s1] =
                  Sent(down[c1][s1], c1, s1, Created(peers'[s1], known[s1]))]
    BY <1>9, <2>3 DEF PutFound
  <2>7. CASE c = c1 /\ s = s1 /\ ~ lost[c][s]
    BY <2>4, <2>5, <2>6, <2>7 DEF Sent, DownMove, StreamTypes
  <2>8. CASE ~ (c = c1 /\ s = s1 /\ ~ lost[c][s])
    BY <2>6, <2>8 DEF Sent, DownMove, StreamTypes
  <2> QED BY <2>7, <2>8
<1>10. ASSUME NEW c1 \in Nodes, NEW s1 \in Nodes, PutMissing(c1, s1)
      PROVE  DownMove(c, s)
  <2>1. Arrives(c1, s1, "put")
    BY <1>10 DEF PutMissing
  <2>2. PutAt(c1, s1) /\ Head(up[c1][s1]).peers \in SUBSET Nodes
    BY <2>1, ArrivesEffect DEF PutAt
  <2>4. Missing \in Chunks
    BY ChunkTypes DEF ContextTypes
  <2>5. DownNew(c1, s1, Missing)
    BY <1>10, <2>2 DEF PutMissing, DownNew, StreamTypes
  <2>6. down' = [down EXCEPT ![c1][s1] =
                  Sent(down[c1][s1], c1, s1, Missing)]
    BY <1>10 DEF PutMissing
  <2>7. CASE c = c1 /\ s = s1 /\ ~ lost[c][s]
    BY <2>4, <2>5, <2>6, <2>7 DEF Sent, DownMove, StreamTypes
  <2>8. CASE ~ (c = c1 /\ s = s1 /\ ~ lost[c][s])
    BY <2>6, <2>8 DEF Sent, DownMove, StreamTypes
  <2> QED BY <2>7, <2>8
<1>11. ASSUME NEW c1 \in Nodes, NEW s1 \in Nodes, RequestResult(c1, s1)
      PROVE  DownMove(c, s)
  BY <1>11
  DEF RequestResult, DownMove
<1>12. ASSUME NEW c1 \in Nodes, NEW s1 \in Nodes, RequestLast(c1, s1)
      PROVE  DownMove(c, s)
  BY <1>12
  DEF RequestLast, DownMove
<1>13. ASSUME NEW c1 \in Nodes, NEW s1 \in Nodes, RequestDropped(c1, s1)
      PROVE  DownMove(c, s)
  BY <1>13
  DEF RequestDropped, DownMove
<1>14. ASSUME NEW c1 \in Nodes, NEW s1 \in Nodes, ResponseFirst(c1, s1)
      PROVE  DownMove(c, s)
  <2>1. Returns(c1, s1, "created")
    BY <1>14 DEF ResponseFirst
  <2>2. peers'[c1] = peers[c1] \union Head(down[c1][s1]).peers
    BY <1>14 DEF ResponseFirst, Merged, ContextTypes
  <2> QED BY <2>1, <2>2, ReturnsEffect DEF DownMove
<1>15. ASSUME NEW c1 \in Nodes, NEW s1 \in Nodes, ResponseResult(c1, s1)
      PROVE  DownMove(c, s)
  <2>1. Returns(c1, s1, "result")
    BY <1>15 DEF ResponseResult
  <2> QED BY <2>1, ReturnsEffect DEF DownMove
<1>16. ASSUME NEW c1 \in Nodes, NEW s1 \in Nodes, ResponseLast(c1, s1)
      PROVE  DownMove(c, s)
  <2>1. Returns(c1, s1, "last")
    BY <1>16 DEF ResponseLast
  <2> QED BY <2>1, ReturnsEffect DEF DownMove
<1>17. ASSUME NEW c1 \in Nodes, NEW s1 \in Nodes, ResponseDropped(c1, s1)
      PROVE  DownMove(c, s)
  <2>1. PICK kind : Returns(c1, s1, kind)
    BY <1>17 DEF ResponseDropped
  <2>2. ~ InList(c1, s1)
    BY <1>17 DEF ResponseDropped
  <2> QED BY <2>1, <2>2, ReturnsEffect DEF DownMove
<1>18. ASSUME NEW c1 \in Nodes, NEW s1 \in Nodes, RefusedAlone(c1, s1)
      PROVE  DownMove(c, s)
  <2>1. Returns(c1, s1, "missing")
    BY <1>18 DEF RefusedAlone
  <2> QED BY <2>1, ReturnsEffect DEF DownMove
<1>19. ASSUME NEW c1 \in Nodes, NEW s1 \in Nodes, RefusedInCompany(c1, s1)
      PROVE  DownMove(c, s)
  <2>1. Returns(c1, s1, "missing")
    BY <1>19 DEF RefusedInCompany
  <2> QED BY <2>1, ReturnsEffect DEF DownMove
<1> QED BY <1>1, <1>2, <1>3, <1>4, <1>5, <1>6, <1>7, <1>8, <1>9, <1>10, <1>11,
       <1>12, <1>13, <1>14, <1>15, <1>16, <1>17, <1>18, <1>19, <1>20, NextCases

LEMMA ServerStep ==
  ASSUME TypeOK, Next
  PROVE  \A c \in Nodes, s \in Nodes : ServerMove(c, s)
<1> USE DEF TypeOK
<1> SUFFICES ASSUME NEW c \in Nodes, NEW s \in Nodes PROVE ServerMove(c, s)
  OBVIOUS
<1>1. CASE StartPrimary
  BY <1>1
  DEF StartPrimary, streamVars, ServerMove
<1>2. ASSUME NEW n1 \in Nodes, StartSecondary(n1) PROVE ServerMove(c, s)
  BY <1>2
  DEF StartSecondary, ServerMove
<1>3. ASSUME NEW n1 \in Nodes, Finish(n1) PROVE ServerMove(c, s)
  BY <1>3
  DEF Finish, streamVars, ServerMove
<1>20. ASSUME NEW n1 \in Nodes, Fail(n1) PROVE ServerMove(c, s)
  BY <1>20
  DEF Fail, streamVars, ServerMove
<1>4. ASSUME NEW n1 \in Nodes, Update(n1) PROVE ServerMove(c, s)
  BY <1>4
  DEF Update, ServerMove
<1>5. ASSUME NEW n1 \in Nodes, End(n1) PROVE ServerMove(c, s)
  BY <1>5 DEF End, ServerMove, ContextTypes, StreamTypes
<1>6. ASSUME NEW c1 \in Nodes, NEW s1 \in Nodes, Connected(c1, s1)
      PROVE  ServerMove(c, s)
  BY <1>6
  DEF Connected, ServerMove
<1>7. ASSUME NEW c1 \in Nodes, NEW s1 \in Nodes, ConnectFails(c1, s1)
      PROVE  ServerMove(c, s)
  BY <1>7
  DEF ConnectFails, ServerMove
<1>8. ASSUME NEW c1 \in Nodes, NEW s1 \in Nodes, Lose(c1, s1)
      PROVE  ServerMove(c, s)
  BY <1>8
  DEF Lose, ServerMove
<1>9. ASSUME NEW c1 \in Nodes, NEW s1 \in Nodes, PutFound(c1, s1)
      PROVE  ServerMove(c, s)
  <2>1. Arrives(c1, s1, "put")
    BY <1>9 DEF PutFound
  <2>2. PutAt(c1, s1) /\ up'[c1][s1] = Tail(up[c1][s1])
    BY <2>1, ArrivesEffect DEF PutAt
  <2> QED
    BY <1>9, <2>2 DEF PutFound, ServerMove, ContextTypes, StreamTypes
<1>10. ASSUME NEW c1 \in Nodes, NEW s1 \in Nodes, PutMissing(c1, s1)
      PROVE  ServerMove(c, s)
  <2>1. Arrives(c1, s1, "put")
    BY <1>10 DEF PutMissing
  <2>2. PutAt(c1, s1) /\ up'[c1][s1] = Tail(up[c1][s1])
    BY <2>1, ArrivesEffect DEF PutAt
  <2> QED
    BY <1>10, <2>2 DEF PutMissing, ctxVars, ServerMove, ContextTypes, StreamTypes
<1>11. ASSUME NEW c1 \in Nodes, NEW s1 \in Nodes, RequestResult(c1, s1)
      PROVE  ServerMove(c, s)
  BY <1>11
  DEF RequestResult, ServerMove
<1>12. ASSUME NEW c1 \in Nodes, NEW s1 \in Nodes, RequestLast(c1, s1)
      PROVE  ServerMove(c, s)
  <2>1. Arrives(c1, s1, "last")
    BY <1>12 DEF RequestLast
  <2>2. up[c1][s1] # <<>> /\ Head(up[c1][s1]).is = "last"
    BY <2>1, ArrivesEffect
  <2>3. CASE c = c1 /\ s = s1
    BY <1>12, <2>2, <2>3 DEF RequestLast, ServerMove, StreamTypes
  <2>4. CASE ~ (c = c1 /\ s = s1)
    BY <1>12, <2>4 DEF RequestLast, ServerMove, StreamTypes
  <2> QED BY <2>3, <2>4
<1>13. ASSUME NEW c1 \in Nodes, NEW s1 \in Nodes, RequestDropped(c1, s1)
      PROVE  ServerMove(c, s)
  BY <1>13
  DEF RequestDropped, ServerMove
<1>14. ASSUME NEW c1 \in Nodes, NEW s1 \in Nodes, ResponseFirst(c1, s1)
      PROVE  ServerMove(c, s)
  BY <1>14
  DEF ResponseFirst, ServerMove
<1>15. ASSUME NEW c1 \in Nodes, NEW s1 \in Nodes, ResponseResult(c1, s1)
      PROVE  ServerMove(c, s)
  BY <1>15
  DEF ResponseResult, ServerMove
<1>16. ASSUME NEW c1 \in Nodes, NEW s1 \in Nodes, ResponseLast(c1, s1)
      PROVE  ServerMove(c, s)
  BY <1>16
  DEF ResponseLast, ServerMove
<1>17. ASSUME NEW c1 \in Nodes, NEW s1 \in Nodes, ResponseDropped(c1, s1)
      PROVE  ServerMove(c, s)
  BY <1>17
  DEF ResponseDropped, ServerMove
<1>18. ASSUME NEW c1 \in Nodes, NEW s1 \in Nodes, RefusedAlone(c1, s1)
      PROVE  ServerMove(c, s)
  BY <1>18
  DEF RefusedAlone, ServerMove
<1>19. ASSUME NEW c1 \in Nodes, NEW s1 \in Nodes, RefusedInCompany(c1, s1)
      PROVE  ServerMove(c, s)
  BY <1>19
  DEF RefusedInCompany, ServerMove
<1> QED BY <1>1, <1>2, <1>3, <1>4, <1>5, <1>6, <1>7, <1>8, <1>9, <1>10, <1>11,
       <1>12, <1>13, <1>14, <1>15, <1>16, <1>17, <1>18, <1>19, <1>20, NextCases

LEMMA ClientStep ==
  ASSUME TypeOK, Next
  PROVE  \A c \in Nodes, s \in Nodes : ClientMove(c, s)
<1> USE DEF TypeOK
<1> SUFFICES ASSUME NEW c \in Nodes, NEW s \in Nodes PROVE ClientMove(c, s)
  OBVIOUS
<1>1. CASE StartPrimary
  BY <1>1
  DEF StartPrimary, streamVars, ClientMove
<1>2. ASSUME NEW n1 \in Nodes, StartSecondary(n1) PROVE ClientMove(c, s)
  <2>1. CASE c = n1 /\ s = Primary
    <3>1. CallNew(c, s)
      BY <1>2, <2>1, NodeAssumption
      DEF StartSecondary, CallNew, ContextTypes, StreamTypes
    <3> QED BY <3>1 DEF ClientMove
  <2>2. CASE ~ (c = n1 /\ s = Primary)
    BY <1>2, <2>2, NodeAssumption
    DEF StartSecondary, ClientMove, StreamTypes
  <2> QED BY <2>1, <2>2
<1>3. ASSUME NEW n1 \in Nodes, Finish(n1) PROVE ClientMove(c, s)
  BY <1>3
  DEF Finish, streamVars, ClientMove
<1>20. ASSUME NEW n1 \in Nodes, Fail(n1) PROVE ClientMove(c, s)
  BY <1>20
  DEF Fail, streamVars, ClientMove
<1>4. ASSUME NEW n1 \in Nodes, Update(n1) PROVE ClientMove(c, s)
  BY <1>4
  DEF Update, ClientMove
<1>5. ASSUME NEW n1 \in Nodes, End(n1) PROVE ClientMove(c, s)
  BY <1>5 DEF End, ClientMove, ContextTypes, StreamTypes
<1>6. ASSUME NEW c1 \in Nodes, NEW s1 \in Nodes, Connected(c1, s1)
      PROVE  ClientMove(c, s)
  BY <1>6 DEF Connected, ClientMove, StreamTypes
<1>7. ASSUME NEW c1 \in Nodes, NEW s1 \in Nodes, ConnectFails(c1, s1)
      PROVE  ClientMove(c, s)
  BY <1>7 DEF ConnectFails, ClientMove, StreamTypes
<1>8. ASSUME NEW c1 \in Nodes, NEW s1 \in Nodes, Lose(c1, s1)
      PROVE  ClientMove(c, s)
  BY <1>8
  DEF Lose, ClientMove
<1>9. ASSUME NEW c1 \in Nodes, NEW s1 \in Nodes, PutFound(c1, s1)
      PROVE  ClientMove(c, s)
  BY <1>9
  DEF PutFound, ClientMove
<1>10. ASSUME NEW c1 \in Nodes, NEW s1 \in Nodes, PutMissing(c1, s1)
      PROVE  ClientMove(c, s)
  BY <1>10
  DEF PutMissing, ClientMove
<1>11. ASSUME NEW c1 \in Nodes, NEW s1 \in Nodes, RequestResult(c1, s1)
      PROVE  ClientMove(c, s)
  BY <1>11
  DEF RequestResult, ClientMove
<1>12. ASSUME NEW c1 \in Nodes, NEW s1 \in Nodes, RequestLast(c1, s1)
      PROVE  ClientMove(c, s)
  BY <1>12
  DEF RequestLast, ClientMove
<1>13. ASSUME NEW c1 \in Nodes, NEW s1 \in Nodes, RequestDropped(c1, s1)
      PROVE  ClientMove(c, s)
  BY <1>13
  DEF RequestDropped, ClientMove
<1>14. ASSUME NEW c1 \in Nodes, NEW s1 \in Nodes, ResponseFirst(c1, s1)
      PROVE  ClientMove(c, s)
  <2> DEFINE m == Head(down[c1][s1])
  <2>1. Returns(c1, s1, "created")
    BY <1>14 DEF ResponseFirst
  <2>2. m.peers \in SUBSET Nodes
    BY <2>1, ReturnsEffect
  <2>3. CASE c = c1 /\ s \in NewPeers(c1, m)
    <3>1. CallNew(c, s)
      <4>1. peers'[c] = Merged(c, m) /\ s \in Merged(c, m) /\ s \notin peers[c]
        BY <1>14, <2>2, <2>3
        DEF ResponseFirst, NewPeers, Merged, ContextTypes
      <4>2. client'[c][s] = "connecting" /\ call'[c][s] = Merged(c, m)
        BY <1>14, <2>3 DEF ResponseFirst, StreamTypes
      <4>3. ctx[c] = "live" /\ client[c][s1] = "open"
        BY <1>14, <2>3 DEF ResponseFirst, InList
      <4> QED BY <4>1, <4>2, <4>3 DEF CallNew
    <3> QED BY <3>1 DEF ClientMove
  <2>4. CASE ~ (c = c1 /\ s \in NewPeers(c1, m))
    BY <1>14, <2>4 DEF ResponseFirst, ClientMove, StreamTypes
  <2> QED BY <2>3, <2>4
<1>15. ASSUME NEW c1 \in Nodes, NEW s1 \in Nodes, ResponseResult(c1, s1)
      PROVE  ClientMove(c, s)
  BY <1>15
  DEF ResponseResult, ClientMove
<1>16. ASSUME NEW c1 \in Nodes, NEW s1 \in Nodes, ResponseLast(c1, s1)
      PROVE  ClientMove(c, s)
  <2>1. Returns(c1, s1, "last")
    BY <1>16 DEF ResponseLast
  <2>2. /\ down[c1][s1] # <<>> /\ Head(down[c1][s1]).is = "last"
        /\ down'[c1][s1] = Tail(down[c1][s1])
    BY <2>1, ReturnsEffect
  <2> QED BY <1>16, <2>2 DEF ResponseLast, ClientMove, StreamTypes
<1>17. ASSUME NEW c1 \in Nodes, NEW s1 \in Nodes, ResponseDropped(c1, s1)
      PROVE  ClientMove(c, s)
  <2>1. PICK kind \in {"created", "result", "last", "missing"} :
          /\ Returns(c1, s1, kind)
          /\ client' = [client EXCEPT ![c1][s1] =
               IF @ = "ended" /\ kind \in {"created", "result"}
               THEN @ ELSE "closed"]
    BY <1>17 DEF ResponseDropped
  <2>2. down[c1][s1] # <<>> /\ down'[c1][s1] = Tail(down[c1][s1])
    BY <2>1, ReturnsEffect
  <2>3. ~ InList(c1, s1) /\ call' = call
    BY <1>17 DEF ResponseDropped
  <2> QED BY <2>1, <2>2, <2>3 DEF ClientMove, StreamTypes
<1>18. ASSUME NEW c1 \in Nodes, NEW s1 \in Nodes, RefusedAlone(c1, s1)
      PROVE  ClientMove(c, s)
  BY <1>18
  DEF RefusedAlone, ClientMove
<1>19. ASSUME NEW c1 \in Nodes, NEW s1 \in Nodes, RefusedInCompany(c1, s1)
      PROVE  ClientMove(c, s)
  <2>1. Returns(c1, s1, "missing")
    BY <1>19 DEF RefusedInCompany
  <2>2. /\ down[c1][s1] # <<>> /\ Head(down[c1][s1]).is = "missing"
        /\ down'[c1][s1] = Tail(down[c1][s1])
    BY <2>1, ReturnsEffect
  <2> QED BY <1>19, <2>2 DEF RefusedInCompany, ClientMove, StreamTypes
<1> QED BY <1>1, <1>2, <1>3, <1>4, <1>5, <1>6, <1>7, <1>8, <1>9, <1>10, <1>11,
       <1>12, <1>13, <1>14, <1>15, <1>16, <1>17, <1>18, <1>19, <1>20, NextCases

LEMMA CtxStep ==
  ASSUME TypeOK, Next
  PROVE  \A n \in Nodes : CtxMove(n)
<1> USE DEF TypeOK
<1> SUFFICES ASSUME NEW n \in Nodes PROVE CtxMove(n)
  OBVIOUS
<1>1. CASE StartPrimary
  BY <1>1, NodeAssumption DEF StartPrimary, CtxMove, ContextTypes
<1>2. ASSUME NEW n1 \in Nodes, StartSecondary(n1) PROVE CtxMove(n)
  BY <1>2, NodeAssumption DEF StartSecondary, CtxMove, ContextTypes
<1>3. ASSUME NEW n1 \in Nodes, Finish(n1) PROVE CtxMove(n)
  BY <1>3
  DEF Finish, CtxMove
<1>20. ASSUME NEW n1 \in Nodes, Fail(n1) PROVE CtxMove(n)
  BY <1>20
  DEF Fail, CtxMove
<1>4. ASSUME NEW n1 \in Nodes, Update(n1) PROVE CtxMove(n)
  BY <1>4
  DEF Update, CtxMove
<1>5. ASSUME NEW n1 \in Nodes, End(n1) PROVE CtxMove(n)
  BY <1>5 DEF End, CtxMove, ContextTypes, StreamTypes
<1>6. ASSUME NEW c1 \in Nodes, NEW s1 \in Nodes, Connected(c1, s1)
      PROVE  CtxMove(n)
  BY <1>6
  DEF Connected, ctxVars, CtxMove
<1>7. ASSUME NEW c1 \in Nodes, NEW s1 \in Nodes, ConnectFails(c1, s1)
      PROVE  CtxMove(n)
  BY <1>7
  DEF ConnectFails, ctxVars, CtxMove
<1>8. ASSUME NEW c1 \in Nodes, NEW s1 \in Nodes, Lose(c1, s1)
      PROVE  CtxMove(n)
  BY <1>8
  DEF Lose, ctxVars, CtxMove
<1>9. ASSUME NEW c1 \in Nodes, NEW s1 \in Nodes, PutFound(c1, s1)
      PROVE  CtxMove(n)
  BY <1>9
  DEF PutFound, CtxMove
<1>10. ASSUME NEW c1 \in Nodes, NEW s1 \in Nodes, PutMissing(c1, s1)
      PROVE  CtxMove(n)
  BY <1>10
  DEF PutMissing, ctxVars, CtxMove
<1>11. ASSUME NEW c1 \in Nodes, NEW s1 \in Nodes, RequestResult(c1, s1)
      PROVE  CtxMove(n)
  BY <1>11
  DEF RequestResult, CtxMove
<1>12. ASSUME NEW c1 \in Nodes, NEW s1 \in Nodes, RequestLast(c1, s1)
      PROVE  CtxMove(n)
  BY <1>12
  DEF RequestLast, CtxMove
<1>13. ASSUME NEW c1 \in Nodes, NEW s1 \in Nodes, RequestDropped(c1, s1)
      PROVE  CtxMove(n)
  BY <1>13
  DEF RequestDropped, ctxVars, CtxMove
<1>14. ASSUME NEW c1 \in Nodes, NEW s1 \in Nodes, ResponseFirst(c1, s1)
      PROVE  CtxMove(n)
  BY <1>14
  DEF ResponseFirst, CtxMove
<1>15. ASSUME NEW c1 \in Nodes, NEW s1 \in Nodes, ResponseResult(c1, s1)
      PROVE  CtxMove(n)
  BY <1>15
  DEF ResponseResult, CtxMove
<1>16. ASSUME NEW c1 \in Nodes, NEW s1 \in Nodes, ResponseLast(c1, s1)
      PROVE  CtxMove(n)
  BY <1>16
  DEF ResponseLast, CtxMove
<1>17. ASSUME NEW c1 \in Nodes, NEW s1 \in Nodes, ResponseDropped(c1, s1)
      PROVE  CtxMove(n)
  BY <1>17
  DEF ResponseDropped, ctxVars, CtxMove
<1>18. ASSUME NEW c1 \in Nodes, NEW s1 \in Nodes, RefusedAlone(c1, s1)
      PROVE  CtxMove(n)
  BY <1>18
  DEF RefusedAlone, CtxMove
<1>19. ASSUME NEW c1 \in Nodes, NEW s1 \in Nodes, RefusedInCompany(c1, s1)
      PROVE  CtxMove(n)
  BY <1>19
  DEF RefusedInCompany, ctxVars, CtxMove
<1> QED BY <1>1, <1>2, <1>3, <1>4, <1>5, <1>6, <1>7, <1>8, <1>9, <1>10, <1>11,
       <1>12, <1>13, <1>14, <1>15, <1>16, <1>17, <1>18, <1>19, <1>20, NextCases

LEMMA PeersStep ==
  ASSUME TypeOK, Next
  PROVE  \A n \in Nodes : PeersMove(n)
<1> USE DEF TypeOK
<1> SUFFICES ASSUME NEW n \in Nodes PROVE PeersMove(n)
  OBVIOUS
<1>1. CASE StartPrimary
  BY <1>1, NodeAssumption DEF StartPrimary, PeersMove, ContextTypes
<1>2. ASSUME NEW n1 \in Nodes, StartSecondary(n1) PROVE PeersMove(n)
  BY <1>2, NodeAssumption DEF StartSecondary, PeersMove, ContextTypes
<1>3. ASSUME NEW n1 \in Nodes, Finish(n1) PROVE PeersMove(n)
  BY <1>3
  DEF Finish, PeersMove
<1>20. ASSUME NEW n1 \in Nodes, Fail(n1) PROVE PeersMove(n)
  BY <1>20
  DEF Fail, PeersMove
<1>4. ASSUME NEW n1 \in Nodes, Update(n1) PROVE PeersMove(n)
  BY <1>4
  DEF Update, PeersMove
<1>5. ASSUME NEW n1 \in Nodes, End(n1) PROVE PeersMove(n)
  BY <1>5
  DEF End, PeersMove
<1>6. ASSUME NEW c1 \in Nodes, NEW s1 \in Nodes, Connected(c1, s1)
      PROVE  PeersMove(n)
  BY <1>6
  DEF Connected, ctxVars, PeersMove
<1>7. ASSUME NEW c1 \in Nodes, NEW s1 \in Nodes, ConnectFails(c1, s1)
      PROVE  PeersMove(n)
  BY <1>7
  DEF ConnectFails, ctxVars, PeersMove
<1>8. ASSUME NEW c1 \in Nodes, NEW s1 \in Nodes, Lose(c1, s1)
      PROVE  PeersMove(n)
  BY <1>8
  DEF Lose, ctxVars, PeersMove
<1>9. ASSUME NEW c1 \in Nodes, NEW s1 \in Nodes, PutFound(c1, s1)
      PROVE  PeersMove(n)
  <2>1. Arrives(c1, s1, "put")
    BY <1>9 DEF PutFound
  <2>2. PutAt(c1, s1)
    BY <2>1, ArrivesEffect DEF PutAt
  <2>3. CASE n = s1
    <3> DEFINE m == Head(up[c1][s1])
               k == Created(Merged(s1, m), known[s1])
    <3>1. peers'[n] = peers[n] \union m.peers /\ server'[c1][n] = "open"
      BY <1>9, <2>3 DEF PutFound, Merged, ContextTypes, StreamTypes
    <3>2. peers'[n] \ (peers[n] \union {c1}) \subseteq told'[n]
      BY <1>9, <2>3, <3>1 DEF PutFound, NewPeers, Merged, ContextTypes
    <3>3. ASSUME ~ lost[c1][n]
          PROVE  \E j \in Range(down'[c1][n]) :
                   j.is = "created" /\ j.peers = peers'[n]
      <4>1. m.peers \in SUBSET Nodes
        BY <2>1, ArrivesEffect
      <4>2. k \in Chunks
        BY <4>1, ChunkTypes DEF Merged, ContextTypes
      <4>3. down'[c1][n] = Append(down[c1][n], k)
        BY <1>9, <2>3, <3>3 DEF PutFound, Sent, StreamTypes
      <4>4. down[c1][n] \in Seq(Chunks)
        BY DEF StreamTypes
      <4>5. k \in Range(down'[c1][n])
        BY <4>2, <4>3, <4>4, AppendRange
      <4>6. k.is = "created" /\ k.peers = peers'[n]
        BY <2>3, <3>1 DEF Created, Merged
      <4> QED BY <4>5, <4>6
    <3>4. ToldBy(n, c1)
      BY <2>2, <2>3, <3>1, <3>2, <3>3 DEF ToldBy
    <3> QED BY <1>9, <2>3, <3>4 DEF PutFound, PeersMove
  <2>4. CASE n # s1
    BY <1>9, <2>4 DEF PutFound, PeersMove, ContextTypes
  <2> QED BY <2>3, <2>4
<1>10. ASSUME NEW c1 \in Nodes, NEW s1 \in Nodes, PutMissing(c1, s1)
      PROVE  PeersMove(n)
  BY <1>10
  DEF PutMissing, ctxVars, PeersMove
<1>11. ASSUME NEW c1 \in Nodes, NEW s1 \in Nodes, RequestResult(c1, s1)
      PROVE  PeersMove(n)
  BY <1>11
  DEF RequestResult, PeersMove
<1>12. ASSUME NEW c1 \in Nodes, NEW s1 \in Nodes, RequestLast(c1, s1)
      PROVE  PeersMove(n)
  BY <1>12
  DEF RequestLast, PeersMove
<1>13. ASSUME NEW c1 \in Nodes, NEW s1 \in Nodes, RequestDropped(c1, s1)
      PROVE  PeersMove(n)
  BY <1>13
  DEF RequestDropped, ctxVars, PeersMove
<1>14. ASSUME NEW c1 \in Nodes, NEW s1 \in Nodes, ResponseFirst(c1, s1)
      PROVE  PeersMove(n)
  <2>1. Returns(c1, s1, "created")
    BY <1>14 DEF ResponseFirst
  <2>2. down[c1][s1] # <<>> /\ Head(down[c1][s1]).is = "created"
    BY <2>1, ReturnsEffect
  <2>3. CASE n = c1
    <3>2. peers'[n] = Merged(n, Head(down[n][s1]))
      BY <1>14, <2>3 DEF ResponseFirst, ContextTypes
    <3>3. \A p \in peers'[n] \ peers[n] : client'[n][p] = "connecting"
      <4>1. \A p \in NewPeers(n, Head(down[n][s1])) \intersect Nodes :
              client'[n][p] = "connecting"
        BY <1>14, <2>3 DEF ResponseFirst, StreamTypes
      <4>2. peers'[n] \in SUBSET Nodes
        BY TypeStep DEF ContextTypes
      <4> QED BY <3>2, <4>1, <4>2 DEF NewPeers
    <3>1. ToldBy(n, s1)
      BY <1>14, <2>2, <2>3, <3>2, <3>3 DEF ResponseFirst, Merged, ToldBy
    <3> QED BY <1>14, <2>3, <3>1 DEF ResponseFirst, InList, PeersMove
  <2>4. CASE n # c1
    BY <1>14, <2>4 DEF ResponseFirst, PeersMove, ContextTypes
  <2> QED BY <2>3, <2>4
<1>15. ASSUME NEW c1 \in Nodes, NEW s1 \in Nodes, ResponseResult(c1, s1)
      PROVE  PeersMove(n)
  BY <1>15
  DEF ResponseResult, PeersMove
<1>16. ASSUME NEW c1 \in Nodes, NEW s1 \in Nodes, ResponseLast(c1, s1)
      PROVE  PeersMove(n)
  BY <1>16
  DEF ResponseLast, PeersMove
<1>17. ASSUME NEW c1 \in Nodes, NEW s1 \in Nodes, ResponseDropped(c1, s1)
      PROVE  PeersMove(n)
  BY <1>17
  DEF ResponseDropped, ctxVars, PeersMove
<1>18. ASSUME NEW c1 \in Nodes, NEW s1 \in Nodes, RefusedAlone(c1, s1)
      PROVE  PeersMove(n)
  BY <1>18
  DEF RefusedAlone, PeersMove
<1>19. ASSUME NEW c1 \in Nodes, NEW s1 \in Nodes, RefusedInCompany(c1, s1)
      PROVE  PeersMove(n)
  BY <1>19
  DEF RefusedInCompany, ctxVars, PeersMove
<1> QED BY <1>1, <1>2, <1>3, <1>4, <1>5, <1>6, <1>7, <1>8, <1>9, <1>10, <1>11,
       <1>12, <1>13, <1>14, <1>15, <1>16, <1>17, <1>18, <1>19, <1>20, NextCases

-----------------------------------------------------------------------------
(* Who knows whom.                                                         *)

Early(c, s) == client[c][s] \in {"none", "connecting", "failed"}

\* A started context knows itself and the primary; only started contexts are
\* known.
KnowsStarted ==
  /\ \A n \in Nodes : ctx[n] # "none" => n \in peers[n] /\ Primary \in peers[n]
  /\ \A n \in Nodes : \A m \in peers[n] : ctx[n] # "none" /\ ctx[m] # "none"

\* A context connects to others it knows; before, nothing is under way.
ConnectsToKnown ==
  \A c \in Nodes, s \in Nodes :
    /\ client[c][s] # "none" => s \in peers[c] /\ s # c /\ c # Primary
    /\ Early(c, s) => /\ up[c][s] = <<>> /\ down[c][s] = <<>>
                      /\ server[c][s] = "none"

\* What is sent about peers is known to the sender.
SendsKnown ==
  \A c \in Nodes, s \in Nodes :
    /\ call[c][s] \subseteq peers[c]
    /\ \A m \in Range(up[c][s]) : m.peers \subseteq peers[c]
    /\ \A m \in Range(down[c][s]) : m.peers \subseteq peers[s]

Graph == KnowsStarted /\ ConnectsToKnown /\ SendsKnown

LEMMA InitGraph == Init => Graph
<1>1. Range(<<>>) = {}
  BY EmptyRange
<1> QED
  BY <1>1, NodeAssumption
  DEF Init, Graph, KnowsStarted, ConnectsToKnown, SendsKnown, Early

\* The chunks of a queue after a step: old ones, and the one that is sent.
LEMMA UpRange ==
  ASSUME TypeOK, NEW c \in Nodes, NEW s \in Nodes, UpMove(c, s),
         NEW m \in Range(up'[c][s])
  PROVE  m \in Range(up[c][s]) \/ UpNew(c, s, m)
<1>1. up[c][s] \in Seq(Chunks)
  BY DEF TypeOK, StreamTypes
<1>2. CASE up'[c][s] = up[c][s]
  BY <1>2
<1>3. CASE up'[c][s] = <<>>
  BY <1>3, EmptyRange
<1>4. CASE up[c][s] # <<>> /\ up'[c][s] = Tail(up[c][s])
  BY <1>1, <1>4, TailRange
<1>5. ASSUME NEW k \in Chunks, UpNew(c, s, k), up'[c][s] = Append(up[c][s], k)
      PROVE  m \in Range(up[c][s]) \/ UpNew(c, s, m)
  BY <1>1, <1>5, AppendRange
<1> QED BY <1>2, <1>3, <1>4, <1>5 DEF UpMove

LEMMA DownRange ==
  ASSUME TypeOK, NEW c \in Nodes, NEW s \in Nodes, DownMove(c, s),
         NEW m \in Range(down'[c][s])
  PROVE  m \in Range(down[c][s]) \/ DownNew(c, s, m)
<1>1. down[c][s] \in Seq(Chunks)
  BY DEF TypeOK, StreamTypes
<1>2. CASE down'[c][s] = down[c][s]
  BY <1>2
<1>3. CASE down'[c][s] = <<>>
  BY <1>3, EmptyRange
<1>4. CASE down[c][s] # <<>> /\ down'[c][s] = Tail(down[c][s])
  BY <1>1, <1>4, TailRange
<1>5. ASSUME NEW k \in Chunks, DownNew(c, s, k),
             down'[c][s] = Append(down[c][s], k)
      PROVE  m \in Range(down[c][s]) \/ DownNew(c, s, m)
  BY <1>1, <1>5, AppendRange
<1> QED BY <1>2, <1>3, <1>4, <1>5 DEF DownMove

LEMMA HeadInUp ==
  ASSUME TypeOK, NEW c \in Nodes, NEW s \in Nodes, up[c][s] # <<>>
  PROVE  Head(up[c][s]) \in Range(up[c][s])
BY TailRange DEF TypeOK, StreamTypes

LEMMA HeadInDown ==
  ASSUME TypeOK, NEW c \in Nodes, NEW s \in Nodes, down[c][s] # <<>>
  PROVE  Head(down[c][s]) \in Range(down[c][s])
BY TailRange DEF TypeOK, StreamTypes

\* Only peers of a context are told to another.
LEMMA ToldIsKnown ==
  ASSUME TypeOK, Graph, NEW n \in Nodes, NEW m \in Nodes, ToldBy(n, m)
  PROVE  peers'[n] \subseteq peers[n] \union peers[m]
<1>1. CASE PutAt(m, n) /\ peers'[n] = peers[n] \union Head(up[m][n]).peers
  <2>1. Head(up[m][n]) \in Range(up[m][n])
    BY <1>1, HeadInUp DEF PutAt
  <2> QED BY <1>1, <2>1 DEF Graph, SendsKnown
<1>2. CASE /\ down[n][m] # <<>>
           /\ peers'[n] = peers[n] \union Head(down[n][m]).peers
  <2>1. Head(down[n][m]) \in Range(down[n][m])
    BY <1>2, HeadInDown
  <2> QED BY <1>2, <2>1 DEF Graph, SendsKnown
<1> QED BY <1>1, <1>2 DEF ToldBy

\* Peers are never forgotten, and a context starts and ends once.
LEMMA PeersGrow ==
  ASSUME TypeOK, Graph, NEW n \in Nodes, PeersMove(n), CtxMove(n)
  PROVE  /\ peers[n] \subseteq peers'[n]
         /\ ctx[n] # "none" => ctx'[n] # "none"
         /\ ctx[n] = "ended" => ctx'[n] = "ended"
         /\ ctx'[n] = "none" => ctx[n] = "none"
<1>1. peers[n] \subseteq peers'[n]
  <2>1. CASE peers'[n] = peers[n]
    BY <2>1
  <2>2. CASE ctx[n] = "none"
    <3>1. peers[n] = {}
      BY <2>2 DEF Graph, KnowsStarted
    <3> QED BY <3>1
  <2>3. ASSUME NEW m \in Nodes, ToldBy(n, m) PROVE peers[n] \subseteq peers'[n]
    BY <2>3 DEF ToldBy
  <2> QED BY <2>1, <2>2, <2>3 DEF PeersMove
<1>2. /\ ctx[n] # "none" => ctx'[n] # "none"
      /\ ctx[n] = "ended" => ctx'[n] = "ended"
      /\ ctx'[n] = "none" => ctx[n] = "none"
  BY DEF CtxMove
<1> QED BY <1>1, <1>2

LEMMA GraphStep ==
  ASSUME TypeOK, Graph, Next
  PROVE  Graph'
<1> USE NodeAssumption
<1>1. \A n \in Nodes : PeersMove(n) /\ CtxMove(n)
  BY PeersStep, CtxStep
<1>2. \A c \in Nodes, s \in Nodes :
        /\ UpMove(c, s) /\ DownMove(c, s)
        /\ ClientMove(c, s) /\ ServerMove(c, s)
  BY UpStep, DownStep, ClientStep, ServerStep
<1>3. \A n \in Nodes : /\ peers[n] \subseteq peers'[n]
                       /\ ctx[n] # "none" => ctx'[n] # "none"
  BY <1>1, PeersGrow
<1>4. \A n \in Nodes : peers[n] \in SUBSET Nodes /\ peers'[n] \in SUBSET Nodes
  BY TypeStep DEF TypeOK, ContextTypes
<1>5. KnowsStarted'
  <2>1. ASSUME NEW n \in Nodes, ctx'[n] # "none"
        PROVE  n \in peers'[n] /\ Primary \in peers'[n]
    <3>1. CASE ctx[n] # "none"
      BY <1>3, <3>1 DEF Graph, KnowsStarted
    <3>2. CASE ctx[n] = "none"
      BY <1>1, <2>1, <3>2 DEF CtxMove
    <3> QED BY <3>1, <3>2
  <2>2. ASSUME NEW n \in Nodes, NEW m \in peers'[n]
        PROVE  ctx'[n] # "none" /\ ctx'[m] # "none"
    <3>1. CASE m \in peers[n]
      BY <1>3, <1>4, <3>1 DEF Graph, KnowsStarted
    <3>2. CASE ctx[n] = "none" /\ ctx'[n] = "live" /\ peers'[n] = {Primary, n}
      <4>1. n = Primary \/ ctx[Primary] # "none"
        BY <1>1, <3>2 DEF CtxMove
      <4> QED BY <1>3, <3>2, <4>1
    <3>3. ASSUME NEW k \in Nodes, ToldBy(n, k), ctx'[n] = "live", m \notin peers[n]
          PROVE  ctx'[n] # "none" /\ ctx'[m] # "none"
      <4>1. m \in peers[k]
        BY <3>3, ToldIsKnown
      <4> QED BY <1>3, <1>4, <3>3, <4>1 DEF Graph, KnowsStarted
    <3> QED BY <1>1, <3>1, <3>2, <3>3 DEF PeersMove
  <2> QED BY <2>1, <2>2 DEF KnowsStarted
<1>6. ASSUME NEW c \in Nodes, NEW s \in Nodes, CallNew(c, s)
      PROVE  client[c][s] = "none" /\ s # c /\ c # Primary
  <2>1. CASE s = Primary /\ c # Primary /\ ctx[c] = "none"
    BY <2>1 DEF Graph, KnowsStarted, ConnectsToKnown
  <2>2. ASSUME ctx[c] = "live", s \notin peers[c],
               NEW q \in Nodes, client[c][q] = "open"
        PROVE  client[c][s] = "none" /\ s # c /\ c # Primary
    BY <2>2 DEF Graph, KnowsStarted, ConnectsToKnown
  <2> QED BY <1>6, <2>1, <2>2 DEF CallNew
<1>7. ConnectsToKnown'
  <2> SUFFICES ASSUME NEW c \in Nodes, NEW s \in Nodes
      PROVE  /\ client'[c][s] # "none" => s \in peers'[c] /\ s # c /\ c # Primary
             /\ Early(c, s)' => /\ up'[c][s] = <<>> /\ down'[c][s] = <<>>
                                /\ server'[c][s] = "none"
    BY DEF ConnectsToKnown
  <2>1. ASSUME client'[c][s] # "none"
        PROVE  s \in peers'[c] /\ s # c /\ c # Primary
    <3>1. CASE client[c][s] # "none"
      BY <1>3, <3>1 DEF Graph, ConnectsToKnown
    <3>2. CASE CallNew(c, s)
      BY <1>6, <3>2 DEF CallNew
    <3>3. client[c][s] = "none" /\ ~ CallNew(c, s) => down[c][s] # <<>>
      BY <1>2, <2>1 DEF ClientMove
    <3> QED BY <3>1, <3>2, <3>3 DEF Graph, ConnectsToKnown, Early
  <2>2. ASSUME Early(c, s)' PROVE Early(c, s)
    BY <1>2, <1>6, <2>2 DEF ClientMove, Early
  <2>3. ASSUME Early(c, s)'
        PROVE  /\ up'[c][s] = <<>> /\ down'[c][s] = <<>>
               /\ server'[c][s] = "none"
    <3>1. /\ up[c][s] = <<>> /\ down[c][s] = <<>> /\ server[c][s] = "none"
      BY <2>2, <2>3 DEF Graph, ConnectsToKnown
    <3>2. client[c][s] # "open" /\ client'[c][s] # "open"
      BY <2>2, <2>3 DEF Early
    <3>3. up'[c][s] = <<>>
      BY <1>2, <3>1, <3>2 DEF UpMove, UpNew
    <3>4. down'[c][s] = <<>>
      BY <1>2, <3>1 DEF DownMove, DownNew, PutAt
    <3>5. server'[c][s] = "none"
      BY <1>2, <3>1 DEF ServerMove, PutAt
    <3> QED BY <3>3, <3>4, <3>5
  <2> QED BY <2>1, <2>3
<1>8. SendsKnown'
  <2> SUFFICES ASSUME NEW c \in Nodes, NEW s \in Nodes
      PROVE  /\ call'[c][s] \subseteq peers'[c]
             /\ \A m \in Range(up'[c][s]) : m.peers \subseteq peers'[c]
             /\ \A m \in Range(down'[c][s]) : m.peers \subseteq peers'[s]
    BY DEF SendsKnown
  <2>1. call[c][s] \subseteq peers[c]
    BY DEF Graph, SendsKnown
  <2>2. call'[c][s] \subseteq peers'[c]
    BY <1>2, <1>3, <2>1 DEF ClientMove, CallNew
  <2>3. ASSUME NEW m \in Range(up'[c][s]) PROVE m.peers \subseteq peers'[c]
    <3>1. m \in Range(up[c][s]) \/ UpNew(c, s, m)
      BY <1>2, UpRange
    <3>2. CASE m \in Range(up[c][s])
      BY <1>3, <3>2 DEF Graph, SendsKnown
    <3>3. CASE UpNew(c, s, m)
      <4>1. m.peers = call[c][s] \/ m.peers = {}
        BY <3>3 DEF UpNew, Put, Result, Last
      <4> QED BY <1>3, <2>1, <4>1
    <3> QED BY <3>1, <3>2, <3>3
  <2>4. ASSUME NEW m \in Range(down'[c][s]) PROVE m.peers \subseteq peers'[s]
    <3>1. m \in Range(down[c][s]) \/ DownNew(c, s, m)
      BY <1>2, DownRange
    <3>2. CASE m \in Range(down[c][s])
      BY <1>3, <3>2 DEF Graph, SendsKnown
    <3>3. CASE DownNew(c, s, m)
      <4>1. m.peers = peers'[s] \/ m.peers = {}
        BY <3>3 DEF DownNew, Created, Missing, Result, Last
      <4> QED BY <4>1
    <3> QED BY <3>1, <3>2, <3>3
  <2> QED BY <2>2, <2>3, <2>4
<1> QED BY <1>5, <1>7, <1>8 DEF Graph

-----------------------------------------------------------------------------
(* The order of things on a stream.                                        *)

\* A stream begins with a put, which is handled once.
PutFirst(c, s) ==
  /\ OnlyFirst(up[c][s], "put")
  /\ \A m \in Range(up[c][s]) : m.is = "put" => server[c][s] = "none"
  /\ server[c][s] = "none" => down[c][s] = <<>> /\ client[c][s] # "closed"

\* Either it is answered by a context, or by none that will ever be again.
Answer(c, s) ==
  /\ server[c][s] = "open" => ctx[s] = "live"
  /\ server[c][s] = "closed" =>
       ctx[s] = "ended" /\ \A m \in Range(down[c][s]) : m.is = "missing"
  /\ \A m \in Range(down[c][s]) : m.is = "missing" => server[c][s] = "closed"

\* The first chunk of the answer is taken by the context that asked.
CreatedFirst(c, s) ==
  /\ OnlyFirst(down[c][s], "created")
  /\ client[c][s] = "ended" => ctx[c] = "ended"
  /\ \A m \in Range(down[c][s]) :
       m.is = "created" /\ ctx[c] = "live" => client[c][s] = "open"

Order ==
  \A c \in Nodes, s \in Nodes :
    PutFirst(c, s) /\ Answer(c, s) /\ CreatedFirst(c, s)

LEMMA InitOrder == Init => Order
<1>1. Range(<<>>) = {}
  BY EmptyRange
<1> QED
  BY <1>1 DEF Init, Order, PutFirst, Answer, CreatedFirst, OnlyFirst

LEMMA OrderStep ==
  ASSUME TypeOK, Graph, Order, Next
  PROVE  Order'
<1> SUFFICES ASSUME NEW c \in Nodes, NEW s \in Nodes
    PROVE  PutFirst(c, s)' /\ Answer(c, s)' /\ CreatedFirst(c, s)'
  BY DEF Order
<1>1. /\ UpMove(c, s) /\ DownMove(c, s) /\ ClientMove(c, s) /\ ServerMove(c, s)
      /\ CtxMove(c) /\ CtxMove(s)
  BY UpStep, DownStep, ClientStep, ServerStep, CtxStep
<1>2. PutFirst(c, s) /\ Answer(c, s) /\ CreatedFirst(c, s)
  BY DEF Order
<1>3. up[c][s] \in Seq(Chunks) /\ down[c][s] \in Seq(Chunks)
  BY DEF TypeOK, StreamTypes
\* What the graph says of this stream.
<1>4. /\ client[c][s] # "none" => ctx[c] # "none" /\ ctx[s] # "none"
      /\ Early(c, s) => /\ up[c][s] = <<>> /\ down[c][s] = <<>>
                        /\ server[c][s] = "none"
  BY DEF Graph, KnowsStarted, ConnectsToKnown
<1>5. PutAt(c, s) => /\ server[c][s] = "none" /\ down[c][s] = <<>>
                     /\ client[c][s] \in {"open", "ended"}
  <2>1. SUFFICES ASSUME PutAt(c, s)
                 PROVE  /\ server[c][s] = "none" /\ down[c][s] = <<>>
                        /\ client[c][s] \in {"open", "ended"}
    OBVIOUS
  <2>2. Head(up[c][s]) \in Range(up[c][s])
    BY <2>1, HeadInUp DEF PutAt
  <2>3. server[c][s] = "none" /\ down[c][s] = <<>> /\ client[c][s] # "closed"
    BY <1>2, <2>1, <2>2 DEF PutFirst, PutAt
  <2>4. ~ Early(c, s)
    BY <1>4, <2>1 DEF PutAt
  <2> QED BY <2>3, <2>4 DEF Early, TypeOK, StreamTypes
<1>6. client[c][s] # "none" => ~ CallNew(c, s)
  BY DEF CallNew, Graph, KnowsStarted, ConnectsToKnown
<1>7. PutFirst(c, s)'
  <2>1. OnlyFirst(up'[c][s], "put")
    <3>1. CASE up'[c][s] = up[c][s]
      BY <1>2, <3>1 DEF PutFirst
    <3>2. CASE up'[c][s] = <<>>
      BY <3>2 DEF OnlyFirst
    <3>3. CASE up[c][s] # <<>> /\ up'[c][s] = Tail(up[c][s])
      <4>1. \A m \in Range(Tail(up[c][s])) : m.is # "put"
        BY <1>2, <3>3 DEF PutFirst, OnlyFirst
      <4>2. Tail(up[c][s]) \in Seq(Chunks)
        BY <1>3, <3>3, TailRange
      <4> QED BY <3>3, <4>1, <4>2, NoneOnlyFirst
    <3>4. ASSUME NEW m \in Chunks, UpNew(c, s, m),
                 up'[c][s] = Append(up[c][s], m)
          PROVE  OnlyFirst(up'[c][s], "put")
      <4>1. up[c][s] = <<>> \/ m.is # "put"
        BY <1>4, <3>4 DEF UpNew, Early, Result, Last
      <4>2. OnlyFirst(up[c][s], "put")
        BY <1>2 DEF PutFirst
      <4> QED BY <1>3, <3>4, <4>1, <4>2, AppendOnlyFirst
    <3> QED BY <1>1, <3>1, <3>2, <3>3, <3>4 DEF UpMove
  <2>2. ASSUME NEW m \in Range(up'[c][s]), m.is = "put"
        PROVE  server'[c][s] = "none"
    <3>1. m \in Range(up[c][s]) \/ UpNew(c, s, m)
      BY <1>1, UpRange
    <3>2. CASE m \in Range(up[c][s])
      <4>1. server[c][s] = "none"
        BY <1>2, <2>2, <3>2 DEF PutFirst
      <4>2. ~ (PutAt(c, s) /\ up'[c][s] = Tail(up[c][s]))
        BY <1>2, <2>2 DEF PutFirst, OnlyFirst, PutAt
      <4> QED BY <1>1, <4>1, <4>2 DEF ServerMove
    <3>3. CASE UpNew(c, s, m)
      <4>1. client[c][s] = "connecting"
        BY <2>2, <3>3 DEF UpNew, Result, Last
      <4>2. up[c][s] = <<>> /\ server[c][s] = "none"
        BY <1>4, <4>1 DEF Early
      <4> QED BY <1>1, <4>2 DEF ServerMove, PutAt
    <3> QED BY <3>1, <3>2, <3>3
  <2>3. ASSUME server'[c][s] = "none"
        PROVE  down'[c][s] = <<>> /\ client'[c][s] # "closed"
    <3>1. server[c][s] = "none"
      BY <1>1, <2>3 DEF ServerMove
    <3>2. down[c][s] = <<>> /\ client[c][s] # "closed"
      BY <1>2, <3>1 DEF PutFirst
    <3>3. down'[c][s] = <<>>
      BY <1>1, <2>3, <3>1, <3>2 DEF DownMove, DownNew
    <3>4. client'[c][s] # "closed"
      BY <1>1, <3>2 DEF ClientMove, CallNew
    <3> QED BY <3>3, <3>4
  <2> QED BY <2>1, <2>2, <2>3 DEF PutFirst
<1>8. Answer(c, s)'
  <2>1. ASSUME server'[c][s] = "open" PROVE ctx'[s] = "live"
    <3>1. CASE server[c][s] = "open"
      <4>1. ctx[s] = "live"
        BY <1>2, <3>1 DEF Answer
      <4> QED BY <1>1, <2>1, <4>1 DEF CtxMove
    <3>2. CASE server[c][s] # "open"
      BY <1>1, <2>1, <3>2 DEF ServerMove
    <3> QED BY <3>1, <3>2
  <2>2. ASSUME server'[c][s] = "closed", server[c][s] # "closed"
        PROVE  PutAt(c, s) /\ ctx'[s] = "ended"
    <3>1. PutAt(c, s) /\ ctx[s] # "live" /\ ctx'[s] = ctx[s]
      BY <1>1, <2>2 DEF ServerMove
    <3>2. ctx[s] # "none"
      BY <1>4, <1>5, <3>1
    <3> QED BY <3>1, <3>2 DEF TypeOK, ContextTypes
  <2>3. ASSUME server'[c][s] = "closed" PROVE ctx'[s] = "ended"
    BY <1>1, <1>2, <2>2, <2>3 DEF Answer, CtxMove
  <2>4. ASSUME server[c][s] = "closed" PROVE server'[c][s] = "closed"
    BY <1>1, <1>5, <2>4 DEF ServerMove
  <2>5. ASSUME server'[c][s] = "closed", NEW m \in Range(down'[c][s])
        PROVE  m.is = "missing"
    <3>1. m \in Range(down[c][s]) \/ DownNew(c, s, m)
      BY <1>1, DownRange
    <3>2. CASE m \in Range(down[c][s])
      <4>1. server[c][s] = "closed"
        BY <1>5, <2>2, <2>5, <3>2, EmptyRange
      <4> QED BY <1>2, <3>2, <4>1 DEF Answer
    <3>3. CASE DownNew(c, s, m)
      <4>1. server[c][s] # "open"
        BY <1>5, <2>2, <2>5
      <4> QED BY <2>5, <3>3, <4>1 DEF DownNew, Missing
    <3> QED BY <3>1, <3>2, <3>3
  <2>6. ASSUME NEW m \in Range(down'[c][s]), m.is = "missing"
        PROVE  server'[c][s] = "closed"
    <3>1. m \in Range(down[c][s]) \/ DownNew(c, s, m)
      BY <1>1, DownRange
    <3>2. CASE m \in Range(down[c][s])
      BY <1>2, <2>4, <2>6, <3>2 DEF Answer
    <3>3. CASE DownNew(c, s, m)
      BY <2>6, <3>3 DEF DownNew, Created, Result, Last
    <3> QED BY <3>1, <3>2, <3>3
  <2> QED BY <2>1, <2>3, <2>5, <2>6 DEF Answer
<1>9. CreatedFirst(c, s)'
  <2>1. OnlyFirst(down'[c][s], "created")
    <3>1. CASE down'[c][s] = down[c][s]
      BY <1>2, <3>1 DEF CreatedFirst
    <3>2. CASE down'[c][s] = <<>>
      BY <3>2 DEF OnlyFirst
    <3>3. CASE down[c][s] # <<>> /\ down'[c][s] = Tail(down[c][s])
      <4>1. \A m \in Range(Tail(down[c][s])) : m.is # "created"
        BY <1>2, <3>3 DEF CreatedFirst, OnlyFirst
      <4>2. Tail(down[c][s]) \in Seq(Chunks)
        BY <1>3, <3>3, TailRange
      <4> QED BY <3>3, <4>1, <4>2, NoneOnlyFirst
    <3>4. ASSUME NEW m \in Chunks, DownNew(c, s, m),
                 down'[c][s] = Append(down[c][s], m)
          PROVE  OnlyFirst(down'[c][s], "created")
      <4>1. down[c][s] = <<>> \/ m.is # "created"
        BY <1>5, <3>4 DEF DownNew, Missing, Result, Last
      <4>2. OnlyFirst(down[c][s], "created")
        BY <1>2 DEF CreatedFirst
      <4> QED BY <1>3, <3>4, <4>1, <4>2, AppendOnlyFirst
    <3> QED BY <1>1, <3>1, <3>2, <3>3, <3>4 DEF DownMove
  <2>2. ASSUME client'[c][s] = "ended" PROVE ctx'[c] = "ended"
    <3>1. CASE client[c][s] = "ended"
      BY <1>1, <1>2, <3>1 DEF CreatedFirst, CtxMove
    <3>2. CASE client[c][s] # "ended"
      BY <1>1, <2>2, <3>2 DEF ClientMove, CallNew
    <3> QED BY <3>1, <3>2
  <2>3. ASSUME client[c][s] = "open", ctx'[c] = "live", ctx[c] = "live",
               NEW m \in Range(down'[c][s]), m.is = "created"
        PROVE  client'[c][s] = "open"
    <3>1. ASSUME client'[c][s] = "closed", down[c][s] # <<>>,
                 down'[c][s] = Tail(down[c][s])
          PROVE  FALSE
      BY <1>2, <2>3, <3>1 DEF CreatedFirst, OnlyFirst
    <3> QED BY <1>1, <1>6, <2>3, <3>1 DEF ClientMove
  <2>4. ASSUME NEW m \in Range(down'[c][s]), m.is = "created", ctx'[c] = "live"
        PROVE  client[c][s] = "open" /\ ctx[c] = "live"
    <3>1. m \in Range(down[c][s]) \/ DownNew(c, s, m)
      BY <1>1, DownRange
    <3>2. client[c][s] # "none"
      <4>1. CASE m \in Range(down[c][s])
        BY <1>4, <4>1, EmptyRange DEF Early
      <4>2. CASE DownNew(c, s, m)
        BY <1>5, <2>4, <4>2 DEF DownNew, Missing, Result, Last
      <4> QED BY <3>1, <4>1, <4>2
    <3>3. ctx[c] = "live"
      BY <1>1, <1>4, <2>4, <3>2 DEF CtxMove
    <3>4. CASE m \in Range(down[c][s])
      BY <1>2, <2>4, <3>3, <3>4 DEF CreatedFirst
    <3>5. CASE DownNew(c, s, m)
      <4>1. client[c][s] \in {"open", "ended"}
        BY <1>5, <2>4, <3>5 DEF DownNew, Missing, Result, Last
      <4>2. client[c][s] # "ended"
        BY <1>2, <3>3 DEF CreatedFirst
      <4> QED BY <3>3, <4>1, <4>2
    <3> QED BY <3>1, <3>3, <3>4, <3>5
  <2> QED BY <2>1, <2>2, <2>3, <2>4 DEF CreatedFirst
<1> QED BY <1>7, <1>8, <1>9

-----------------------------------------------------------------------------
(* A context the primary has not answered, or has refused, is known to     *)
(* nobody else.                                                            *)

Unanswered(c) == server[c][Primary] \in {"none", "closed"}

Stranger(c) ==
  /\ peers[c] \subseteq {c, Primary}
  /\ \A n \in Nodes \ {c} : c \notin peers[n]

\* It asks the primary with nothing but these two addresses.
AsksAlone(c) ==
  /\ call[c][Primary] \subseteq {c, Primary}
  /\ \A m \in Range(up[c][Primary]) : m.is = "put" => m.peers \subseteq {c, Primary}

Strangers ==
  \A c \in Nodes \ {Primary} :
    (Unanswered(c) => Stranger(c)) /\ AsksAlone(c)

LEMMA InitStrangers == Init => Strangers
<1>1. Range(<<>>) = {}
  BY EmptyRange
<1> QED
  BY <1>1, NodeAssumption
  DEF Init, Strangers, Unanswered, Stranger, AsksAlone

\* A stranger is not told anything, and nobody is told by it.
LEMMA StrangerIsApart ==
  ASSUME TypeOK, Graph, Order, NEW c \in Nodes \ {Primary}, Stranger(c),
         Unanswered(c), NEW n \in Nodes
  PROVE  /\ ~ ToldBy(c, n)
         /\ ToldBy(n, c) => n = Primary /\ server'[c][Primary] = "open"
<1> USE NodeAssumption
<1>1. \A k \in Nodes : client[k][c] = "none"
  BY DEF Stranger, Graph, ConnectsToKnown
<1>2. \A k \in Nodes : client[c][k] # "none" => k = Primary
  BY DEF Stranger, Graph, ConnectsToKnown
<1>3. \A k \in Nodes : up[k][c] = <<>> /\ down[k][c] = <<>>
  BY <1>1 DEF Graph, ConnectsToKnown, Early
<1>4. \A k \in Nodes : up[c][k] # <<>> \/ down[c][k] # <<>> => k = Primary
  BY <1>2 DEF Graph, ConnectsToKnown, Early
<1>5. \A m \in Range(down[c][Primary]) : m.is # "created"
  <2>1. CASE server[c][Primary] = "none"
    BY <2>1, EmptyRange DEF Order, PutFirst
  <2>2. CASE server[c][Primary] = "closed"
    BY <2>2 DEF Order, Answer
  <2> QED BY <2>1, <2>2 DEF Unanswered
<1>6. ~ ToldBy(c, n)
  <2>1. ~ PutAt(n, c)
    BY <1>3 DEF PutAt
  <2>2. ~ (down[c][n] # <<>> /\ Head(down[c][n]).is = "created")
    BY <1>4, <1>5, HeadInDown
  <2> QED BY <2>1, <2>2 DEF ToldBy
<1>7. ASSUME ToldBy(n, c) PROVE n = Primary /\ server'[c][Primary] = "open"
  BY <1>3, <1>4, <1>7 DEF ToldBy, PutAt
<1> QED BY <1>6, <1>7

LEMMA StrangersStep ==
  ASSUME TypeOK, Graph, Order, Strangers, Next
  PROVE  Strangers'
<1> SUFFICES ASSUME NEW c \in Nodes \ {Primary}
    PROVE  (Unanswered(c)' => Stranger(c)') /\ AsksAlone(c)'
  BY DEF Strangers
<1> USE NodeAssumption
<1>1. /\ UpMove(c, Primary) /\ ServerMove(c, Primary) /\ ClientMove(c, Primary)
      /\ \A n \in Nodes : PeersMove(n)
  BY UpStep, ServerStep, ClientStep, PeersStep
<1>2. (Unanswered(c) => Stranger(c)) /\ AsksAlone(c)
  BY DEF Strangers
<1>3. ASSUME Unanswered(c)' PROVE Unanswered(c)
  <2>1. PutAt(c, Primary) => server[c][Primary] = "none"
    BY HeadInUp DEF PutAt, Order, PutFirst
  <2> QED BY <1>1, <1>3, <2>1 DEF ServerMove, Unanswered
<1>4. ASSUME Unanswered(c)' PROVE Stranger(c)'
  <2>1. Unanswered(c) /\ Stranger(c)
    BY <1>2, <1>3, <1>4
  <2>2. peers'[c] \subseteq {c, Primary}
    <3>1. \A n \in Nodes : ~ ToldBy(c, n)
      BY <2>1, StrangerIsApart
    <3> QED BY <1>1, <2>1, <3>1 DEF PeersMove, Stranger
  <2>3. ASSUME NEW n \in Nodes \ {c} PROVE c \notin peers'[n]
    <3>1. c \notin peers[n]
      BY <2>1 DEF Stranger
    <3>2. ASSUME NEW k \in Nodes, ToldBy(n, k) PROVE c \notin peers'[n]
      <4>1. peers'[n] \subseteq peers[n] \union peers[k]
        BY <3>2, ToldIsKnown
      <4>2. c \in peers'[n] => k = c
        BY <2>1, <3>1, <4>1 DEF Stranger
      <4>3. k # c
        BY <1>4, <2>1, <3>2, StrangerIsApart DEF Unanswered
      <4> QED BY <4>2, <4>3
    <3> QED BY <1>1, <3>1, <3>2 DEF PeersMove
  <2> QED BY <2>2, <2>3 DEF Stranger
<1>5. AsksAlone(c)'
  <2>1. call'[c][Primary] \subseteq {c, Primary}
    <3>1. CASE call'[c][Primary] = call[c][Primary]
      BY <1>2, <3>1 DEF AsksAlone
    <3>2. CASE CallNew(c, Primary)
      <4>1. ~ (ctx[c] = "live" /\ Primary \notin peers[c])
        BY DEF Graph, KnowsStarted
      <4> QED BY <3>2, <4>1 DEF CallNew
    <3> QED BY <1>1, <3>1, <3>2 DEF ClientMove
  <2>2. ASSUME NEW m \in Range(up'[c][Primary]), m.is = "put"
        PROVE  m.peers \subseteq {c, Primary}
    <3>1. m \in Range(up[c][Primary]) \/ UpNew(c, Primary, m)
      BY <1>1, UpRange
    <3> QED BY <1>2, <2>2, <3>1 DEF AsksAlone, UpNew, Put, Result, Last
  <2> QED BY <2>1, <2>2 DEF AsksAlone
<1> QED BY <1>4, <1>5

\* What a refusal means.
LEMMA RefusedBy ==
  ASSUME TypeOK, Graph, Order, Strangers, NEW c \in Nodes, NEW s \in Nodes,
         Carried(down[c][s], "missing") # {}
  PROVE  /\ c # Primary /\ server[c][s] = "closed" /\ ctx[s] = "ended"
         /\ Alone(c) <=> s = Primary
<1> USE NodeAssumption
<1>1. PICK m \in Range(down[c][s]) : m.is = "missing"
  BY DEF Carried
<1>2. server[c][s] = "closed" /\ ctx[s] = "ended"
  BY <1>1 DEF Order, Answer
<1>3. client[c][s] # "none"
  BY <1>2 DEF Graph, ConnectsToKnown, Early
<1>4. c # Primary /\ s # c /\ {c, s, Primary} \subseteq peers[c]
  BY <1>3 DEF Graph, KnowsStarted, ConnectsToKnown
<1>5. IsFiniteSet(peers[c])
  BY FS_Subset DEF TypeOK, ContextTypes
<1>6. ASSUME s = Primary PROVE Cardinality(peers[c]) < 3
  <2>1. peers[c] \subseteq {c, Primary}
    BY <1>2, <1>4, <1>6 DEF Strangers, Unanswered, Stranger
  <2>2. peers[c] = {c, Primary}
    BY <1>4, <2>1
  <2>3. Cardinality({c, Primary}) = 2
    <3>1. IsFiniteSet({c}) /\ Cardinality({c}) = 1
      BY FS_Singleton
    <3>2. {c, Primary} = {c} \union {Primary} /\ Primary \notin {c}
      BY <1>4
    <3>3. Cardinality({c} \union {Primary}) = Cardinality({c}) + 1
      BY <3>1, <3>2, FS_AddElement, Zenon
    <3> QED BY <3>1, <3>2, <3>3
  <2> QED BY <2>2, <2>3
<1>7. ASSUME s # Primary PROVE ~ (Cardinality(peers[c]) < 3)
  <2>1. IsFiniteSet({c}) /\ Cardinality({c}) = 1
    BY FS_Singleton
  <2>2. IsFiniteSet({c} \union {s}) /\ Cardinality({c} \union {s}) = 2
    <3>1. s \notin {c}
      BY <1>4
    <3>2. /\ IsFiniteSet({c} \union {s})
          /\ Cardinality({c} \union {s}) = Cardinality({c}) + 1
      BY <2>1, <3>1, FS_AddElement, Zenon
    <3> QED BY <2>1, <3>2
  <2>3. Cardinality({c} \union {s} \union {Primary}) = 3
    <3>1. Primary \notin {c} \union {s}
      BY <1>4, <1>7
    <3>2. Cardinality({c} \union {s} \union {Primary})
            = Cardinality({c} \union {s}) + 1
      BY <2>2, <3>1, FS_AddElement, Zenon
    <3> QED BY <2>2, <3>2
  <2>4. {c} \union {s} \union {Primary} \subseteq peers[c]
    BY <1>4
  <2>5. /\ Cardinality({c} \union {s} \union {Primary}) <= Cardinality(peers[c])
        /\ Cardinality(peers[c]) \in Nat
    BY <1>5, <2>4, FS_Subset, FS_CardinalityType
  <2> QED BY <2>3, <2>5
<1> QED BY <1>2, <1>4, <1>6, <1>7 DEF Alone

-----------------------------------------------------------------------------
(* What a step may do to what the contexts know.                           *)

KnowledgeKept ==
  /\ known' = known /\ failed' = failed
  /\ stopped' = stopped /\ nulled' = nulled

Starts(n) ==
  /\ ctx[n] = "none" /\ (n = Primary \/ ctx[Primary] # "none")
  /\ ctx' = [ctx EXCEPT ![n] = "live"] /\ KnowledgeKept

Ends(n) ==
  /\ ctx[n] = "live" /\ IsStopped(n)
  /\ ctx' = [ctx EXCEPT ![n] = "ended"] /\ KnowledgeKept

Computes(n, a) ==
  /\ ctx[n] = "live" /\ a \notin stopped[n]
  /\ known' = [known EXCEPT ![n] = @ \union {a}]
  /\ stopped' = [stopped EXCEPT ![n] = @ \union {a}]
  /\ failed' = failed /\ nulled' = nulled /\ ctx' = ctx

Fails(n, a) ==
  /\ ctx[n] = "live" /\ a \notin stopped[n]
  /\ failed' = [failed EXCEPT ![n] = @ \union {a}]
  /\ stopped' = [stopped EXCEPT ![n] = @ \union {a}]
  /\ known' = known /\ nulled' = nulled /\ ctx' = ctx

\* The results R have come to n from m.
HeardFrom(n, m, R) ==
  \/ /\ server[m][n] = "open"
     /\ up[m][n] # <<>> /\ R = Head(up[m][n]).results
  \/ /\ InList(n, m)
     /\ down[n][m] # <<>> /\ R = Head(down[n][m]).results

Learns(n, m, R) ==
  /\ HeardFrom(n, m, R)
  /\ \E b \in BOOLEAN : Learn(n, R, b)
  /\ failed' = failed /\ nulled' = nulled /\ ctx' = ctx

GivesUp(n, m) ==
  /\ InList(n, m) /\ Alone(n)
  /\ down[n][m] # <<>> /\ Head(down[n][m]).is = "missing"
  /\ nulled' = [nulled EXCEPT ![n] = TRUE]
  /\ stopped' = [stopped EXCEPT ![n] = Actions]
  /\ known' = known /\ failed' = failed /\ ctx' = ctx

KnowledgeMove ==
  \/ KnowledgeKept /\ ctx' = ctx
  \/ \E n \in Nodes : Starts(n) \/ Ends(n)
  \/ \E n \in Nodes, a \in Actions : Computes(n, a) \/ Fails(n, a)
  \/ \E n \in Nodes, m \in Nodes, R \in SUBSET Actions : Learns(n, m, R)
  \/ \E n \in Nodes, m \in Nodes : GivesUp(n, m)

LEMMA KnowledgeStep ==
  ASSUME TypeOK, Next
  PROVE  KnowledgeMove
<1>1. CASE StartPrimary
  BY <1>1, NodeAssumption DEF StartPrimary, Starts, KnowledgeMove, KnowledgeKept
<1>2. ASSUME NEW n1 \in Nodes, StartSecondary(n1) PROVE KnowledgeMove
  BY <1>2 DEF StartSecondary, Starts, KnowledgeMove, KnowledgeKept
<1>3. ASSUME NEW n1 \in Nodes, Finish(n1) PROVE KnowledgeMove
  <2>1. Computes(n1, run[n1])
    BY <1>3 DEF Finish, Computes
  <2>2. run[n1] \in Actions
    BY DEF TypeOK, ContextTypes
  <2> QED BY <2>1, <2>2 DEF KnowledgeMove
<1>20. ASSUME NEW n1 \in Nodes, Fail(n1) PROVE KnowledgeMove
  <2>1. Fails(n1, run[n1])
    BY <1>20 DEF Fail, Fails
  <2>2. run[n1] \in Actions
    BY DEF TypeOK, ContextTypes
  <2> QED BY <2>1, <2>2 DEF KnowledgeMove
<1>4. ASSUME NEW n1 \in Nodes, Update(n1) PROVE KnowledgeMove
  BY <1>4
  DEF Update, KnowledgeMove, KnowledgeKept
<1>5. ASSUME NEW n1 \in Nodes, End(n1) PROVE KnowledgeMove
  BY <1>5 DEF End, Ends, KnowledgeMove, KnowledgeKept
<1>6. ASSUME NEW c1 \in Nodes, NEW s1 \in Nodes, Connected(c1, s1)
      PROVE  KnowledgeMove
  BY <1>6
  DEF Connected, ctxVars, KnowledgeMove, KnowledgeKept
<1>7. ASSUME NEW c1 \in Nodes, NEW s1 \in Nodes, ConnectFails(c1, s1)
      PROVE  KnowledgeMove
  BY <1>7
  DEF ConnectFails, ctxVars, KnowledgeMove, KnowledgeKept
<1>8. ASSUME NEW c1 \in Nodes, NEW s1 \in Nodes, Lose(c1, s1)
      PROVE  KnowledgeMove
  BY <1>8
  DEF Lose, ctxVars, KnowledgeMove, KnowledgeKept
<1>9. ASSUME NEW c1 \in Nodes, NEW s1 \in Nodes, PutFound(c1, s1)
      PROVE  KnowledgeMove
  BY <1>9
  DEF PutFound, KnowledgeMove, KnowledgeKept
<1>10. ASSUME NEW c1 \in Nodes, NEW s1 \in Nodes, PutMissing(c1, s1)
      PROVE  KnowledgeMove
  BY <1>10
  DEF PutMissing, ctxVars, KnowledgeMove, KnowledgeKept
<1>11. ASSUME NEW c1 \in Nodes, NEW s1 \in Nodes, RequestResult(c1, s1)
      PROVE  KnowledgeMove
  <2> DEFINE R == Head(up[c1][s1]).results
  <2>1. Arrives(c1, s1, "result")
    BY <1>11 DEF RequestResult
  <2>2. up[c1][s1] # <<>> /\ R \in SUBSET Actions
    BY <2>1, ArrivesEffect DEF TypeOK
  <2>3. Learns(s1, c1, R)
    BY <1>11, <2>2 DEF RequestResult, Learns, HeardFrom
  <2> QED BY <2>2, <2>3 DEF KnowledgeMove
<1>12. ASSUME NEW c1 \in Nodes, NEW s1 \in Nodes, RequestLast(c1, s1)
      PROVE  KnowledgeMove
  <2> DEFINE R == Head(up[c1][s1]).results
  <2>1. Arrives(c1, s1, "last")
    BY <1>12 DEF RequestLast
  <2>2. up[c1][s1] # <<>> /\ R \in SUBSET Actions
    BY <2>1, ArrivesEffect DEF TypeOK
  <2>3. Learns(s1, c1, R)
    BY <1>12, <2>2 DEF RequestLast, Learns, HeardFrom
  <2> QED BY <2>2, <2>3 DEF KnowledgeMove
<1>13. ASSUME NEW c1 \in Nodes, NEW s1 \in Nodes, RequestDropped(c1, s1)
      PROVE  KnowledgeMove
  BY <1>13
  DEF RequestDropped, ctxVars, KnowledgeMove, KnowledgeKept
<1>14. ASSUME NEW c1 \in Nodes, NEW s1 \in Nodes, ResponseFirst(c1, s1)
      PROVE  KnowledgeMove
  <2> DEFINE R == Head(down[c1][s1]).results
  <2>1. Returns(c1, s1, "created")
    BY <1>14 DEF ResponseFirst
  <2>2. down[c1][s1] # <<>> /\ R \in SUBSET Actions
    BY <2>1, ReturnsEffect DEF TypeOK
  <2>3. Learns(c1, s1, R)
    BY <1>14, <2>2 DEF ResponseFirst, Learns, HeardFrom
  <2> QED BY <2>2, <2>3 DEF KnowledgeMove
<1>15. ASSUME NEW c1 \in Nodes, NEW s1 \in Nodes, ResponseResult(c1, s1)
      PROVE  KnowledgeMove
  <2> DEFINE R == Head(down[c1][s1]).results
  <2>1. Returns(c1, s1, "result")
    BY <1>15 DEF ResponseResult
  <2>2. down[c1][s1] # <<>> /\ R \in SUBSET Actions
    BY <2>1, ReturnsEffect DEF TypeOK
  <2>3. Learns(c1, s1, R)
    BY <1>15, <2>2 DEF ResponseResult, Learns, HeardFrom
  <2> QED BY <2>2, <2>3 DEF KnowledgeMove
<1>16. ASSUME NEW c1 \in Nodes, NEW s1 \in Nodes, ResponseLast(c1, s1)
      PROVE  KnowledgeMove
  <2> DEFINE R == Head(down[c1][s1]).results
  <2>1. Returns(c1, s1, "last")
    BY <1>16 DEF ResponseLast
  <2>2. down[c1][s1] # <<>> /\ R \in SUBSET Actions
    BY <2>1, ReturnsEffect DEF TypeOK
  <2>3. Learns(c1, s1, R)
    BY <1>16, <2>2 DEF ResponseLast, Learns, HeardFrom
  <2> QED BY <2>2, <2>3 DEF KnowledgeMove
<1>17. ASSUME NEW c1 \in Nodes, NEW s1 \in Nodes, ResponseDropped(c1, s1)
      PROVE  KnowledgeMove
  BY <1>17
  DEF ResponseDropped, ctxVars, KnowledgeMove, KnowledgeKept
<1>18. ASSUME NEW c1 \in Nodes, NEW s1 \in Nodes, RefusedAlone(c1, s1)
      PROVE  KnowledgeMove
  <2>1. Returns(c1, s1, "missing")
    BY <1>18 DEF RefusedAlone
  <2>2. down[c1][s1] # <<>> /\ Head(down[c1][s1]).is = "missing"
    BY <2>1, ReturnsEffect DEF TypeOK
  <2>3. GivesUp(c1, s1)
    BY <1>18, <2>2 DEF RefusedAlone, GivesUp
  <2> QED BY <2>3 DEF KnowledgeMove
<1>19. ASSUME NEW c1 \in Nodes, NEW s1 \in Nodes, RefusedInCompany(c1, s1)
      PROVE  KnowledgeMove
  BY <1>19
  DEF RefusedInCompany, ctxVars, KnowledgeMove, KnowledgeKept
<1> QED BY <1>1, <1>2, <1>3, <1>4, <1>5, <1>6, <1>7, <1>8, <1>9, <1>10, <1>11,
       <1>12, <1>13, <1>14, <1>15, <1>16, <1>17, <1>18, <1>19, <1>20, NextCases

\* What is lost stays lost, and what was told is remembered.
HistoryKept ==
  /\ \A n \in Nodes : told[n] \subseteq told'[n]
  /\ \A c \in Nodes, s \in Nodes : lost[c][s] => lost'[c][s]

LEMMA HistoryStep ==
  ASSUME TypeOK, Next
  PROVE  HistoryKept
<1>1. CASE StartPrimary
  BY <1>1
  DEF StartPrimary, faultVars, HistoryKept
<1>2. ASSUME NEW n1 \in Nodes, StartSecondary(n1) PROVE HistoryKept
  BY <1>2
  DEF StartSecondary, faultVars, HistoryKept
<1>3. ASSUME NEW n1 \in Nodes, Finish(n1) PROVE HistoryKept
  BY <1>3
  DEF Finish, faultVars, HistoryKept
<1>20. ASSUME NEW n1 \in Nodes, Fail(n1) PROVE HistoryKept
  BY <1>20
  DEF Fail, faultVars, HistoryKept
<1>4. ASSUME NEW n1 \in Nodes, Update(n1) PROVE HistoryKept
  BY <1>4
  DEF Update, faultVars, HistoryKept
<1>5. ASSUME NEW n1 \in Nodes, End(n1) PROVE HistoryKept
  BY <1>5
  DEF End, faultVars, HistoryKept
<1>6. ASSUME NEW c1 \in Nodes, NEW s1 \in Nodes, Connected(c1, s1)
      PROVE  HistoryKept
  BY <1>6
  DEF Connected, faultVars, HistoryKept
<1>7. ASSUME NEW c1 \in Nodes, NEW s1 \in Nodes, ConnectFails(c1, s1)
      PROVE  HistoryKept
  BY <1>7
  DEF ConnectFails, HistoryKept
<1>8. ASSUME NEW c1 \in Nodes, NEW s1 \in Nodes, Lose(c1, s1)
      PROVE  HistoryKept
  BY <1>8 DEF Lose, HistoryKept, TypeOK, StreamTypes
<1>9. ASSUME NEW c1 \in Nodes, NEW s1 \in Nodes, PutFound(c1, s1)
      PROVE  HistoryKept
  BY <1>9 DEF PutFound, HistoryKept, faultVars, TypeOK, ContextTypes
<1>10. ASSUME NEW c1 \in Nodes, NEW s1 \in Nodes, PutMissing(c1, s1)
      PROVE  HistoryKept
  BY <1>10
  DEF PutMissing, faultVars, HistoryKept
<1>11. ASSUME NEW c1 \in Nodes, NEW s1 \in Nodes, RequestResult(c1, s1)
      PROVE  HistoryKept
  BY <1>11
  DEF RequestResult, faultVars, HistoryKept
<1>12. ASSUME NEW c1 \in Nodes, NEW s1 \in Nodes, RequestLast(c1, s1)
      PROVE  HistoryKept
  BY <1>12
  DEF RequestLast, faultVars, HistoryKept
<1>13. ASSUME NEW c1 \in Nodes, NEW s1 \in Nodes, RequestDropped(c1, s1)
      PROVE  HistoryKept
  BY <1>13
  DEF RequestDropped, faultVars, HistoryKept
<1>14. ASSUME NEW c1 \in Nodes, NEW s1 \in Nodes, ResponseFirst(c1, s1)
      PROVE  HistoryKept
  BY <1>14
  DEF ResponseFirst, faultVars, HistoryKept
<1>15. ASSUME NEW c1 \in Nodes, NEW s1 \in Nodes, ResponseResult(c1, s1)
      PROVE  HistoryKept
  BY <1>15
  DEF ResponseResult, faultVars, HistoryKept
<1>16. ASSUME NEW c1 \in Nodes, NEW s1 \in Nodes, ResponseLast(c1, s1)
      PROVE  HistoryKept
  BY <1>16
  DEF ResponseLast, faultVars, HistoryKept
<1>17. ASSUME NEW c1 \in Nodes, NEW s1 \in Nodes, ResponseDropped(c1, s1)
      PROVE  HistoryKept
  BY <1>17
  DEF ResponseDropped, faultVars, HistoryKept
<1>18. ASSUME NEW c1 \in Nodes, NEW s1 \in Nodes, RefusedAlone(c1, s1)
      PROVE  HistoryKept
  BY <1>18
  DEF RefusedAlone, faultVars, HistoryKept
<1>19. ASSUME NEW c1 \in Nodes, NEW s1 \in Nodes, RefusedInCompany(c1, s1)
      PROVE  HistoryKept
  BY <1>19
  DEF RefusedInCompany, faultVars, HistoryKept
<1> QED BY <1>1, <1>2, <1>3, <1>4, <1>5, <1>6, <1>7, <1>8, <1>9, <1>10, <1>11,
       <1>12, <1>13, <1>14, <1>15, <1>16, <1>17, <1>18, <1>19, <1>20, NextCases

-----------------------------------------------------------------------------
(* Where results come from.                                                *)

\* What is sent about results is known to the sender.
SendsResults ==
  \A c \in Nodes, s \in Nodes :
    /\ \A m \in Range(up[c][s]) : m.results \subseteq known[c]
    /\ \A m \in Range(down[c][s]) : m.results \subseteq known[s]

\* A thread is stopped once its result is known, when its executor has ended
\* without, or by a refusal.
StopsWhenKnown ==
  \A n \in Nodes :
    stopped[n] = IF nulled[n] THEN Actions ELSE known[n] \union failed[n]

\* Only the primary, which is over, has refused a context that gave up.
GivesUpLate ==
  \A n \in Nodes :
    nulled[n] => /\ n # Primary /\ ctx[Primary] = "ended"
                 /\ server[n][Primary] = "closed"

Truth == SendsResults /\ StopsWhenKnown /\ GivesUpLate

LEMMA InitTruth == Init => Truth
BY EmptyRange
DEF Init, Truth, SendsResults, StopsWhenKnown, GivesUpLate

\* What Learn does.
Learned(n, R, b) ==
  /\ \A k \in Nodes :
       known'[k] = IF k = n /\ (~ nulled[k] \/ b)
                   THEN known[k] \union R ELSE known[k]
  /\ \A k \in Nodes \ {n} : stopped'[k] = stopped[k]
  /\ stopped[n] \subseteq stopped'[n] /\ R \subseteq stopped'[n]
  /\ \/ stopped'[n] = stopped[n] \union R
     \/ /\ stopped'[n] = Actions
        /\ nulled[n] \/ Actions \subseteq known[n] \union R

LEMMA LearnEffect ==
  ASSUME TypeOK, NEW n \in Nodes, NEW R \in SUBSET Actions, NEW b \in BOOLEAN,
         Learn(n, R, b)
  PROVE  Learned(n, R, b)
<1>1. known' = [known EXCEPT ![n] = IF nulled[n] /\ ~ b THEN @ ELSE @ \union R]
  BY DEF Learn
<1>2. \/ stopped' = [stopped EXCEPT ![n] = @ \union R]
      \/ stopped' = [stopped EXCEPT ![n] = Actions] /\ Incomplete(n) \ R = {}
  BY DEF Learn, Reschedule
<1>3. Incomplete(n) \ R = {} => nulled[n] \/ Actions \subseteq known[n] \union R
  BY DEF Incomplete
<1>4. \A k \in Nodes :
        known'[k] = IF k = n /\ (~ nulled[k] \/ b)
                    THEN known[k] \union R ELSE known[k]
  BY <1>1 DEF TypeOK, ContextTypes
<1>5. \A k \in Nodes \ {n} : stopped'[k] = stopped[k]
  BY <1>2 DEF TypeOK, ContextTypes
<1>6. \/ stopped'[n] = stopped[n] \union R
      \/ /\ stopped'[n] = Actions
         /\ nulled[n] \/ Actions \subseteq known[n] \union R
  BY <1>2, <1>3 DEF TypeOK, ContextTypes
<1>7. stopped[n] \subseteq Actions
  BY DEF TypeOK, ContextTypes
<1> QED BY <1>4, <1>5, <1>6, <1>7 DEF Learned

Grows(n) ==
  /\ known[n] \subseteq known'[n] /\ failed[n] \subseteq failed'[n]
  /\ stopped[n] \subseteq stopped'[n]

\* Nothing is forgotten.
LEMMA KnowledgeGrows ==
  ASSUME TypeOK, Next, NEW n \in Nodes
  PROVE  Grows(n)
<1> USE DEF Grows
<1>1. CASE KnowledgeKept
  BY <1>1 DEF KnowledgeKept
<1>2. ASSUME NEW k \in Nodes, NEW a \in Actions, Computes(k, a)
      PROVE  Grows(n)
  BY <1>2 DEF Computes, TypeOK, ContextTypes
<1>5. ASSUME NEW k \in Nodes, NEW a \in Actions, Fails(k, a)
      PROVE  Grows(n)
  BY <1>5 DEF Fails, TypeOK, ContextTypes
<1>3. ASSUME NEW k \in Nodes, NEW m \in Nodes, NEW R \in SUBSET Actions,
             Learns(k, m, R)
      PROVE  Grows(n)
  <2>1. PICK b \in BOOLEAN : Learn(k, R, b)
    BY <1>3 DEF Learns
  <2>2. Learned(k, R, b)
    BY <2>1, LearnEffect
  <2>3. failed' = failed
    BY <1>3 DEF Learns
  <2> QED BY <2>2, <2>3 DEF Learned
<1>4. ASSUME NEW k \in Nodes, NEW m \in Nodes, GivesUp(k, m)
      PROVE  Grows(n)
  BY <1>4 DEF GivesUp, TypeOK, ContextTypes
<1> QED BY KnowledgeStep, <1>1, <1>2, <1>3, <1>4, <1>5
        DEF KnowledgeMove, Starts, Ends

LEMMA SendsResultsStep ==
  ASSUME TypeOK, Truth, Next
  PROVE  SendsResults'
<1> SUFFICES ASSUME NEW c \in Nodes, NEW s \in Nodes
    PROVE  /\ \A m \in Range(up'[c][s]) : m.results \subseteq known'[c]
           /\ \A m \in Range(down'[c][s]) : m.results \subseteq known'[s]
  BY DEF SendsResults
<1>1. UpMove(c, s) /\ DownMove(c, s)
  BY UpStep, DownStep
<1>2. \A n \in Nodes : known[n] \subseteq known'[n]
  BY KnowledgeGrows DEF Grows
<1>4. ASSUME NEW m \in Range(up'[c][s]) PROVE m.results \subseteq known[c]
  <2>1. CASE m \in Range(up[c][s])
    BY <2>1 DEF Truth, SendsResults
  <2>2. CASE UpNew(c, s, m)
    BY <2>2 DEF UpNew, Put, Result, Last
  <2> QED BY <1>1, <2>1, <2>2, UpRange
<1>5. ASSUME NEW m \in Range(down'[c][s]) PROVE m.results \subseteq known[s]
  <2>1. CASE m \in Range(down[c][s])
    BY <2>1 DEF Truth, SendsResults
  <2>2. CASE DownNew(c, s, m)
    BY <2>2 DEF DownNew, Created, Missing, Result, Last
  <2> QED BY <1>1, <2>1, <2>2, DownRange
<1> QED BY <1>2, <1>4, <1>5

LEMMA StopsWhenKnownStep ==
  ASSUME TypeOK, Truth, Next
  PROVE  StopsWhenKnown'
<1> SUFFICES ASSUME NEW n \in Nodes
    PROVE  stopped'[n] = IF nulled'[n] THEN Actions
                                             ELSE known'[n] \union failed'[n]
  BY DEF StopsWhenKnown
<1> DEFINE Goal == stopped'[n] = IF nulled'[n] THEN Actions
                                             ELSE known'[n] \union failed'[n]
<1>0. /\ stopped[n] = IF nulled[n] THEN Actions ELSE known[n] \union failed[n]
      /\ known[n] \subseteq Actions /\ failed[n] \subseteq Actions
  BY DEF StopsWhenKnown, Truth, TypeOK, ContextTypes
<1>1. CASE KnowledgeKept
  BY <1>0, <1>1 DEF KnowledgeKept
<1>2. ASSUME NEW k \in Nodes, NEW a \in Actions, Computes(k, a)
      PROVE  Goal
  BY <1>0, <1>2 DEF Computes, TypeOK, ContextTypes
<1>5. ASSUME NEW k \in Nodes, NEW a \in Actions, Fails(k, a)
      PROVE  Goal
  BY <1>0, <1>5 DEF Fails, TypeOK, ContextTypes
<1>3. ASSUME NEW k \in Nodes, NEW m \in Nodes, NEW R \in SUBSET Actions,
             Learns(k, m, R)
      PROVE  Goal
  <2>1. PICK b \in BOOLEAN : Learn(k, R, b)
    BY <1>3 DEF Learns
  <2>2. Learned(k, R, b)
    BY <2>1, LearnEffect
  <2>3. nulled' = nulled /\ failed' = failed
    BY <1>3 DEF Learns
  <2>5. CASE n # k
    BY <1>0, <2>2, <2>3, <2>5 DEF Learned
  <2>6. CASE n = k /\ nulled[n]
    BY <1>0, <2>2, <2>3, <2>6 DEF Learned
  <2>7. CASE n = k /\ ~ nulled[n]
    BY <1>0, <2>2, <2>3, <2>7 DEF Learned
  <2> QED BY <2>5, <2>6, <2>7
<1>4. ASSUME NEW k \in Nodes, NEW m \in Nodes, GivesUp(k, m)
      PROVE  Goal
  BY <1>0, <1>4 DEF GivesUp, TypeOK, ContextTypes
<1> QED BY KnowledgeStep, <1>1, <1>2, <1>3, <1>4, <1>5
        DEF KnowledgeMove, Starts, Ends

\* Who is over stays so.
LEMMA EndedStays ==
  ASSUME TypeOK, Next, NEW n \in Nodes, ctx[n] = "ended"
  PROVE  ctx'[n] = "ended"
BY CtxStep DEF CtxMove

LEMMA GivesUpLateStep ==
  ASSUME TypeOK, Graph, Order, Strangers, Truth, Next
  PROVE  GivesUpLate'
<1> USE NodeAssumption
<1> SUFFICES ASSUME NEW n \in Nodes, nulled'[n]
    PROVE  /\ n # Primary /\ ctx'[Primary] = "ended"
           /\ server'[n][Primary] = "closed"
  BY DEF GivesUpLate
<1>1. CASE nulled[n]
  <2>1. /\ n # Primary /\ ctx[Primary] = "ended"
        /\ server[n][Primary] = "closed"
    BY <1>1 DEF Truth, GivesUpLate
  <2>2. ~ PutAt(n, Primary)
    BY <2>1, HeadInUp DEF PutAt, Order, PutFirst
  <2>3. server'[n][Primary] = "closed"
    BY <2>1, <2>2, ServerStep DEF ServerMove
  <2> QED BY <2>1, <2>3, EndedStays
<1>2. ASSUME ~ nulled[n], NEW m \in Nodes, GivesUp(n, m)
      PROVE  /\ n # Primary /\ ctx'[Primary] = "ended"
             /\ server'[n][Primary] = "closed"
  <2>1. Head(down[n][m]) \in Range(down[n][m])
    BY <1>2, HeadInDown DEF GivesUp
  <2>2. Carried(down[n][m], "missing") # {}
    BY <1>2, <2>1 DEF GivesUp, Carried
  <2>3. Alone(n)
    BY <1>2 DEF GivesUp
  <2>4. n # Primary /\ m = Primary
    BY <2>2, <2>3, RefusedBy
  <2>5. server[n][Primary] = "closed" /\ ctx[Primary] = "ended"
    BY <2>2, <2>4, RefusedBy
  <2>6. ~ PutAt(n, Primary)
    BY <2>5, HeadInUp DEF PutAt, Order, PutFirst
  <2>7. server'[n][Primary] = "closed"
    BY <2>5, <2>6, ServerStep DEF ServerMove
  <2> QED BY <2>4, <2>5, <2>7, EndedStays
<1>3. nulled[n] \/ \E m \in Nodes : GivesUp(n, m)
  <2>1. ASSUME nulled' = nulled PROVE nulled[n]
    BY <2>1
  <2>2. ASSUME NEW k \in Nodes, NEW m \in Nodes, GivesUp(k, m), k # n
        PROVE  nulled[n]
    BY <2>2 DEF GivesUp, TypeOK, ContextTypes
  <2> QED BY KnowledgeStep, <2>1, <2>2
          DEF KnowledgeMove, KnowledgeKept, Starts, Ends, Computes, Fails, Learns
<1> QED BY <1>1, <1>2, <1>3

LEMMA TruthStep ==
  ASSUME TypeOK, Graph, Order, Strangers, Truth, Next
  PROVE  Truth'
BY SendsResultsStep, StopsWhenKnownStep, GivesUpLateStep DEF Truth

-----------------------------------------------------------------------------
(* Ends.                                                                   *)

\* A stopped context lacks only results that its executors ended without,
\* unless it is known to nobody else and has only asked the primary, which is
\* over.
LEMMA StoppedKnowsAll ==
  ASSUME TypeOK, Graph, Strangers, Truth, NEW n \in Nodes, IsStopped(n)
  PROVE  \/ known[n] \union failed[n] = Actions
         \/ /\ n # Primary /\ ctx[Primary] = "ended"
            /\ \A m \in Nodes : /\ client[m][n] = "none"
                                /\ client[n][m] # "none" => m = Primary
<1>1. CASE ~ nulled[n]
  BY <1>1 DEF Truth, StopsWhenKnown, IsStopped
<1>2. CASE nulled[n]
  <2>1. n # Primary /\ ctx[Primary] = "ended" /\ Unanswered(n)
    BY <1>2 DEF Truth, GivesUpLate, Unanswered
  <2>2. Stranger(n)
    BY <2>1 DEF Strangers
  <2>3. ASSUME NEW m \in Nodes PROVE client[m][n] = "none"
    BY <2>2 DEF Stranger, Graph, ConnectsToKnown
  <2>4. ASSUME NEW m \in Nodes, client[n][m] # "none" PROVE m = Primary
    BY <2>2, <2>4 DEF Stranger, Graph, ConnectsToKnown
  <2> QED BY <2>1, <2>3, <2>4
<1> QED BY <1>1, <1>2

\* The three parts of EndIsComplete.
UpEnds(c, s) ==
  ctx[s] = "live" =>
    \A m \in Range(up[c][s]) : m.is = "last" => LeftOut(m) \subseteq failed[c]

DownEnds(c, s) ==
  InList(c, s) =>
    \A m \in Range(down[c][s]) : m.is = "last" => LeftOut(m) \subseteq failed[s]

ErasedEnds(c, s) ==
  server[c][s] = "erased" =>
    ctx[s] = "ended" \/ Actions \ stopped[s] \subseteq failed[c]

Ending == \A c \in Nodes, s \in Nodes :
            UpEnds(c, s) /\ DownEnds(c, s) /\ ErasedEnds(c, s)

LEMMA EndingIsComplete == Ending <=> EndIsComplete
BY DEF Ending, UpEnds, DownEnds, ErasedEnds, EndIsComplete, Carried

LEMMA InitEnding == Init => Ending
BY EmptyRange
DEF Init, Ending, UpEnds, DownEnds, ErasedEnds, InList

LEMMA EndingStep ==
  ASSUME TypeOK, Graph, Order, Strangers, Truth, Ending, Next
  PROVE  Ending'
<1> SUFFICES ASSUME NEW c \in Nodes, NEW s \in Nodes
    PROVE  UpEnds(c, s)' /\ DownEnds(c, s)' /\ ErasedEnds(c, s)'
  BY DEF Ending
<1>1. /\ UpMove(c, s) /\ DownMove(c, s) /\ ClientMove(c, s) /\ ServerMove(c, s)
      /\ CtxMove(c) /\ CtxMove(s)
  BY UpStep, DownStep, ClientStep, ServerStep, CtxStep
<1>2. UpEnds(c, s) /\ DownEnds(c, s) /\ ErasedEnds(c, s)
  BY DEF Ending
<1>3. /\ client[c][s] # "none" => ctx[c] # "none" /\ ctx[s] # "none"
      /\ Early(c, s) => /\ up[c][s] = <<>> /\ down[c][s] = <<>>
                        /\ server[c][s] = "none"
  BY DEF Graph, KnowsStarted, ConnectsToKnown
<1>7. Grows(c) /\ Grows(s)
  BY KnowledgeGrows
<1>4. UpEnds(c, s)'
  <2>1. SUFFICES ASSUME ctx'[s] = "live", NEW m \in Range(up'[c][s]),
                        m.is = "last"
                 PROVE  LeftOut(m) \subseteq failed'[c]
    BY DEF UpEnds
  <2>2. CASE m \in Range(up[c][s])
    <3>1. client[c][s] # "none"
      BY <1>3, <2>2, EmptyRange DEF Early
    <3>2. ctx[s] = "live"
      BY <1>1, <1>3, <2>1, <3>1 DEF CtxMove
    <3> QED BY <1>2, <1>7, <2>1, <2>2, <3>2 DEF UpEnds, Grows
  <2>3. CASE UpNew(c, s, m)
    <3>1. client[c][s] = "open" /\ IsStopped(c) /\ m = Last(known[c])
      BY <2>1, <2>3 DEF UpNew, Put, Result
    <3>2. known[c] \union failed[c] = Actions
      BY <2>1, <3>1, StoppedKnowsAll, EndedStays
    <3> QED BY <1>7, <3>1, <3>2 DEF Last, LeftOut, Grows
  <2> QED BY <1>1, <2>2, <2>3, UpRange
<1>5. DownEnds(c, s)'
  <2>1. SUFFICES ASSUME ctx'[c] = "live", client'[c][s] = "open",
                        NEW m \in Range(down'[c][s]), m.is = "last"
                 PROVE  LeftOut(m) \subseteq failed'[s]
    BY DEF DownEnds, InList
  <2>2. CASE m \in Range(down[c][s])
    <3>1. ~ Early(c, s)
      BY <1>3, <2>2, EmptyRange
    <3>2. ctx[c] = "live"
      BY <1>1, <1>3, <2>1, <3>1 DEF CtxMove, Early
    <3>3. client[c][s] = "open"
      BY <1>1, <2>1, <3>1 DEF ClientMove, CallNew, Early
    <3> QED BY <1>2, <1>7, <2>1, <2>2, <3>2, <3>3 DEF DownEnds, InList, Grows
  <2>3. CASE DownNew(c, s, m)
    <3>1. server[c][s] = "open" /\ IsStopped(s) /\ m = Last(known[s])
      BY <2>1, <2>3 DEF DownNew, Created, Missing, Result
    <3>2. client[c][s] # "none"
      BY <1>3, <3>1 DEF Early
    <3>3. known[s] \union failed[s] = Actions
      BY <3>1, <3>2, StoppedKnowsAll
    <3> QED BY <1>7, <3>1, <3>3 DEF Last, LeftOut, Grows
  <2> QED BY <1>1, <2>2, <2>3, DownRange
<1>6. ErasedEnds(c, s)'
  <2>1. SUFFICES ASSUME server'[c][s] = "erased"
                 PROVE  \/ ctx'[s] = "ended"
                        \/ Actions \ stopped'[s] \subseteq failed'[c]
    BY DEF ErasedEnds
  <2>2. stopped[s] \subseteq stopped'[s] /\ failed[c] \subseteq failed'[c]
    BY <1>7 DEF Grows
  <2>3. CASE server[c][s] = "erased"
    BY <1>2, <2>2, <2>3, EndedStays DEF ErasedEnds
  <2>4. CASE server[c][s] # "erased"
    <3> DEFINE m == Head(up[c][s])
    <3>1. /\ server[c][s] = "open" /\ up[c][s] # <<>> /\ m.is = "last"
          /\ Learn(s, m.results, TRUE)
      BY <1>1, <2>1, <2>4 DEF ServerMove
    <3>2. m \in Range(up[c][s]) /\ ctx[s] = "live"
      BY <3>1, HeadInUp DEF Order, Answer
    <3>3. LeftOut(m) \subseteq failed[c]
      BY <1>2, <3>1, <3>2 DEF UpEnds
    <3>4. m.results \in SUBSET Actions
      BY <3>1, HeadOf DEF TypeOK, StreamTypes
    <3> HIDE DEF m
    <3>5. Learned(s, m.results, TRUE)
      BY <3>1, <3>4, LearnEffect
    <3> QED BY <2>2, <3>3, <3>5 DEF Learned, LeftOut
  <2> QED BY <2>3, <2>4
<1> QED BY <1>4, <1>5, <1>6

-----------------------------------------------------------------------------
(* Introductions.                                                          *)

\* A context has a stream with whom it knows, unless a third one's PUT told
\* it of them.
Told ==
  \A n \in Nodes : \A m \in peers[n] :
    m = n \/ m = Primary \/ Linked(n, m) \/ m \in told[n]

LEMMA InitTold == Init => Told
BY DEF Init, Told

LEMMA LinkedStays ==
  ASSUME TypeOK, Next, NEW n \in Nodes, NEW m \in Nodes, Linked(n, m)
  PROVE  Linked(n, m)'
<1>1. ClientMove(n, m) /\ ClientMove(m, n)
  BY ClientStep
<1> QED BY <1>1 DEF ClientMove, CallNew, Linked

LEMMA ToldStep ==
  ASSUME TypeOK, Graph, Told, Next
  PROVE  Told'
<1> SUFFICES ASSUME NEW n \in Nodes, NEW m \in peers'[n],
                    m # n, m # Primary
             PROVE  Linked(n, m)' \/ m \in told'[n]
  BY DEF Told
<1>1. m \in Nodes
  BY TypeStep DEF TypeOK, ContextTypes
<1>2. CASE m \in peers[n]
  <2>1. Linked(n, m) \/ m \in told[n]
    BY <1>2 DEF Told
  <2> QED BY <1>1, <2>1, LinkedStays, HistoryStep DEF HistoryKept
<1>3. CASE m \notin peers[n]
  <2>1. PICK k \in Nodes : ToldBy(n, k)
    BY <1>3, PeersStep DEF PeersMove
  <2>2. CASE PutAt(k, n) /\ peers'[n] \ (peers[n] \union {k}) \subseteq told'[n]
    <3>1. client[k][n] # "none"
      BY <2>2 DEF Graph, ConnectsToKnown, Early, PutAt
    <3>2. Linked(n, k)
      BY <3>1 DEF Linked
    <3> QED BY <1>3, <2>2, <3>2, LinkedStays
  <2>3. CASE \A p \in peers'[n] \ peers[n] : client'[n][p] = "connecting"
    BY <1>3, <2>3 DEF Linked
  <2> QED BY <2>1, <2>2, <2>3 DEF ToldBy
<1> QED BY <1>2, <1>3

Excused(n, m) ==
  \/ ToBeTold(n, m)
  \/ ctx[n] = "ended" \/ lost[n][Primary] \/ m \in told[n]

Introduced ==
  \A n \in peers[Primary] \ {Primary}, m \in peers[Primary] \ {Primary} :
    n = m \/ Linked(n, m) \/ Excused(n, m) \/ Excused(m, n)

LEMMA IntroducedAreApart == Introduced => OnlyIntroducedAreApart
BY DEF Introduced, OnlyIntroducedAreApart, Excused

LEMMA InitIntroduced == Init => Introduced
BY NodeAssumption DEF Init, Introduced

\* Who is to be told of another one is, or has an excuse still.
LEMMA ExcusedStays ==
  ASSUME TypeOK, Graph, Order, Told, Told', Next,
         NEW n \in Nodes \ {Primary}, NEW m \in Nodes \ {Primary}, n # m,
         Excused(n, m)
  PROVE  Linked(n, m)' \/ Excused(n, m)'
<1> USE NodeAssumption
<1>1. CASE ctx[n] = "ended"
  BY <1>1, EndedStays DEF Excused
<1>2. CASE lost[n][Primary] \/ m \in told[n]
  BY <1>2, HistoryStep DEF HistoryKept, Excused
<1>3. ASSUME NEW k \in Range(down[n][Primary]), k.is = "created",
             m \in k.peers, ctx[n] # "ended"
      PROVE  Linked(n, m)' \/ Excused(n, m)'
  <2>1. down[n][Primary] \in Seq(Chunks)
    BY DEF TypeOK, StreamTypes
  <2>2. CASE k \in Range(down'[n][Primary])
    BY <1>3, <2>2 DEF Excused, ToBeTold, Carried
  <2>3. CASE k \notin Range(down'[n][Primary])
    <3>1. DownMove(n, Primary)
      BY DownStep
    <3>2. CASE down'[n][Primary] = <<>> /\ lost'[n][Primary]
      BY <3>2 DEF Excused
    <3>3. CASE /\ down[n][Primary] # <<>>
               /\ down'[n][Primary] = Tail(down[n][Primary])
               /\ InList(n, Primary) /\ Head(down[n][Primary]).is = "created"
                    => peers'[n] = peers[n] \union Head(down[n][Primary]).peers
      <4>1. k = Head(down[n][Primary])
        BY <2>1, <2>3, <3>3, TailRange
      <4>2. client[n][Primary] # "none"
        BY <3>3 DEF Graph, ConnectsToKnown, Early
      <4>3. ctx[n] = "live"
        BY <1>3, <4>2 DEF Graph, ConnectsToKnown, KnowsStarted, TypeOK,
                          ContextTypes
      <4>4. InList(n, Primary)
        BY <1>3, <4>3 DEF Order, CreatedFirst, InList
      <4>5. m \in peers'[n]
        BY <1>3, <3>3, <4>1, <4>4
      <4>6. Linked(n, m)' \/ m \in told'[n]
        BY <4>5 DEF Told
      <4> QED BY <4>6 DEF Excused
    <3>4. ASSUME NEW d \in Chunks,
                 down'[n][Primary] = Append(down[n][Primary], d)
          PROVE  FALSE
      BY <2>1, <2>3, <3>4, AppendRange
    <3> QED BY <2>3, <3>1, <3>2, <3>3, <3>4 DEF DownMove
  <2> QED BY <2>2, <2>3
<1> QED BY <1>1, <1>2, <1>3 DEF Excused, ToBeTold, Carried

\* Whom the primary comes to know has asked it, and will be told of the rest.
LEMMA PrimaryIntroduces ==
  ASSUME TypeOK, Graph, Strangers, Next, NEW n \in Nodes \ {Primary},
         n \in peers'[Primary], n \notin peers[Primary],
         NEW m \in peers'[Primary]
  PROVE  Excused(n, m)'
<1> USE NodeAssumption
<1>1. PICK k \in Nodes : ToldBy(Primary, k)
  BY PeersStep DEF PeersMove
<1>2. client[Primary][k] = "none"
  BY DEF Graph, ConnectsToKnown
<1>3. /\ PutAt(k, Primary)
      /\ peers'[Primary] = peers[Primary] \union Head(up[k][Primary]).peers
      /\ \/ lost[k][Primary]
         \/ \E d \in Range(down'[k][Primary]) :
              d.is = "created" /\ d.peers = peers'[Primary]
  BY <1>1, <1>2 DEF ToldBy, InList
<1>4. k # Primary
  BY <1>2, <1>3 DEF Graph, ConnectsToKnown, Early, PutAt
<1>5. Head(up[k][Primary]).peers \subseteq {k, Primary}
  BY <1>3, <1>4, HeadInUp DEF PutAt, Strangers, AsksAlone
<1>6. n = k
  BY <1>3, <1>5
<1> QED BY <1>3, <1>6, HistoryStep
        DEF HistoryKept, Excused, ToBeTold, Carried

LEMMA IntroducedStep ==
  ASSUME TypeOK, Graph, Order, Strangers, Told, Introduced, Next
  PROVE  Introduced'
<1> USE NodeAssumption
<1>1. Told'
  BY ToldStep
<1> SUFFICES ASSUME NEW n \in peers'[Primary] \ {Primary},
                    NEW m \in peers'[Primary] \ {Primary}, n # m
             PROVE  Linked(n, m)' \/ Excused(n, m)' \/ Excused(m, n)'
  BY DEF Introduced
<1>2. n \in Nodes \ {Primary} /\ m \in Nodes \ {Primary}
  BY TypeStep DEF TypeOK, ContextTypes
<1>3. CASE n \notin peers[Primary]
  BY <1>2, <1>3, PrimaryIntroduces
<1>4. CASE m \notin peers[Primary]
  BY <1>2, <1>4, PrimaryIntroduces
<1>5. CASE n \in peers[Primary] /\ m \in peers[Primary]
  <2>1. Linked(n, m) \/ Excused(n, m) \/ Excused(m, n)
    BY <1>5 DEF Introduced
  <2>2. CASE Linked(n, m)
    BY <1>2, <2>2, LinkedStays
  <2>3. CASE Excused(n, m)
    BY <1>1, <1>2, <2>3, ExcusedStays
  <2>4. CASE Excused(m, n)
    <3>1. Linked(m, n)' \/ Excused(m, n)'
      BY <1>1, <1>2, <2>4, ExcusedStays
    <3> QED BY <3>1 DEF Linked
  <2> QED BY <2>1, <2>2, <2>3, <2>4
<1> QED BY <1>3, <1>4, <1>5

-----------------------------------------------------------------------------
(* The inductive invariant.                                                *)

MeshInv ==
  TypeOK /\ Graph /\ Order /\ Strangers /\ Truth /\ Ending /\ Told /\ Introduced

LEMMA InitMeshInv == Init => MeshInv
BY InitTypes, InitGraph, InitOrder, InitStrangers, InitTruth, InitEnding,
   InitTold, InitIntroduced
DEF MeshInv

LEMMA MeshInvStep ==
  ASSUME MeshInv, Next
  PROVE  MeshInv'
BY TypeStep, GraphStep, OrderStep, StrangersStep, TruthStep, EndingStep,
   ToldStep, IntroducedStep
DEF MeshInv

LEMMA MeshInvStutter ==
  ASSUME MeshInv, UNCHANGED vars
  PROVE  MeshInv'
<1> USE DEF vars, ctxVars, streamVars, faultVars
<1>1. TypeOK'
  BY TypeStutter DEF MeshInv
<1>2. Graph' /\ Order' /\ Strangers'
  BY DEF MeshInv, Graph, KnowsStarted, ConnectsToKnown, SendsKnown, Early,
         Order, PutFirst, Answer, CreatedFirst, Strangers, Unanswered,
         Stranger, AsksAlone
<1>3. Truth' /\ Ending'
  BY DEF MeshInv, Truth, SendsResults, StopsWhenKnown, GivesUpLate, Ending,
         UpEnds, DownEnds, ErasedEnds, InList, IsStopped
<1>4. Told' /\ Introduced'
  BY DEF MeshInv, Told, Linked, Introduced, Excused, ToBeTold, Carried
<1> QED BY <1>1, <1>2, <1>3, <1>4 DEF MeshInv

LEMMA MeshInvariant == Spec => []MeshInv
<1>1. MeshInv /\ [Next]_vars => MeshInv'
  BY MeshInvStep, MeshInvStutter
<1> QED BY InitMeshInv, <1>1, PTL DEF Spec

\* A live context that is refused knows which of its two ways to take: it is
\* alone exactly if the primary refuses it (controller-app.cpp:1240-1263).
THEOREM RefusalUnderstood == Spec => []RefusalIsUnderstood
<1>1. MeshInv => RefusalIsUnderstood
  BY RefusedBy DEF MeshInv, RefusalIsUnderstood
<1> QED BY MeshInvariant, <1>1, PTL

\* The end of a stream that reaches a live context leaves out only results that
\* executors of its sender ended without, and what a context whose session it
\* has erased still works on is among them (controller-app.cpp:828-911).
THEOREM EndComplete == Spec => []EndIsComplete
<1>1. MeshInv => EndIsComplete
  BY EndingIsComplete DEF MeshInv
<1> QED BY MeshInvariant, <1>1, PTL

\* Whom the primary knows of are connected or will be, but for the exceptions
\* OnlyIntroducedAreApart names (controller-app.cpp:1113-1174, 1658).
THEOREM IntroducedApart == Spec => []OnlyIntroducedAreApart
<1>1. MeshInv => OnlyIntroducedAreApart
  BY IntroducedAreApart DEF MeshInv
<1> QED BY MeshInvariant, <1>1, PTL

-----------------------------------------------------------------------------
(* The refinement of SharedResults.                                        *)

Phase == [n \in Nodes |-> IF ctx[n] = "ended" THEN "over" ELSE ctx[n]]

LEMMA PromiseInit == Init => Promise!Init
BY DEF Init, Promise!Init

LEMMA PromiseStarts ==
  ASSUME TypeOK, NEW n \in Nodes, Starts(n)
  PROVE  Promise!Next
<1>1. Phase[n] = "none" /\ (n = Primary \/ Phase[Primary] # "none")
  BY NodeAssumption DEF Starts, Phase
<1>2. Phase' = [Phase EXCEPT ![n] = "live"]
  BY DEF Starts, Phase, TypeOK, ContextTypes
<1>3. Promise!Start(n)
  BY <1>1, <1>2 DEF Starts, KnowledgeKept, Phase, Promise!Start
<1> QED BY <1>3 DEF Promise!Next

LEMMA PromiseEnds ==
  ASSUME MeshInv, NEW n \in Nodes, Ends(n)
  PROVE  Promise!Next
<1>1. Phase[n] = "live"
  BY DEF Ends, Phase
<1>2. Phase' = [Phase EXCEPT ![n] = "over"]
  BY DEF Ends, Phase, MeshInv, TypeOK, ContextTypes
<1>3. \/ known[n] \union failed[n] = Actions
      \/ n # Primary /\ Phase[Primary] = "over"
  BY StoppedKnowsAll, NodeAssumption DEF Ends, MeshInv, Phase
<1>4. Promise!End(n)
  BY <1>1, <1>2, <1>3 DEF Ends, KnowledgeKept, Phase, Promise!End
<1> QED BY <1>4 DEF Promise!Next

LEMMA PromiseComputes ==
  ASSUME TypeOK, NEW n \in Nodes, NEW a \in Actions, Computes(n, a)
  PROVE  Promise!Next
<1>1. Phase[n] = "live" /\ Phase' = Phase
  BY DEF Computes, Phase
<1>2. Promise!Compute(n)
  BY <1>1 DEF Computes, Phase, Promise!Compute
<1> QED BY <1>2 DEF Promise!Next

LEMMA PromiseFails ==
  ASSUME TypeOK, NEW n \in Nodes, NEW a \in Actions, Fails(n, a)
  PROVE  Promise!Next
<1>1. Phase[n] = "live" /\ Phase' = Phase
  BY DEF Fails, Phase
<1>2. Promise!Fail(n)
  BY <1>1 DEF Fails, Phase, Promise!Fail
<1> QED BY <1>2 DEF Promise!Next

LEMMA PromiseLearns ==
  ASSUME MeshInv, NEW n \in Nodes, NEW m \in Nodes, NEW R \in SUBSET Actions,
         Learns(n, m, R)
  PROVE  Promise!Next
<1>1. R \subseteq known[m]
  <2>1. CASE up[m][n] # <<>> /\ R = Head(up[m][n]).results
    BY <2>1, HeadInUp DEF MeshInv, Truth, SendsResults
  <2>2. CASE down[n][m] # <<>> /\ R = Head(down[n][m]).results
    BY <2>2, HeadInDown DEF MeshInv, Truth, SendsResults
  <2> QED BY <2>1, <2>2 DEF Learns, HeardFrom
<1>2. ctx[n] = "live"
  BY DEF Learns, HeardFrom, MeshInv, Order, Answer, InList
<1>3. m # n
  <2>1. server[m][n] = "open" => client[m][n] # "none"
    BY DEF MeshInv, Graph, ConnectsToKnown, Early
  <2>2. InList(n, m) => client[n][m] # "none"
    BY DEF InList
  <2> QED BY <2>1, <2>2 DEF Learns, HeardFrom, MeshInv, Graph, ConnectsToKnown
<1>4. PICK b \in BOOLEAN : Learn(n, R, b)
  BY DEF Learns
<1>5. PICK S \in SUBSET known[m] : known' = [known EXCEPT ![n] = @ \union S]
  <2>1. CASE nulled[n] /\ ~ b
    <3>1. known' = [known EXCEPT ![n] = @ \union {}]
      BY <1>4, <2>1 DEF Learn
    <3> QED BY <3>1
  <2>2. CASE ~ (nulled[n] /\ ~ b)
    <3>1. known' = [known EXCEPT ![n] = @ \union R]
      BY <1>4, <2>2 DEF Learn
    <3> QED BY <1>1, <3>1
  <2> QED BY <2>1, <2>2
<1>6. Phase[n] = "live" /\ Phase' = Phase /\ failed' = failed
  BY <1>2 DEF Learns, Phase
<1>7. Promise!Learn(n, m)
  BY <1>5, <1>6 DEF Phase, Promise!Learn
<1> QED BY <1>3, <1>7 DEF Promise!Next

LEMMA PromiseStep ==
  ASSUME MeshInv, Next
  PROVE  [Promise!Next]_(Promise!vars)
<1>1. TypeOK
  BY DEF MeshInv
<1>2. CASE known' = known /\ failed' = failed /\ ctx' = ctx
  BY <1>2 DEF Promise!vars
<1> QED
  BY <1>1, <1>2, KnowledgeStep, PromiseStarts, PromiseEnds, PromiseComputes,
     PromiseFails, PromiseLearns
  DEF KnowledgeMove, KnowledgeKept, GivesUp

\* The contexts promise what SharedResults promises: results are learnt only
\* from those who know them, and a context is over with all of them but those
\* that executors of its own ended without, or after the primary
\* (controller-app.cpp:828-1258, 1765-1804).
THEOREM MeshIsShared == Spec => IsShared
<1>1. UNCHANGED vars => UNCHANGED Promise!vars
  BY DEF vars, ctxVars, Promise!vars
<1>2. MeshInv /\ [Next]_vars => [Promise!Next]_(Promise!vars)
  BY <1>1, PromiseStep
<1> QED
  BY PromiseInit, <1>2, MeshInvariant, PTL DEF Spec, IsShared, Promise!Spec

=============================================================================

-------------------------- MODULE SctpServerProofs --------------------------
(***************************************************************************)
(* Proofs about SctpServer, for any controllers, connects, streams and     *)
(* number of faults: pending connects have streams of their own, an issued *)
(* connect has an outcome to come, and the sessions of an association that *)
(* has ended leave the server.                                             *)
(***************************************************************************)
EXTENDS SctpServer, SequenceTheorems, TLAPS

-----------------------------------------------------------------------------
(* The inductive invariant.                                                *)

\* A connect async_connect is at work on is new: it is not pending, not issued
\* and not in the server.  A pending connect is not in the server either,
\* unless the handler is about to erase it, and then its callback was called.
Fresh ==
  /\ pending \subseteq asked /\ issued \subseteq asked /\ issue \subseteq issued
  /\ \A c \in Connects : listed[c] > 0 => c \in asked
  /\ \A n \in Nodes : main[n] # NoCall =>
       /\ main[n] \notin pending /\ main[n] \notin issued
       /\ listed[main[n]] = 0
  /\ \A c \in pending : listed[c] = 0 \/ io[From[c]] = c
  /\ \A n \in Nodes : io[n] # NoCall => io[n] \in answered

\* Association k of n with m is established.
Up(n, m, k) == link[n][m] = "up" /\ born[n][m] = k

\* Each entry of a session whose association is not established has a write
\* that waits, or the end of the association is in the socket.
ClientsLeave ==
  \A c \in Connects : listed[c] > 0 /\ ~Up(From[c], To[c], asoc[c]) =>
    writing[c] >= listed[c] \/ LostToCome(From[c], To[c], asoc[c])

AcceptedLeave ==
  \A n \in Nodes : \A s \in accepted[n] :
    Up(n, s.peer, s.asoc) \/ LostToCome(n, s.peer, s.asoc)

\* A message that waits in the socket is followed by the end of its
\* association, if that has ended.
EndComesLast ==
  \A n \in Nodes : \A i \in 1 .. Len(rq[n]) : rq[n][i].is = "data" =>
    \/ Up(n, rq[n][i].peer, rq[n][i].asoc)
    \/ \E j \in i + 1 .. Len(rq[n]) :
         /\ rq[n][j].is = "lost" /\ rq[n][j].peer = rq[n][i].peer
         /\ rq[n][j].asoc = rq[n][i].asoc

IInv == /\ TypeOK /\ Fresh /\ PendingDistinct /\ IssuedHasOutcome
        /\ ClientsLeave /\ AcceptedLeave /\ EndComesLast

-----------------------------------------------------------------------------
(* The socket's queue.                                                     *)

\* What waits in a socket stays when an event is appended.
LEMMA Appended ==
  ASSUME NEW q \in Seq(Events), NEW e \in Events
  PROVE  /\ Append(q, e) \in Seq(Events)
         /\ Len(q) \in Nat /\ Len(Append(q, e)) = Len(q) + 1
         /\ \A i \in 1 .. Len(q) : Append(q, e)[i] = q[i]
         /\ Append(q, e)[Len(q) + 1] = e
BY AppendProperties, LenProperties

\* Receiving takes the first.
LEMMA Received ==
  ASSUME NEW q \in Seq(Events), q # <<>>
  PROVE  /\ Head(q) = q[1] /\ Head(q) \in Events
         /\ Tail(q) \in Seq(Events)
         /\ Len(q) \in Nat /\ Len(q) > 0 /\ Len(Tail(q)) = Len(q) - 1
         /\ \A i \in 1 .. Len(q) - 1 : Tail(q)[i] = q[i + 1]
<1>1. /\ Head(q) = q[1] /\ Head(q) \in Events
      /\ Tail(q) \in Seq(Events) /\ Len(Tail(q)) = Len(q) - 1
      /\ \A i \in 1 .. Len(q) - 1 : Tail(q)[i] = q[i + 1]
  BY HeadTailProperties
<1>2. Len(q) \in Nat /\ Len(q) > 0
  BY EmptySeq, LenProperties
<1> QED
  BY <1>1, <1>2

\* A step that appends an event, and the facts about the queue it keeps.
LEMMA AppendKeeps ==
  ASSUME TypeOK, NEW n \in Nodes, NEW e \in Events,
         rq' = [rq EXCEPT ![n] = Append(@, e)]
  PROVE  /\ rq' \in [Nodes -> Seq(Events)]
         /\ \A p \in Nodes, m \in Addresses :
              /\ Announced(p, m) => Announced(p, m)'
              /\ \A k \in Nat : LostToCome(p, m, k) => LostToCome(p, m, k)'
         /\ e.is \in {"up", "cant", "lost"} => Announced(n, e.peer)'
         /\ e.is = "lost" => LostToCome(n, e.peer, e.asoc)'
<1>1. rq \in [Nodes -> Seq(Events)]
  BY DEF TypeOK, NetworkTypes
<1>2. /\ rq'[n] = Append(rq[n], e)
      /\ \A p \in Nodes \ {n} : rq'[p] = rq[p]
  BY <1>1
<1>3. /\ Len(rq[n]) \in Nat /\ Len(rq'[n]) = Len(rq[n]) + 1
      /\ \A i \in 1 .. Len(rq[n]) : rq'[n][i] = rq[n][i]
      /\ rq'[n][Len(rq[n]) + 1] = e
      /\ rq'[n] \in Seq(Events)
  BY <1>1, <1>2, Appended
<1>4. rq' \in [Nodes -> Seq(Events)]
  BY <1>1, <1>3
<1>5. ASSUME NEW p \in Nodes, NEW m \in Addresses
      PROVE  /\ Announced(p, m) => Announced(p, m)'
             /\ \A k \in Nat : LostToCome(p, m, k) => LostToCome(p, m, k)'
  BY <1>2, <1>3 DEF Announced, LostToCome
<1>6. /\ e.is \in {"up", "cant", "lost"} => Announced(n, e.peer)'
      /\ e.is = "lost" => LostToCome(n, e.peer, e.asoc)'
  BY <1>3 DEF Announced, LostToCome
<1> QED
  BY <1>4, <1>5, <1>6

\* A step that receives the first event loses only what that event says.
LEMMA ReceiveKeeps ==
  ASSUME TypeOK, NEW n \in Nodes, rq[n] # <<>>,
         rq' = [rq EXCEPT ![n] = Tail(@)]
  PROVE  /\ Head(rq[n]) \in Events
         /\ rq' \in [Nodes -> Seq(Events)]
         /\ \A p \in Nodes, m \in Addresses :
              /\ Announced(p, m) =>
                   \/ Announced(p, m)'
                   \/ /\ p = n /\ Head(rq[n]).peer = m
                      /\ Head(rq[n]).is \in {"up", "cant", "lost"}
              /\ \A k \in Nat : LostToCome(p, m, k) =>
                   \/ LostToCome(p, m, k)'
                   \/ /\ p = n /\ Head(rq[n]).peer = m
                      /\ Head(rq[n]).asoc = k /\ Head(rq[n]).is = "lost"
<1>1. rq \in [Nodes -> Seq(Events)]
  BY DEF TypeOK, NetworkTypes
<1>2. /\ rq'[n] = Tail(rq[n])
      /\ \A p \in Nodes \ {n} : rq'[p] = rq[p]
  BY <1>1
<1>3. /\ Head(rq[n]) = rq[n][1] /\ Head(rq[n]) \in Events
      /\ rq'[n] \in Seq(Events)
      /\ Len(rq[n]) \in Nat /\ Len(rq[n]) > 0
      /\ Len(rq'[n]) = Len(rq[n]) - 1
      /\ \A i \in 1 .. Len(rq[n]) - 1 : rq'[n][i] = rq[n][i + 1]
  BY <1>1, <1>2, Received
<1>4. rq' \in [Nodes -> Seq(Events)]
  BY <1>1, <1>3
<1>5. ASSUME NEW i \in 1 .. Len(rq[n])
      PROVE  i = 1 \/ (i - 1 \in 1 .. Len(rq'[n]) /\ rq'[n][i - 1] = rq[n][i])
  <2>1. CASE i # 1
    <3>1. i - 1 \in 1 .. Len(rq[n]) - 1 /\ (i - 1) + 1 = i
      BY <1>3, <2>1
    <3>2. rq'[n][i - 1] = rq[n][i]
      BY <1>3, <3>1
    <3> QED
      BY <1>3, <3>1, <3>2
  <2> QED
    BY <2>1
<1>6. ASSUME NEW p \in Nodes, NEW m \in Addresses, Announced(p, m)
      PROVE  \/ Announced(p, m)'
             \/ /\ p = n /\ Head(rq[n]).peer = m
                /\ Head(rq[n]).is \in {"up", "cant", "lost"}
  <2>1. CASE p # n
    BY <1>2, <1>6, <2>1 DEF Announced
  <2>2. CASE p = n
    <3>1. PICK i \in 1 .. Len(rq[n]) :
            rq[n][i].peer = m /\ rq[n][i].is \in {"up", "cant", "lost"}
      BY <1>6, <2>2 DEF Announced
    <3>2. CASE i = 1
      BY <1>3, <2>2, <3>1, <3>2
    <3>3. CASE i - 1 \in 1 .. Len(rq'[n]) /\ rq'[n][i - 1] = rq[n][i]
      BY <2>2, <3>1, <3>3 DEF Announced
    <3> QED
      BY <1>5, <3>2, <3>3
  <2> QED
    BY <2>1, <2>2
<1>7. ASSUME NEW p \in Nodes, NEW m \in Addresses, NEW k \in Nat,
             LostToCome(p, m, k)
      PROVE  \/ LostToCome(p, m, k)'
             \/ /\ p = n /\ Head(rq[n]).peer = m
                /\ Head(rq[n]).asoc = k /\ Head(rq[n]).is = "lost"
  <2>1. CASE p # n
    BY <1>2, <1>7, <2>1 DEF LostToCome
  <2>2. CASE p = n
    <3>1. PICK i \in 1 .. Len(rq[n]) :
            rq[n][i].is = "lost" /\ rq[n][i].peer = m /\ rq[n][i].asoc = k
      BY <1>7, <2>2 DEF LostToCome
    <3>2. CASE i = 1
      BY <1>3, <2>2, <3>1, <3>2
    <3>3. CASE i - 1 \in 1 .. Len(rq'[n]) /\ rq'[n][i - 1] = rq[n][i]
      BY <2>2, <3>1, <3>3 DEF LostToCome
    <3> QED
      BY <1>5, <3>2, <3>3
  <2> QED
    BY <2>1, <2>2
<1> QED
  BY <1>3, <1>4, <1>6, <1>7

-----------------------------------------------------------------------------
(* Type correctness.                                                       *)

LEMMA StreamType ==
  ASSUME TypeOK, NEW n \in Nodes, NEW o \in 0 .. MaxStreams - 1
  PROVE  At(n, o) \in 0 .. MaxStreams - 1
<1>1. next[n] + o \in Nat /\ MaxStreams \in Nat /\ MaxStreams > 0
  BY BoundAssumption DEF TypeOK, SessionTypes
<1> QED
  BY <1>1 DEF At

\* Pushing sessions and calling their callbacks.
LEMMA PushType ==
  ASSUME TypeOK, NEW S \in SUBSET Connects
  PROVE  /\ PushBack(S) => listed' \in [Connects -> Nat]
         /\ CallBack(S) => writing' \in [Connects -> Nat]
<1>1. /\ listed \in [Connects -> Nat] /\ writing \in [Connects -> Nat]
  BY DEF TypeOK, SessionTypes
<1>2. \A c \in Connects : /\ listed[c] + (IF c \in S THEN 1 ELSE 0) \in Nat
                          /\ writing[c] + (IF c \in S THEN 1 ELSE 0) \in Nat
  BY <1>1
<1> QED
  BY <1>2 DEF PushBack, CallBack

\* The state of one association changes.
LEMMA LinkType ==
  ASSUME TypeOK, NEW n \in Nodes, NEW m \in Addresses,
         NEW l \in {"none", "setup", "up"}, NEW k \in Nat
  PROVE  /\ [link EXCEPT ![n][m] = l] \in [Nodes -> [Addresses -> {"none", "setup", "up"}]]
         /\ [born EXCEPT ![n][m] = k] \in [Nodes -> [Addresses -> Nat]]
BY DEF TypeOK, NetworkTypes

LEMMA InitType == Init => TypeOK
BY ConnectAssumption, BoundAssumption 
   DEF Init, TypeOK, SessionTypes, CallTypes, NetworkTypes, Addresses

LEMMA NextType == TypeOK /\ [NextStep]_vars => TypeOK'
<1> SUFFICES ASSUME TypeOK, [NextStep]_vars PROVE TypeOK'
  OBVIOUS
<1> USE ConnectAssumption, BoundAssumption
    DEF Addresses, serverVars, idVars, mainVars, ioVars, netVars, historyVars
<1>1. ASSUME NEW c \in Connects, Lookup(c) PROVE TypeOK'
  <2>11. SessionTypes'
    BY <1>1 DEF TypeOK, SessionTypes, Lookup
  <2>12. CallTypes'
    <3>1. /\ main' = [main EXCEPT ![From[c]] = c] /\ asked' = asked \union {c}
          /\ \A n \in Nodes : main'[n] # NoCall => main'[n] \in asked' /\ From[main'[n]] = n
      BY <1>1 DEF TypeOK, CallTypes, Lookup
    <3>2. seen' \in [Nodes -> Nat]
      BY <1>1 DEF TypeOK, CallTypes, NetworkTypes, Lookup
    <3> QED
      BY <1>1, <3>1, <3>2 DEF TypeOK, CallTypes, Lookup
  <2>13. NetworkTypes'
    BY <1>1 DEF TypeOK, NetworkTypes, Lookup
  <2> QED
    BY <2>11, <2>12, <2>13 DEF TypeOK
<1>2. ASSUME NEW c \in Connects, Reserve(c) PROVE TypeOK'
  <2>1. PICK o \in 0 .. MaxStreams - 1 :
          /\ next' = [next EXCEPT ![From[c]] = At(From[c], o)]
          /\ sid' = [sid EXCEPT ![c] = At(From[c], o)]
          /\ issue' = IF o = 0 THEN issue \union {c} ELSE issue
          /\ issued' = IF o = 0 THEN issued \union {c} ELSE issued
    BY <1>2 DEF Reserve
  <2>2. At(From[c], o) \in 0 .. MaxStreams - 1
    BY StreamType
  <2>11. SessionTypes'
    BY <1>2, <2>1, <2>2 DEF TypeOK, SessionTypes, Reserve
  <2>12. CallTypes'
    BY <1>2, <2>1, <2>2 DEF TypeOK, CallTypes, Reserve
  <2>13. NetworkTypes'
    BY <1>2, <2>1, <2>2 DEF TypeOK, NetworkTypes, Reserve
  <2> QED
    BY <2>11, <2>12, <2>13 DEF TypeOK
<1>3. ASSUME NEW c \in Connects, Reuse(c) PROVE TypeOK'
  <2>1. PICK o \in 0 .. MaxStreams - 1 :
          /\ next' = [next EXCEPT ![From[c]] = At(From[c], o)]
          /\ sid' = [sid EXCEPT ![c] = At(From[c], o)]
    BY <1>3 DEF Reuse
  <2>2. At(From[c], o) \in 0 .. MaxStreams - 1
    BY StreamType
  <2>11. SessionTypes'
    <3>1. {c} \in SUBSET Connects /\ seen[From[c]] \in Nat
      BY DEF TypeOK, CallTypes
    <3>2. listed' \in [Connects -> Nat] /\ writing' \in [Connects -> Nat]
      BY <1>3, <3>1, PushType DEF Reuse
    <3> QED
      BY <1>3, <2>1, <2>2, <3>1, <3>2 DEF TypeOK, SessionTypes, Reuse
  <2>12. CallTypes'
    BY <1>3, <2>1, <2>2 DEF TypeOK, CallTypes, Reuse, PushBack, CallBack
  <2>13. NetworkTypes'
    BY <1>3, <2>1, <2>2 DEF TypeOK, NetworkTypes, Reuse, PushBack, CallBack
  <2> QED
    BY <2>11, <2>12, <2>13 DEF TypeOK
<1>4. ASSUME NEW c \in Connects, NoStream(c) PROVE TypeOK'
  <2>11. SessionTypes'
    BY <1>4 DEF TypeOK, SessionTypes, NoStream
  <2>12. CallTypes'
    BY <1>4 DEF TypeOK, CallTypes, NoStream
  <2>13. NetworkTypes'
    BY <1>4 DEF TypeOK, NetworkTypes, NoStream
  <2> QED
    BY <2>11, <2>12, <2>13 DEF TypeOK
<1>5. ASSUME NEW c \in Connects, Connect(c) PROVE TypeOK'
  <2>11. SessionTypes'
    BY <1>5 DEF TypeOK, SessionTypes, Connect
  <2>12. CallTypes'
    BY <1>5 DEF TypeOK, CallTypes, Connect
  <2>13. NetworkTypes'
    <3> DEFINE k == IF link[From[c]][To[c]] = "none"
                    THEN born[From[c]][To[c]] + 1 ELSE born[From[c]][To[c]]
    <3>1. k \in Nat /\ born' = [born EXCEPT ![From[c]][To[c]] = k]
      BY <1>5 DEF TypeOK, NetworkTypes, Connect
    <3> HIDE DEF k
    <3>2. born' \in [Nodes -> [Addresses -> Nat]]
      BY <3>1, LinkType
    <3>3. link' \in [Nodes -> [Addresses -> {"none", "setup", "up"}]]
      BY <1>5, LinkType DEF Connect
    <3> QED
      BY <1>5, <3>2, <3>3 DEF TypeOK, NetworkTypes, Connect
  <2> QED
    BY <2>11, <2>12, <2>13 DEF TypeOK
<1>6. ASSUME NEW c \in Connects, IsConnected(c) PROVE TypeOK'
  <2>11. SessionTypes'
    <3>1. {c} \in SUBSET Connects /\ born[From[c]][To[c]] \in Nat
      BY DEF TypeOK, NetworkTypes
    <3>2. listed' \in [Connects -> Nat] /\ writing' \in [Connects -> Nat]
      BY <1>6, <3>1, PushType DEF IsConnected
    <3> QED
      BY <1>6, <3>1, <3>2 DEF TypeOK, SessionTypes, IsConnected
  <2>12. CallTypes'
    BY <1>6 DEF TypeOK, CallTypes, IsConnected, PushBack, CallBack
  <2>13. NetworkTypes'
    BY <1>6 DEF TypeOK, NetworkTypes, IsConnected, PushBack, CallBack
  <2> QED
    BY <2>11, <2>12, <2>13 DEF TypeOK
<1>7. ASSUME NEW c \in Connects, ConnectFails(c) PROVE TypeOK'
  <2>11. SessionTypes'
    BY <1>7 DEF TypeOK, SessionTypes, ConnectFails
  <2>12. CallTypes'
    BY <1>7 DEF TypeOK, CallTypes, ConnectFails
  <2>13. NetworkTypes'
    BY <1>7 DEF TypeOK, NetworkTypes, ConnectFails
  <2> QED
    BY <2>11, <2>12, <2>13 DEF TypeOK
<1>8. ASSUME NEW n \in Nodes, Erase(n) PROVE TypeOK'
  <2>11. SessionTypes'
    BY <1>8 DEF TypeOK, SessionTypes, Erase
  <2>12. CallTypes'
    BY <1>8 DEF TypeOK, CallTypes, Erase
  <2>13. NetworkTypes'
    BY <1>8 DEF TypeOK, NetworkTypes, Erase
  <2> QED
    BY <2>11, <2>12, <2>13 DEF TypeOK
<1>9. ASSUME NEW n \in Nodes, CommUp(n) PROVE TypeOK'
  <2>1. /\ Head(rq[n]) \in Events /\ rq' \in [Nodes -> Seq(Events)]
    BY <1>9, ReceiveKeeps DEF CommUp, Next
  <2>11. SessionTypes'
    <3>1. /\ PendingTo(n, Head(rq[n]).peer) \in SUBSET Connects
          /\ Head(rq[n]).asoc \in Nat
      BY <2>1 DEF TypeOK, CallTypes, PendingTo, Events
    <3>2. listed' \in [Connects -> Nat] /\ writing' \in [Connects -> Nat]
      BY <1>9, <3>1, PushType DEF CommUp
    <3> QED
      BY <1>9, <3>1, <3>2 DEF TypeOK, SessionTypes, CommUp
  <2>12. CallTypes'
    BY <1>9, <2>1 DEF TypeOK, CallTypes, CommUp, Events, PushBack, CallBack, PendingTo
  <2>13. NetworkTypes'
    BY <1>9, <2>1 DEF TypeOK, NetworkTypes, CommUp, Events, PushBack, CallBack, PendingTo
  <2> QED
    BY <2>11, <2>12, <2>13 DEF TypeOK
<1>10. ASSUME NEW n \in Nodes, CantStart(n) PROVE TypeOK'
  <2>1. /\ Head(rq[n]) \in Events /\ rq' \in [Nodes -> Seq(Events)]
    BY <1>10, ReceiveKeeps DEF CantStart, Next
  <2>11. SessionTypes'
    BY <1>10, <2>1 DEF TypeOK, SessionTypes, CantStart, PendingTo
  <2>12. CallTypes'
    BY <1>10, <2>1 DEF TypeOK, CallTypes, CantStart, PendingTo
  <2>13. NetworkTypes'
    BY <1>10, <2>1 DEF TypeOK, NetworkTypes, CantStart, PendingTo
  <2> QED
    BY <2>11, <2>12, <2>13 DEF TypeOK
<1>11. ASSUME NEW n \in Nodes, CommLost(n) PROVE TypeOK'
  <2>1. /\ Head(rq[n]) \in Events /\ rq' \in [Nodes -> Seq(Events)]
    BY <1>11, ReceiveKeeps DEF CommLost, Next
  <2>11. SessionTypes'
    BY <1>11, <2>1 DEF TypeOK, SessionTypes, CommLost, AcceptedOn
  <2>12. CallTypes'
    BY <1>11, <2>1 DEF TypeOK, CallTypes, CommLost, AcceptedOn
  <2>13. NetworkTypes'
    BY <1>11, <2>1 DEF TypeOK, NetworkTypes, CommLost, AcceptedOn
  <2> QED
    BY <2>11, <2>12, <2>13 DEF TypeOK
<1>12. ASSUME NEW n \in Nodes, Message(n) PROVE TypeOK'
  <2>1. /\ Head(rq[n]) \in Events /\ rq' \in [Nodes -> Seq(Events)]
    BY <1>12, ReceiveKeeps DEF Message, Next
  <2>11. SessionTypes'
    <3>1. [peer |-> Head(rq[n]).peer, asoc |-> Head(rq[n]).asoc,
           sid |-> Head(rq[n]).sid]
            \in [peer : Addresses, asoc : Nat, sid : 0 .. MaxStreams - 1]
      BY <2>1 DEF Events
    <3>2. accepted' \in [Nodes -> SUBSET [peer : Addresses, asoc : Nat,
                                         sid : 0 .. MaxStreams - 1]]
      <4> DEFINE session == [peer |-> Head(rq[n]).peer, asoc |-> Head(rq[n]).asoc,
                             sid |-> Head(rq[n]).sid]
      <4>1. \/ accepted' = accepted
            \/ accepted' = [accepted EXCEPT ![n] = @ \union {session}]
        BY <1>12 DEF Message
      <4>2. session \in [peer : Addresses, asoc : Nat, sid : 0 .. MaxStreams - 1]
        BY <3>1
      <4> HIDE DEF session
      <4> QED
        BY <4>1, <4>2 DEF TypeOK, SessionTypes
    <3> QED
      BY <1>12, <3>2 DEF TypeOK, SessionTypes, Message
  <2>12. CallTypes'
    <3>1. PICK c \in Connects \union {NoCall} :
            heard' = heard \union {<<Head(rq[n]).of, c>>}
      BY <1>12 DEF Message, ClientsOn
    <3>2. Head(rq[n]).of \in Connects \union {NoCall}
      BY <2>1 DEF Events
    <3> QED
      BY <1>12, <3>1, <3>2 DEF TypeOK, CallTypes, Message
  <2>13. NetworkTypes'
    BY <1>12, <2>1 DEF TypeOK, NetworkTypes, Message, ClientsOn, Events
  <2> QED
    BY <2>11, <2>12, <2>13 DEF TypeOK
<1>13. ASSUME NEW c \in Connects, Send(c) PROVE TypeOK'
  <2> DEFINE e == [is |-> "data", peer |-> From[c], asoc |-> born[To[c]][From[c]],
                   sid |-> sid[c], of |-> c]
  <2>1. To[c] \in Nodes /\ e \in Events
    BY <1>13 DEF TypeOK, SessionTypes, NetworkTypes, Send, Events
  <2>2. rq' \in [Nodes -> Seq(Events)]
    BY <1>13, <2>1, AppendKeeps DEF Send
  <2>11. SessionTypes'
    BY <1>13, <2>2 DEF TypeOK, SessionTypes, Send
  <2>12. CallTypes'
    BY <1>13, <2>2 DEF TypeOK, CallTypes, Send
  <2>13. NetworkTypes'
    BY <1>13, <2>2 DEF TypeOK, NetworkTypes, Send
  <2> QED
    BY <2>11, <2>12, <2>13 DEF TypeOK
<1>14. ASSUME NEW c \in Connects, SendFails(c) PROVE TypeOK'
  <2>11. SessionTypes'
    BY <1>14 DEF TypeOK, SessionTypes, SendFails, Remove
  <2>12. CallTypes'
    BY <1>14 DEF TypeOK, CallTypes, SendFails, Remove
  <2>13. NetworkTypes'
    BY <1>14 DEF TypeOK, NetworkTypes, SendFails, Remove
  <2> QED
    BY <2>11, <2>12, <2>13 DEF TypeOK
<1>15. ASSUME NEW c \in Connects, Close(c) PROVE TypeOK'
  <2>11. SessionTypes'
    BY <1>15 DEF TypeOK, SessionTypes, Close, Remove
  <2>12. CallTypes'
    BY <1>15 DEF TypeOK, CallTypes, Close, Remove
  <2>13. NetworkTypes'
    BY <1>15 DEF TypeOK, NetworkTypes, Close, Remove
  <2> QED
    BY <2>11, <2>12, <2>13 DEF TypeOK
<1>16. ASSUME NEW n \in Nodes, CloseAccepted(n) PROVE TypeOK'
  <2>11. SessionTypes'
    BY <1>16 DEF TypeOK, SessionTypes, CloseAccepted
  <2>12. CallTypes'
    BY <1>16 DEF TypeOK, CallTypes, CloseAccepted
  <2>13. NetworkTypes'
    BY <1>16 DEF TypeOK, NetworkTypes, CloseAccepted
  <2> QED
    BY <2>11, <2>12, <2>13 DEF TypeOK
<1>17. ASSUME NEW n \in Nodes, NEW m \in Addresses, Accept(n, m) PROVE TypeOK'
  <2> DEFINE k == IF link[m][n] = "none" THEN born[m][n] + 1 ELSE born[m][n]
  <2>1. m \in Nodes /\ k \in Nat
    BY <1>17 DEF TypeOK, NetworkTypes, Accept
  <2>2. Event("up", n, k) \in Events
    BY <2>1 DEF Event, Events
  <2>3. rq' \in [Nodes -> Seq(Events)]
    BY <1>17, <2>1, <2>2, AppendKeeps DEF Accept
  <2>11. SessionTypes'
    BY <1>17, <2>1, <2>3 DEF TypeOK, SessionTypes, Accept
  <2>12. CallTypes'
    BY <1>17, <2>1, <2>3 DEF TypeOK, CallTypes, Accept
  <2>13. NetworkTypes'
    BY <1>17, <2>1, <2>3 DEF TypeOK, NetworkTypes, Accept
  <2> QED
    BY <2>11, <2>12, <2>13 DEF TypeOK
<1>18. ASSUME NEW n \in Nodes, NEW m \in Addresses, Confirm(n, m) PROVE TypeOK'
  <2>1. Event("up", m, born[n][m]) \in Events
    BY DEF TypeOK, NetworkTypes, Event, Events
  <2>2. rq' \in [Nodes -> Seq(Events)]
    BY <1>18, <2>1, AppendKeeps DEF Confirm
  <2>11. SessionTypes'
    BY <1>18, <2>2 DEF TypeOK, SessionTypes, Confirm
  <2>12. CallTypes'
    BY <1>18, <2>2 DEF TypeOK, CallTypes, Confirm
  <2>13. NetworkTypes'
    BY <1>18, <2>2 DEF TypeOK, NetworkTypes, Confirm
  <2> QED
    BY <2>11, <2>12, <2>13 DEF TypeOK
<1>19. ASSUME NEW n \in Nodes, NEW m \in Addresses, GiveUp(n, m) PROVE TypeOK'
  <2>1. Event("cant", m, born[n][m]) \in Events
    BY DEF TypeOK, NetworkTypes, Event, Events
  <2>2. rq' \in [Nodes -> Seq(Events)]
    BY <1>19, <2>1, AppendKeeps DEF GiveUp
  <2>11. SessionTypes'
    BY <1>19, <2>2 DEF TypeOK, SessionTypes, GiveUp
  <2>12. CallTypes'
    BY <1>19, <2>2 DEF TypeOK, CallTypes, GiveUp
  <2>13. NetworkTypes'
    <3>1. link' \in [Nodes -> [Addresses -> {"none", "setup", "up"}]]
      BY <1>19, LinkType DEF GiveUp
    <3>2. faults' \in 0 .. MaxFaults
      <4>1. CASE m \in Nodes
        BY <1>19, <4>1 DEF TypeOK, NetworkTypes, GiveUp
      <4>2. CASE m \notin Nodes
        BY <1>19, <4>2 DEF TypeOK, NetworkTypes, GiveUp
      <4> QED
        BY <4>1, <4>2
    <3> QED
      BY <1>19, <2>2, <3>1, <3>2 DEF TypeOK, NetworkTypes, GiveUp
  <2> QED
    BY <2>11, <2>12, <2>13 DEF TypeOK
<1>20. ASSUME NEW n \in Nodes, NEW m \in Addresses, Break(n, m) PROVE TypeOK'
  <2>1. /\ m \in Nodes
        /\ Event("lost", m, born[n][m]) \in Events
        /\ Event("lost", n, born[m][n]) \in Events
    BY <1>20 DEF TypeOK, NetworkTypes, Break, Event, Events
  <2>2. rq' \in [Nodes -> Seq(Events)]
    BY <1>20, <2>1, Appended DEF Break, TypeOK, NetworkTypes
  <2>11. SessionTypes'
    BY <1>20, <2>1, <2>2 DEF TypeOK, SessionTypes, Break
  <2>12. CallTypes'
    BY <1>20, <2>1, <2>2 DEF TypeOK, CallTypes, Break
  <2>13. NetworkTypes'
    <3>1. link' \in [Nodes -> [Addresses -> {"none", "setup", "up"}]]
      BY <1>20, <2>1 DEF TypeOK, NetworkTypes, Break
    <3>2. faults' \in 0 .. MaxFaults
      BY <1>20 DEF TypeOK, NetworkTypes, Break
    <3> QED
      BY <1>20, <2>2, <3>1, <3>2 DEF TypeOK, NetworkTypes, Break
  <2> QED
    BY <2>11, <2>12, <2>13 DEF TypeOK
<1>21. CASE UNCHANGED vars
  BY <1>21 DEF TypeOK, SessionTypes, CallTypes, NetworkTypes, vars
<1> QED
  BY <1>1, <1>2, <1>3, <1>4, <1>5, <1>6, <1>7, <1>8, <1>9, <1>10, <1>11, <1>12,
     <1>13, <1>14, <1>15, <1>16, <1>17, <1>18, <1>19, <1>20, <1>21
     DEF NextStep, Calling, AsyncConnect, IoThread, Handler, Write, Read,
         HttpLayer, Handshakes, Handshake

-----------------------------------------------------------------------------
(* Connects that are new, pending or issued.                               *)

LEMMA InitFresh == Init => Fresh
BY DEF Init, Fresh

LEMMA NextFresh == TypeOK /\ Fresh /\ [NextStep]_vars => Fresh'
<1> SUFFICES ASSUME TypeOK, Fresh, [NextStep]_vars PROVE Fresh'
  OBVIOUS
<1> USE ConnectAssumption, BoundAssumption
    DEF serverVars, idVars, mainVars, ioVars, netVars, historyVars
<1>1. ASSUME NEW c \in Connects, Lookup(c) PROVE Fresh'
  BY <1>1 DEF Fresh, TypeOK, SessionTypes, CallTypes, Lookup
<1>2. ASSUME NEW c \in Connects, Reserve(c) PROVE Fresh'
  BY <1>2 DEF Fresh, TypeOK, SessionTypes, CallTypes, Reserve
<1>3. ASSUME NEW c \in Connects, Reuse(c) PROVE Fresh'
  BY <1>3 DEF Fresh, TypeOK, SessionTypes, CallTypes, Reuse, PushBack, CallBack
<1>4. ASSUME NEW c \in Connects, NoStream(c) PROVE Fresh'
  BY <1>4 DEF Fresh, TypeOK, SessionTypes, CallTypes, NoStream
<1>5. ASSUME NEW c \in Connects, Connect(c) PROVE Fresh'
  BY <1>5 DEF Fresh, TypeOK, SessionTypes, CallTypes, Connect
<1>6. ASSUME NEW c \in Connects, IsConnected(c) PROVE Fresh'
  BY <1>6 DEF Fresh, TypeOK, SessionTypes, CallTypes, IsConnected, PushBack, CallBack
<1>7. ASSUME NEW c \in Connects, ConnectFails(c) PROVE Fresh'
  BY <1>7 DEF Fresh, TypeOK, SessionTypes, CallTypes, ConnectFails
<1>8. ASSUME NEW n \in Nodes, Erase(n) PROVE Fresh'
  BY <1>8 DEF Fresh, TypeOK, SessionTypes, CallTypes, Erase
<1>9. ASSUME NEW n \in Nodes, CommUp(n) PROVE Fresh'
  BY <1>9 DEF Fresh, TypeOK, SessionTypes, CallTypes, CommUp, Next, PushBack, CallBack, PendingTo
<1>10. ASSUME NEW n \in Nodes, CantStart(n) PROVE Fresh'
  BY <1>10 DEF Fresh, TypeOK, SessionTypes, CallTypes, CantStart, PendingTo
<1>11. ASSUME NEW n \in Nodes, CommLost(n) PROVE Fresh'
  BY <1>11 DEF Fresh, TypeOK, SessionTypes, CallTypes, CommLost, PendingTo
<1>12. ASSUME NEW n \in Nodes, Message(n) PROVE Fresh'
  BY <1>12 DEF Fresh, TypeOK, SessionTypes, CallTypes, Message
<1>13. ASSUME NEW c \in Connects, Send(c) PROVE Fresh'
  BY <1>13 DEF Fresh, TypeOK, SessionTypes, CallTypes, Send
<1>14. ASSUME NEW c \in Connects, SendFails(c) PROVE Fresh'
  BY <1>14 DEF Fresh, TypeOK, SessionTypes, CallTypes, SendFails, Remove
<1>15. ASSUME NEW c \in Connects, Close(c) PROVE Fresh'
  BY <1>15 DEF Fresh, TypeOK, SessionTypes, CallTypes, Close, Remove
<1>16. ASSUME NEW n \in Nodes, CloseAccepted(n) PROVE Fresh'
  BY <1>16 DEF Fresh, TypeOK, SessionTypes, CallTypes, CloseAccepted
<1>17. ASSUME NEW n \in Nodes, NEW m \in Addresses, Accept(n, m) PROVE Fresh'
  BY <1>17 DEF Fresh, TypeOK, SessionTypes, CallTypes, Accept
<1>18. ASSUME NEW n \in Nodes, NEW m \in Addresses, Confirm(n, m) PROVE Fresh'
  BY <1>18 DEF Fresh, TypeOK, SessionTypes, CallTypes, Confirm
<1>19. ASSUME NEW n \in Nodes, NEW m \in Addresses, GiveUp(n, m) PROVE Fresh'
  BY <1>19 DEF Fresh, TypeOK, SessionTypes, CallTypes, GiveUp
<1>20. ASSUME NEW n \in Nodes, NEW m \in Addresses, Break(n, m) PROVE Fresh'
  BY <1>20 DEF Fresh, TypeOK, SessionTypes, CallTypes, Break
<1>21. CASE UNCHANGED vars
  BY <1>21 DEF Fresh, TypeOK, SessionTypes, CallTypes, vars
<1> QED
  BY <1>1, <1>2, <1>3, <1>4, <1>5, <1>6, <1>7, <1>8, <1>9, <1>10, <1>11,
     <1>12, <1>13, <1>14, <1>15, <1>16, <1>17, <1>18, <1>19, <1>20, <1>21
     DEF NextStep, Calling, AsyncConnect, IoThread, Handler, Write, Read,
         HttpLayer, Handshakes, Handshake

-----------------------------------------------------------------------------
(* Streams of pending connects.                                            *)

LEMMA NextDistinct == TypeOK /\ PendingDistinct /\ [NextStep]_vars => PendingDistinct'
<1> SUFFICES ASSUME TypeOK, PendingDistinct, [NextStep]_vars PROVE PendingDistinct'
  OBVIOUS
<1> USE ConnectAssumption, BoundAssumption
    DEF serverVars, idVars, mainVars, ioVars, netVars, historyVars
<1>1. ASSUME NEW c \in Connects, Lookup(c) PROVE PendingDistinct'
  BY <1>1 DEF PendingDistinct, Lookup
<1>2. ASSUME NEW c \in Connects, Reserve(c) PROVE PendingDistinct'
  BY <1>2 DEF PendingDistinct, TypeOK, SessionTypes, CallTypes, Reserve,
          FirstFree, PendingStreams, PendingTo
<1>3. ASSUME NEW c \in Connects, Reuse(c) PROVE PendingDistinct'
  BY <1>3 DEF PendingDistinct, TypeOK, SessionTypes, CallTypes, Reuse,
          FirstFree, PendingStreams, PendingTo
<1>4. ASSUME NEW c \in Connects, NoStream(c) PROVE PendingDistinct'
  BY <1>4 DEF PendingDistinct, NoStream
<1>5. ASSUME NEW c \in Connects, Connect(c) PROVE PendingDistinct'
  BY <1>5 DEF PendingDistinct, Connect
<1>6. ASSUME NEW c \in Connects, IsConnected(c) PROVE PendingDistinct'
  BY <1>6 DEF PendingDistinct, IsConnected
<1>7. ASSUME NEW c \in Connects, ConnectFails(c) PROVE PendingDistinct'
  BY <1>7 DEF PendingDistinct, ConnectFails
<1>8. ASSUME NEW n \in Nodes, Erase(n) PROVE PendingDistinct'
  BY <1>8 DEF PendingDistinct, Erase
<1>9. ASSUME NEW n \in Nodes, CommUp(n) PROVE PendingDistinct'
  BY <1>9 DEF PendingDistinct, CommUp
<1>10. ASSUME NEW n \in Nodes, CantStart(n) PROVE PendingDistinct'
  BY <1>10 DEF PendingDistinct, CantStart
<1>11. ASSUME NEW n \in Nodes, CommLost(n) PROVE PendingDistinct'
  BY <1>11 DEF PendingDistinct, CommLost
<1>12. ASSUME NEW n \in Nodes, Message(n) PROVE PendingDistinct'
  BY <1>12 DEF PendingDistinct, Message
<1>13. ASSUME NEW c \in Connects, Send(c) PROVE PendingDistinct'
  BY <1>13 DEF PendingDistinct, Send
<1>14. ASSUME NEW c \in Connects, SendFails(c) PROVE PendingDistinct'
  BY <1>14 DEF PendingDistinct, SendFails
<1>15. ASSUME NEW c \in Connects, Close(c) PROVE PendingDistinct'
  BY <1>15 DEF PendingDistinct, Close
<1>16. ASSUME NEW n \in Nodes, CloseAccepted(n) PROVE PendingDistinct'
  BY <1>16 DEF PendingDistinct, CloseAccepted
<1>17. ASSUME NEW n \in Nodes, NEW m \in Addresses, Accept(n, m) PROVE PendingDistinct'
  BY <1>17 DEF PendingDistinct, Accept
<1>18. ASSUME NEW n \in Nodes, NEW m \in Addresses, Confirm(n, m) PROVE PendingDistinct'
  BY <1>18 DEF PendingDistinct, Confirm
<1>19. ASSUME NEW n \in Nodes, NEW m \in Addresses, GiveUp(n, m) PROVE PendingDistinct'
  BY <1>19 DEF PendingDistinct, GiveUp
<1>20. ASSUME NEW n \in Nodes, NEW m \in Addresses, Break(n, m) PROVE PendingDistinct'
  BY <1>20 DEF PendingDistinct, Break
<1>21. CASE UNCHANGED vars
  BY <1>21 DEF PendingDistinct, vars
<1> QED
  BY <1>1, <1>2, <1>3, <1>4, <1>5, <1>6, <1>7, <1>8, <1>9, <1>10, <1>11,
     <1>12, <1>13, <1>14, <1>15, <1>16, <1>17, <1>18, <1>19, <1>20, <1>21
     DEF NextStep, Calling, AsyncConnect, IoThread, Handler, Write, Read,
         HttpLayer, Handshakes, Handshake

-----------------------------------------------------------------------------
(* Outcomes.                                                               *)

\* Both ends of an association that ends hear of it.
LEMMA BreakKeeps ==
  ASSUME TypeOK, NEW n \in Nodes, NEW m \in Addresses, Break(n, m)
  PROVE  /\ m \in Nodes
         /\ \A p \in Nodes, q \in Addresses :
              /\ Announced(p, q) => Announced(p, q)'
              /\ \A k \in Nat : LostToCome(p, q, k) => LostToCome(p, q, k)'
         /\ LostToCome(n, m, born[n][m])' /\ LostToCome(m, n, born[m][n])'
         /\ \A p \in Nodes :
              /\ Len(rq[p]) \in Nat /\ Len(rq'[p]) \in Nat
              /\ Len(rq'[p]) >= Len(rq[p])
              /\ \A i \in 1 .. Len(rq[p]) : rq'[p][i] = rq[p][i]
              /\ \A i \in Len(rq[p]) + 1 .. Len(rq'[p]) : rq'[p][i].is = "lost"
              /\ p = n => \E i \in Len(rq[p]) + 1 .. Len(rq'[p]) :
                             rq'[p][i].peer = m /\ rq'[p][i].asoc = born[n][m]
              /\ p = m => \E i \in Len(rq[p]) + 1 .. Len(rq'[p]) :
                             rq'[p][i].peer = n /\ rq'[p][i].asoc = born[m][n]
<1> DEFINE e == Event("lost", m, born[n][m])
           f == Event("lost", n, born[m][n])
<1>1. m \in Nodes \ {n} /\ n \in Addresses /\ rq \in [Nodes -> Seq(Events)]
  BY DEF Break, TypeOK, NetworkTypes, Addresses
<1>2. /\ e \in Events /\ f \in Events
      /\ e.is = "lost" /\ e.peer = m /\ e.asoc = born[n][m]
      /\ f.is = "lost" /\ f.peer = n /\ f.asoc = born[m][n]
  <2>1. born[n][m] \in Nat /\ born[m][n] \in Nat
    BY <1>1 DEF TypeOK, NetworkTypes
  <2>2. 0 \in 0 .. MaxStreams - 1
    BY BoundAssumption
  <2> QED
    BY <1>1, <2>1, <2>2 DEF Event, Events
<1>3. rq' = [rq EXCEPT ![n] = Append(@, e), ![m] = Append(@, f)]
  BY DEF Break
<1> HIDE DEF e, f
<1>4. /\ rq'[n] = Append(rq[n], e) /\ rq'[m] = Append(rq[m], f)
      /\ \A p \in Nodes : p # n /\ p # m => rq'[p] = rq[p]
  BY <1>1, <1>3
<1>5. /\ Len(rq[n]) \in Nat /\ Len(rq'[n]) = Len(rq[n]) + 1
      /\ \A i \in 1 .. Len(rq[n]) : rq'[n][i] = rq[n][i]
      /\ rq'[n][Len(rq[n]) + 1] = e
  BY <1>1, <1>2, <1>4, Appended
<1>6. /\ Len(rq[m]) \in Nat /\ Len(rq'[m]) = Len(rq[m]) + 1
      /\ \A i \in 1 .. Len(rq[m]) : rq'[m][i] = rq[m][i]
      /\ rq'[m][Len(rq[m]) + 1] = f
  BY <1>1, <1>2, <1>4, Appended
<1>7. \A p \in Nodes : Len(rq[p]) \in Nat /\ Len(rq'[p]) \in Nat
  BY <1>1, <1>4, <1>5, <1>6, LenProperties
<1>8. ASSUME NEW p \in Nodes
      PROVE  /\ Len(rq'[p]) >= Len(rq[p])
             /\ \A i \in 1 .. Len(rq[p]) : rq'[p][i] = rq[p][i]
             /\ \A i \in Len(rq[p]) + 1 .. Len(rq'[p]) : rq'[p][i].is = "lost"
             /\ p = n => \E i \in Len(rq[p]) + 1 .. Len(rq'[p]) :
                            rq'[p][i].peer = m /\ rq'[p][i].asoc = born[n][m]
             /\ p = m => \E i \in Len(rq[p]) + 1 .. Len(rq'[p]) :
                            rq'[p][i].peer = n /\ rq'[p][i].asoc = born[m][n]
  <2>1. CASE p = n
    <3>1. Len(rq[n]) + 1 .. Len(rq'[n]) = {Len(rq[n]) + 1}
      BY <1>5
    <3>2. LET i == Len(rq[n]) + 1
          IN  /\ rq'[n][i].is = "lost" /\ rq'[n][i].peer = m
              /\ rq'[n][i].asoc = born[n][m]
      BY <1>2, <1>5
    <3>3. Len(rq'[n]) >= Len(rq[n])
      BY <1>5
    <3> HIDE <1>2
    <3> QED
      BY <1>1, <1>5, <2>1, <3>1, <3>2, <3>3
  <2>2. CASE p = m
    <3>1. Len(rq[m]) + 1 .. Len(rq'[m]) = {Len(rq[m]) + 1}
      BY <1>6
    <3>2. LET i == Len(rq[m]) + 1
          IN  /\ rq'[m][i].is = "lost" /\ rq'[m][i].peer = n
              /\ rq'[m][i].asoc = born[m][n]
      BY <1>2, <1>6
    <3>3. Len(rq'[m]) >= Len(rq[m])
      BY <1>6
    <3> HIDE <1>2
    <3> QED
      BY <1>1, <1>6, <2>2, <3>1, <3>2, <3>3
  <2>3. CASE p # n /\ p # m
    BY <1>4, <1>7, <2>3
  <2> QED
    BY <2>1, <2>2, <2>3
<1>9. ASSUME NEW p \in Nodes, NEW q \in Addresses
      PROVE  /\ Announced(p, q) => Announced(p, q)'
             /\ \A k \in Nat : LostToCome(p, q, k) => LostToCome(p, q, k)'
  <2>1. \A i \in 1 .. Len(rq[p]) :
          i \in 1 .. Len(rq'[p]) /\ rq'[p][i] = rq[p][i]
    BY <1>7, <1>8
  <2> QED
    BY <2>1 DEF Announced, LostToCome
<1>10. LostToCome(n, m, born[n][m])' /\ LostToCome(m, n, born[m][n])'
  <2>1. born' = born
    BY DEF Break
  <2> QED
    BY <1>1, <1>7, <1>8, <2>1 DEF LostToCome
<1> QED
  BY <1>1, <1>7, <1>8, <1>9, <1>10

LEMMA NextOutcome == TypeOK /\ Fresh /\ IssuedHasOutcome /\ [NextStep]_vars => IssuedHasOutcome'
<1> SUFFICES ASSUME TypeOK, Fresh, IssuedHasOutcome, [NextStep]_vars PROVE IssuedHasOutcome'
  OBVIOUS
<1> USE ConnectAssumption, BoundAssumption
    DEF serverVars, idVars, mainVars, ioVars, netVars, historyVars
<1>1. ASSUME NEW c \in Connects, Lookup(c) PROVE IssuedHasOutcome'
  BY <1>1 DEF IssuedHasOutcome, OutcomeToCome, Announced, TypeOK, CallTypes, Lookup
<1>2. ASSUME NEW c \in Connects, Reserve(c) PROVE IssuedHasOutcome'
  BY <1>2 DEF IssuedHasOutcome, OutcomeToCome, Announced, Fresh, TypeOK, CallTypes, Reserve
<1>3. ASSUME NEW c \in Connects, Reuse(c) PROVE IssuedHasOutcome'
  BY <1>3 DEF IssuedHasOutcome, OutcomeToCome, Announced, TypeOK, CallTypes, Reuse
<1>4. ASSUME NEW c \in Connects, NoStream(c) PROVE IssuedHasOutcome'
  BY <1>4 DEF IssuedHasOutcome, OutcomeToCome, Announced, TypeOK, CallTypes, NoStream
<1>5. ASSUME NEW c \in Connects, Connect(c) PROVE IssuedHasOutcome'
  <2> DEFINE n == From[c]  m == To[c]
  <2>1. link' = [link EXCEPT ![n][m] = "setup"] /\ n \in Nodes /\ m \in Addresses
    BY <1>5 DEF Connect
  <2>2. link'[n][m] = "setup"
    BY <2>1 DEF TypeOK, NetworkTypes
  <2>3. ASSUME NEW p \in Nodes, NEW q \in Addresses, link[p][q] = "setup"
        PROVE  link'[p][q] = "setup"
    BY <2>1, <2>3 DEF TypeOK, NetworkTypes
  <2> QED
    BY <1>5, <2>2, <2>3 DEF Announced, TypeOK, CallTypes, IssuedHasOutcome, OutcomeToCome,
       Connect
<1>6. ASSUME NEW c \in Connects, IsConnected(c) PROVE IssuedHasOutcome'
  <2>1. \A p \in Nodes, q \in Addresses : OutcomeToCome(p, q) => OutcomeToCome(p, q)'
    BY <1>6 DEF OutcomeToCome, Announced, IsConnected
  <2> QED
    BY <1>6, <2>1 DEF IssuedHasOutcome, TypeOK, CallTypes, IsConnected
<1>7. ASSUME NEW c \in Connects, ConnectFails(c) PROVE IssuedHasOutcome'
  <2>1. \A p \in Nodes, q \in Addresses : OutcomeToCome(p, q) => OutcomeToCome(p, q)'
    BY <1>7 DEF OutcomeToCome, Announced, ConnectFails
  <2> QED
    BY <1>7, <2>1 DEF IssuedHasOutcome, TypeOK, CallTypes, ConnectFails
<1>8. ASSUME NEW n \in Nodes, Erase(n) PROVE IssuedHasOutcome'
  BY <1>8 DEF IssuedHasOutcome, OutcomeToCome, Announced, TypeOK, CallTypes, Erase
<1>9. ASSUME NEW n \in Nodes, CommUp(n) PROVE IssuedHasOutcome'
  <2>1. Head(rq[n]) \in Events
    BY <1>9, ReceiveKeeps DEF CommUp, Next
  <2>2. ASSUME NEW p \in Nodes, NEW q \in Addresses, Announced(p, q)
        PROVE  Announced(p, q)' \/ (p = n /\ Head(rq[n]).peer = q)
    BY <1>9, <2>2, ReceiveKeeps DEF CommUp, Next
  <2> QED
    BY <1>9, <2>1, <2>2 DEF TypeOK, CallTypes, IssuedHasOutcome, OutcomeToCome,
       CommUp, Next, PendingTo
<1>10. ASSUME NEW n \in Nodes, CantStart(n) PROVE IssuedHasOutcome'
  <2>1. Head(rq[n]) \in Events
    BY <1>10, ReceiveKeeps DEF CantStart, Next
  <2>2. ASSUME NEW p \in Nodes, NEW q \in Addresses, Announced(p, q)
        PROVE  Announced(p, q)' \/ (p = n /\ Head(rq[n]).peer = q)
    BY <1>10, <2>2, ReceiveKeeps DEF CantStart, Next
  <2> QED
    BY <1>10, <2>1, <2>2 DEF TypeOK, CallTypes, IssuedHasOutcome, OutcomeToCome,
       CantStart, Next, PendingTo
<1>11. ASSUME NEW n \in Nodes, CommLost(n) PROVE IssuedHasOutcome'
  <2>1. Head(rq[n]) \in Events
    BY <1>11, ReceiveKeeps DEF CommLost, Next
  <2>2. ASSUME NEW p \in Nodes, NEW q \in Addresses, Announced(p, q)
        PROVE  Announced(p, q)' \/ (p = n /\ Head(rq[n]).peer = q)
    BY <1>11, <2>2, ReceiveKeeps DEF CommLost, Next
  <2> QED
    BY <1>11, <2>1, <2>2 DEF TypeOK, CallTypes, IssuedHasOutcome, OutcomeToCome,
       CommLost, Next, PendingTo
<1>12. ASSUME NEW n \in Nodes, Message(n) PROVE IssuedHasOutcome'
  <2>1. ASSUME NEW p \in Nodes, NEW q \in Addresses, Announced(p, q)
        PROVE  Announced(p, q)'
    BY <1>12, <2>1, ReceiveKeeps DEF Message, Next
  <2> QED
    BY <1>12, <2>1 DEF TypeOK, CallTypes, IssuedHasOutcome, OutcomeToCome,
       Message
<1>13. ASSUME NEW c \in Connects, Send(c) PROVE IssuedHasOutcome'
  <2> DEFINE e == [is |-> "data", peer |-> From[c], asoc |-> born[To[c]][From[c]],
                   sid |-> sid[c], of |-> c]
  <2>1. To[c] \in Nodes /\ e \in Events
    BY <1>13 DEF TypeOK, SessionTypes, NetworkTypes, Send, Events, Addresses
  <2>2. ASSUME NEW p \in Nodes, NEW q \in Addresses, Announced(p, q)
        PROVE  Announced(p, q)'
    BY <1>13, <2>1, <2>2, AppendKeeps DEF Send
  <2> QED
    BY <1>13, <2>2 DEF TypeOK, CallTypes, IssuedHasOutcome, OutcomeToCome,
       Send
<1>14. ASSUME NEW c \in Connects, SendFails(c) PROVE IssuedHasOutcome'
  BY <1>14 DEF IssuedHasOutcome, OutcomeToCome, Announced, TypeOK, CallTypes, SendFails
<1>15. ASSUME NEW c \in Connects, Close(c) PROVE IssuedHasOutcome'
  BY <1>15 DEF IssuedHasOutcome, OutcomeToCome, Announced, TypeOK, CallTypes, Close
<1>16. ASSUME NEW n \in Nodes, CloseAccepted(n) PROVE IssuedHasOutcome'
  BY <1>16 DEF IssuedHasOutcome, OutcomeToCome, Announced, TypeOK, CallTypes, CloseAccepted
<1>17. ASSUME NEW n \in Nodes, NEW m \in Addresses, Accept(n, m) PROVE IssuedHasOutcome'
  <2> DEFINE k == IF link[m][n] = "none" THEN born[m][n] + 1 ELSE born[m][n]
  <2>1. m \in Nodes /\ n \in Addresses /\ Event("up", n, k) \in Events
    BY <1>17 DEF TypeOK, NetworkTypes, Accept, Event, Events, Addresses
  <2>2. ASSUME NEW p \in Nodes, NEW q \in Addresses, Announced(p, q)
        PROVE  Announced(p, q)'
    BY <1>17, <2>1, <2>2, AppendKeeps DEF Accept
  <2>3. Announced(m, n)'
    BY <1>17, <2>1, AppendKeeps DEF Accept, Event
  <2>4. ASSUME NEW p \in Nodes, NEW q \in Addresses, p # m \/ q # n
        PROVE  link'[p][q] = link[p][q]
    BY <1>17, <2>1, <2>4 DEF TypeOK, NetworkTypes, Accept
  <2> QED
    BY <1>17, <2>2, <2>3, <2>4 DEF TypeOK, CallTypes, IssuedHasOutcome, OutcomeToCome,
       Accept
<1>18. ASSUME NEW n \in Nodes, NEW m \in Addresses, Confirm(n, m) PROVE IssuedHasOutcome'
  <2>1. Event("up", m, born[n][m]) \in Events
    BY DEF TypeOK, NetworkTypes, Event, Events
  <2>2. ASSUME NEW p \in Nodes, NEW q \in Addresses, Announced(p, q)
        PROVE  Announced(p, q)'
    BY <1>18, <2>1, <2>2, AppendKeeps DEF Confirm
  <2>3. Announced(n, m)'
    BY <1>18, <2>1, AppendKeeps DEF Confirm, Event
  <2>4. ASSUME NEW p \in Nodes, NEW q \in Addresses, p # n \/ q # m
        PROVE  link'[p][q] = link[p][q]
    BY <1>18, <2>4 DEF TypeOK, NetworkTypes, Confirm
  <2> QED
    BY <1>18, <2>2, <2>3, <2>4 DEF TypeOK, CallTypes, IssuedHasOutcome, OutcomeToCome,
       Confirm
<1>19. ASSUME NEW n \in Nodes, NEW m \in Addresses, GiveUp(n, m) PROVE IssuedHasOutcome'
  <2>1. Event("cant", m, born[n][m]) \in Events
    BY DEF TypeOK, NetworkTypes, Event, Events
  <2>2. ASSUME NEW p \in Nodes, NEW q \in Addresses, Announced(p, q)
        PROVE  Announced(p, q)'
    BY <1>19, <2>1, <2>2, AppendKeeps DEF GiveUp
  <2>3. Announced(n, m)'
    BY <1>19, <2>1, AppendKeeps DEF GiveUp, Event
  <2>4. ASSUME NEW p \in Nodes, NEW q \in Addresses, p # n \/ q # m
        PROVE  link'[p][q] = link[p][q]
    BY <1>19, <2>4 DEF TypeOK, NetworkTypes, GiveUp
  <2> QED
    BY <1>19, <2>2, <2>3, <2>4 DEF TypeOK, CallTypes, IssuedHasOutcome, OutcomeToCome,
       GiveUp
<1>20. ASSUME NEW n \in Nodes, NEW m \in Addresses, Break(n, m) PROVE IssuedHasOutcome'
  <2>1. /\ m \in Nodes
        /\ \A p \in Nodes, q \in Addresses : Announced(p, q) => Announced(p, q)'
    BY <1>20, BreakKeeps DEF Break
  <2>2. ASSUME NEW p \in Nodes, NEW q \in Addresses, link[p][q] = "setup"
        PROVE  link'[p][q] = "setup"
    BY <1>20, <2>1, <2>2 DEF TypeOK, NetworkTypes, Break
  <2> QED
    <3>1. UNCHANGED <<pending, issued, issue, io>>
      BY <1>20 DEF Break, serverVars, mainVars, ioVars, idVars, historyVars
    <3>2. \A p \in Nodes, q \in Addresses :
            OutcomeToCome(p, q) => OutcomeToCome(p, q)'
      BY <2>1, <2>2 DEF OutcomeToCome
    <3>3. \A d \in pending \intersect issued :
            From[d] \in Nodes /\ To[d] \in Addresses
      BY ConnectAssumption DEF TypeOK, CallTypes
    <3> QED
      BY <3>1, <3>2, <3>3 DEF IssuedHasOutcome
<1>21. CASE UNCHANGED vars
  BY <1>21 DEF IssuedHasOutcome, OutcomeToCome, Announced, TypeOK, CallTypes, vars
<1> QED
  BY <1>1, <1>2, <1>3, <1>4, <1>5, <1>6, <1>7, <1>8, <1>9, <1>10, <1>11,
     <1>12, <1>13, <1>14, <1>15, <1>16, <1>17, <1>18, <1>19, <1>20, <1>21
     DEF NextStep, Calling, AsyncConnect, IoThread, Handler, Write, Read,
         HttpLayer, Handshakes, Handshake

-----------------------------------------------------------------------------
(* The end of associations.                                                *)

\* Association k of n with m is established, or its end waits in the socket.
Leaving(n, m, k) == Up(n, m, k) \/ LostToCome(n, m, k)

\* An association ends only when the network breaks it.
LEMMA UpKept ==
  ASSUME TypeOK, [NextStep]_vars, ~ \E n \in Nodes, m \in Addresses : Break(n, m),
         NEW p \in Nodes, NEW q \in Addresses, NEW k \in Nat, Up(p, q, k)
  PROVE  Up(p, q, k)'
<1> USE ConnectAssumption
    DEF serverVars, idVars, mainVars, ioVars, netVars, historyVars
<1>1. CASE UNCHANGED <<link, born>>
  BY <1>1 DEF Up
<1>2. ASSUME NEW c \in Connects, Connect(c) PROVE Up(p, q, k)'
  BY <1>2 DEF Connect, Up, TypeOK, NetworkTypes
<1>3. ASSUME NEW n \in Nodes, NEW m \in Addresses, Accept(n, m)
      PROVE  Up(p, q, k)'
  <2> DEFINE a == IF link[m][n] = "none" THEN born[m][n] + 1 ELSE born[m][n]
  <2>1. /\ m \in Nodes /\ n \in Addresses /\ link[m][n] # "up"
        /\ born' = [born EXCEPT ![m][n] = a] /\ link' = [link EXCEPT ![m][n] = "up"]
    BY <1>3 DEF Accept, Addresses
  <2> HIDE DEF a
  <2>2. p # m \/ q # n
    BY <2>1 DEF Up
  <2>3. born'[p][q] = born[p][q] /\ link'[p][q] = link[p][q]
    BY <2>1, <2>2 DEF TypeOK, NetworkTypes
  <2> QED
    BY <2>3 DEF Up
<1>4. ASSUME NEW n \in Nodes, NEW m \in Addresses, Confirm(n, m)
      PROVE  Up(p, q, k)'
  BY <1>4 DEF Confirm, Up, TypeOK, NetworkTypes
<1>5. ASSUME NEW n \in Nodes, NEW m \in Addresses, GiveUp(n, m)
      PROVE  Up(p, q, k)'
  <2>1. link[n][m] = "setup" /\ link' = [link EXCEPT ![n][m] = "none"] /\ born' = born
    BY <1>5 DEF GiveUp
  <2> QED
    BY <2>1 DEF Up, TypeOK, NetworkTypes
<1>6. ASSUME NEW c \in Connects,
             Lookup(c) \/ AsyncConnect(c) \/ IsConnected(c) \/ ConnectFails(c)
               \/ Write(c) \/ Close(c)
      PROVE  UNCHANGED <<link, born>>
  BY <1>6 DEF Lookup, AsyncConnect, Reserve, Reuse, NoStream, IsConnected,
       ConnectFails, Write, Send, SendFails, Close
<1>7. ASSUME NEW n \in Nodes, Erase(n) \/ Read(n) \/ CloseAccepted(n)
      PROVE  UNCHANGED <<link, born>>
  BY <1>7 DEF Erase, Read, CommUp, CantStart, CommLost, Message, CloseAccepted
<1>8. CASE UNCHANGED vars
  BY <1>1, <1>8 DEF vars
<1> QED
  BY <1>1, <1>2, <1>3, <1>4, <1>5, <1>6, <1>7, <1>8
     DEF NextStep, Calling, IoThread, Handler, HttpLayer, Handshakes, Handshake

\* What the network breaks is lost on both ends, and nothing else is.
LEMMA BreakEnds ==
  ASSUME TypeOK, NEW n \in Nodes, NEW m \in Addresses, Break(n, m),
         NEW p \in Nodes, NEW q \in Addresses, NEW k \in Nat, Up(p, q, k)
  PROVE  \/ Up(p, q, k)'
         \/ p = n /\ q = m /\ k = born[n][m]
         \/ p = m /\ q = n /\ k = born[m][n]
<1>1. /\ link' = [link EXCEPT ![n][m] = "none", ![m][n] = "none"]
      /\ m \in Nodes /\ n \in Addresses /\ m # n /\ born' = born
  BY DEF Break, Addresses
<1>2. (p = n /\ q = m) \/ (p = m /\ q = n) \/ link'[p][q] = link[p][q]
  BY <1>1 DEF TypeOK, NetworkTypes
<1> QED
  BY <1>1, <1>2 DEF Up

\* What a step other than Break does with the sockets: nothing, one event is
\* appended, a message only when its association is established, or one
\* controller receives its first event.
LEMMA QueueStep ==
  ASSUME TypeOK, [NextStep]_vars, ~ \E n \in Nodes, m \in Addresses : Break(n, m)
  PROVE  \/ rq' = rq
         \/ \E n \in Nodes, e \in Events :
              /\ rq' = [rq EXCEPT ![n] = Append(@, e)]
              /\ e.is = "data" => Up(n, e.peer, e.asoc)
         \/ \E n \in Nodes :
              /\ Read(n) /\ rq[n] # <<>>
              /\ rq' = [rq EXCEPT ![n] = Tail(@)]
<1> DEFINE Appends == \E n \in Nodes, e \in Events :
             /\ rq' = [rq EXCEPT ![n] = Append(@, e)]
             /\ e.is = "data" => Up(n, e.peer, e.asoc)
<1> USE ConnectAssumption
    DEF serverVars, idVars, mainVars, ioVars, netVars, historyVars
<1>1. 0 \in 0 .. MaxStreams - 1
  BY BoundAssumption
<1>2. ASSUME NEW c \in Connects, Send(c) PROVE Appends
  <2> DEFINE e == [is |-> "data", peer |-> From[c], asoc |-> born[To[c]][From[c]],
                   sid |-> sid[c], of |-> c]
  <2>1. /\ To[c] \in Nodes /\ e \in Events /\ Up(To[c], e.peer, e.asoc)
        /\ rq' = [rq EXCEPT ![To[c]] = Append(@, e)]
    BY <1>2 DEF TypeOK, SessionTypes, NetworkTypes, Send, Events, Addresses, Up
  <2> HIDE DEF e
  <2> QED
    BY <2>1
<1>3. ASSUME NEW n \in Nodes, NEW m \in Addresses, Accept(n, m) PROVE Appends
  <2> DEFINE k == IF link[m][n] = "none" THEN born[m][n] + 1 ELSE born[m][n]
  <2>1. m \in Nodes /\ n \in Addresses /\ k \in Nat
    BY <1>3 DEF TypeOK, NetworkTypes, Accept, Addresses
  <2>2. rq' = [rq EXCEPT ![m] = Append(@, Event("up", n, k))]
    BY <1>3 DEF Accept
  <2> HIDE DEF k
  <2>3. Event("up", n, k) \in Events /\ Event("up", n, k).is = "up"
    BY <1>1, <2>1 DEF Event, Events
  <2> QED
    BY <2>1, <2>2, <2>3
<1>4. ASSUME NEW n \in Nodes, NEW m \in Addresses, Confirm(n, m) PROVE Appends
  <2>1. /\ Event("up", m, born[n][m]) \in Events
        /\ Event("up", m, born[n][m]).is = "up"
    BY <1>1 DEF TypeOK, NetworkTypes, Event, Events
  <2>2. rq' = [rq EXCEPT ![n] = Append(@, Event("up", m, born[n][m]))]
    BY <1>4 DEF Confirm
  <2> QED
    BY <2>1, <2>2
<1>5. ASSUME NEW n \in Nodes, NEW m \in Addresses, GiveUp(n, m) PROVE Appends
  <2>1. /\ Event("cant", m, born[n][m]) \in Events
        /\ Event("cant", m, born[n][m]).is = "cant"
    BY <1>1 DEF TypeOK, NetworkTypes, Event, Events
  <2>2. rq' = [rq EXCEPT ![n] = Append(@, Event("cant", m, born[n][m]))]
    BY <1>5 DEF GiveUp
  <2> QED
    BY <2>1, <2>2
<1>6. ASSUME NEW n \in Nodes, Read(n)
      PROVE  rq[n] # <<>> /\ rq' = [rq EXCEPT ![n] = Tail(@)]
  BY <1>6 DEF Read, CommUp, CantStart, CommLost, Message, Next
<1>7. ASSUME NEW c \in Connects,
             Lookup(c) \/ AsyncConnect(c) \/ Handler(c) \/ SendFails(c) \/ Close(c)
      PROVE  rq' = rq
  BY <1>7 DEF Lookup, AsyncConnect, Reserve, Reuse, NoStream, Handler, Connect,
       IsConnected, ConnectFails, SendFails, Close
<1>8. ASSUME NEW n \in Nodes, Erase(n) \/ CloseAccepted(n) PROVE rq' = rq
  BY <1>8 DEF Erase, CloseAccepted
<1>9. ASSUME UNCHANGED vars PROVE rq' = rq
  BY <1>9 DEF vars
<1> HIDE DEF Appends
<1>10. rq' = rq \/ Appends \/ \E n \in Nodes : Read(n)
  <2>1. ASSUME NEW c \in Connects, Lookup(c) \/ Close(c) PROVE rq' = rq
    BY <1>7, <2>1
  <2>2. ASSUME NEW n \in Nodes, Calling(n) \/ CloseAccepted(n) PROVE rq' = rq
    BY <1>7, <1>8, <2>2 DEF Calling
  <2>3. ASSUME NEW n \in Nodes, IoThread(n)
        PROVE  rq' = rq \/ Appends \/ Read(n)
    BY <1>2, <1>7, <1>8, <2>3 DEF IoThread, Write
  <2>4. CASE Handshakes
    BY <1>3, <1>4, <1>5, <2>4 DEF Handshakes, Handshake
  <2>5. CASE HttpLayer
    BY <2>1, <2>2, <2>5 DEF HttpLayer
  <2>6. CASE \E n \in Nodes : Calling(n) \/ IoThread(n)
    BY <2>2, <2>3, <2>6
  <2>7. CASE \E c \in Connects : Lookup(c)
    BY <2>1, <2>7
  <2> QED
    BY <1>9, <2>4, <2>5, <2>6, <2>7 DEF NextStep
<1> QED
  BY <1>6, <1>10 DEF Appends

\* Nothing but the receipt of its end makes an association, or its end,
\* disappear.
LEMMA LeavingKept ==
  ASSUME TypeOK, [NextStep]_vars,
         NEW p \in Nodes, NEW q \in Addresses, NEW k \in Nat, Leaving(p, q, k)
  PROVE  \/ Leaving(p, q, k)'
         \/ CommLost(p) /\ Head(rq[p]).peer = q /\ Head(rq[p]).asoc = k
<1>1. ASSUME NEW n \in Nodes, NEW m \in Addresses, Break(n, m)
      PROVE  Leaving(p, q, k)'
  <2>1. CASE LostToCome(p, q, k)
    BY <1>1, <2>1, BreakKeeps DEF Leaving
  <2>2. CASE Up(p, q, k)
    <3>1. /\ LostToCome(n, m, born[n][m])' /\ LostToCome(m, n, born[m][n])'
          /\ born' = born
      BY <1>1, BreakKeeps DEF Break
    <3>2. \/ Up(p, q, k)'
          \/ p = n /\ q = m /\ k = born[n][m]
          \/ p = m /\ q = n /\ k = born[m][n]
      BY <1>1, <2>2, BreakEnds
    <3>3. CASE p = n /\ q = m /\ k = born[n][m]
      BY <3>1, <3>3 DEF Leaving, LostToCome
    <3>4. CASE p = m /\ q = n /\ k = born[m][n]
      BY <3>1, <3>4 DEF Leaving, LostToCome
    <3> QED
      BY <3>2, <3>3, <3>4 DEF Leaving
  <2> QED
    BY <2>1, <2>2 DEF Leaving
<1>2. CASE ~ \E n \in Nodes, m \in Addresses : Break(n, m)
  <2>1. CASE Up(p, q, k)
    BY <1>2, <2>1, UpKept DEF Leaving
  <2>2. CASE LostToCome(p, q, k)
    <3>1. CASE rq' = rq
      BY <2>2, <3>1 DEF Leaving, LostToCome
    <3>2. ASSUME NEW n \in Nodes, NEW e \in Events,
                 rq' = [rq EXCEPT ![n] = Append(@, e)]
          PROVE  LostToCome(p, q, k)'
      BY <2>2, <3>2, AppendKeeps
    <3>3. ASSUME NEW n \in Nodes, Read(n), rq[n] # <<>>,
                 rq' = [rq EXCEPT ![n] = Tail(@)]
          PROVE  \/ LostToCome(p, q, k)'
                 \/ CommLost(p) /\ Head(rq[p]).peer = q /\ Head(rq[p]).asoc = k
      <4>1. CASE CommLost(n)
        BY <2>2, <3>3, <4>1, ReceiveKeeps
      <4>2. CASE ~CommLost(n)
        <5>1. Head(rq[n]).is # "lost"
          BY <3>3, <4>2 DEF Read, CommUp, CantStart, Message, Next
        <5> QED
          BY <2>2, <3>3, <5>1, ReceiveKeeps
      <4> QED
        BY <4>1, <4>2
    <3> QED
      BY <1>2, <3>1, <3>2, <3>3, QueueStep DEF Leaving
  <2> QED
    BY <2>1, <2>2 DEF Leaving
<1> QED
  BY <1>1, <1>2

\* The end of an association stays behind its messages.
LEMMA NextEndComesLast ==
  TypeOK /\ TypeOK' /\ EndComesLast /\ [NextStep]_vars => EndComesLast'
<1> SUFFICES ASSUME TypeOK, TypeOK', EndComesLast, [NextStep]_vars,
                    NEW p \in Nodes, NEW i \in 1 .. Len(rq'[p]),
                    rq'[p][i].is = "data"
             PROVE  \/ /\ link'[p][rq'[p][i].peer] = "up"
                       /\ born'[p][rq'[p][i].peer] = rq'[p][i].asoc
                    \/ \E j \in i + 1 .. Len(rq'[p]) :
                         /\ rq'[p][j].is = "lost"
                         /\ rq'[p][j].peer = rq'[p][i].peer
                         /\ rq'[p][j].asoc = rq'[p][i].asoc
  BY DEF EndComesLast, Up
<1> DEFINE Ends == \/ /\ link'[p][rq'[p][i].peer] = "up"
                      /\ born'[p][rq'[p][i].peer] = rq'[p][i].asoc
                   \/ \E j \in i + 1 .. Len(rq'[p]) :
                        /\ rq'[p][j].is = "lost"
                        /\ rq'[p][j].peer = rq'[p][i].peer
                        /\ rq'[p][j].asoc = rq'[p][i].asoc
<1>1. /\ rq[p] \in Seq(Events) /\ rq'[p] \in Seq(Events)
      /\ Len(rq[p]) \in Nat /\ Len(rq'[p]) \in Nat
      /\ \A j \in 1 .. Len(rq[p]) : rq[p][j] \in Events
      /\ \A j \in 1 .. Len(rq'[p]) : rq'[p][j] \in Events
  <2>1. rq[p] \in Seq(Events) /\ rq'[p] \in Seq(Events)
    BY DEF TypeOK, NetworkTypes
  <2> QED
    BY <2>1, LenProperties, ElementOfSeq
<1>2. \A e \in Events : e.peer \in Addresses /\ e.asoc \in Nat
  BY DEF Events
<1>3. ASSUME NEW n \in Nodes, NEW m \in Addresses, Break(n, m)
      PROVE  Ends
  <2>1. /\ Len(rq'[p]) >= Len(rq[p])
        /\ \A j \in 1 .. Len(rq[p]) : rq'[p][j] = rq[p][j]
        /\ \A j \in Len(rq[p]) + 1 .. Len(rq'[p]) : rq'[p][j].is = "lost"
        /\ p = n => \E j \in Len(rq[p]) + 1 .. Len(rq'[p]) :
                       rq'[p][j].peer = m /\ rq'[p][j].asoc = born[n][m]
        /\ p = m => \E j \in Len(rq[p]) + 1 .. Len(rq'[p]) :
                       rq'[p][j].peer = n /\ rq'[p][j].asoc = born[m][n]
    BY <1>3, BreakKeeps
  <2>2. i \in 1 .. Len(rq[p]) /\ rq'[p][i] = rq[p][i]
    BY <1>1, <2>1
  <2>3. CASE Up(p, rq[p][i].peer, rq[p][i].asoc)
    <3> DEFINE q == rq[p][i].peer  k == rq[p][i].asoc
    <3>1. /\ link' = [link EXCEPT ![n][m] = "none", ![m][n] = "none"]
          /\ born' = born /\ m \in Nodes /\ n \in Addresses
      BY <1>3 DEF Break, Addresses
    <3>2. /\ q \in Addresses /\ k \in Nat
          /\ q = rq'[p][i].peer /\ k = rq'[p][i].asoc
          /\ link[p][q] = "up" /\ born[p][q] = k
      BY <1>1, <1>2, <2>2, <2>3 DEF Up
    <3> HIDE DEF q, k
    <3>3. (p = n /\ q = m) \/ (p = m /\ q = n) \/ link'[p][q] = link[p][q]
      BY <3>1, <3>2 DEF TypeOK, NetworkTypes
    <3>4. CASE link'[p][q] = link[p][q]
      BY <3>1, <3>2, <3>4
    <3>5. CASE (p = n /\ q = m) \/ (p = m /\ q = n)
      <4>1. PICK j \in Len(rq[p]) + 1 .. Len(rq'[p]) :
              rq'[p][j].peer = q /\ rq'[p][j].asoc = k
        BY <2>1, <3>2, <3>5
      <4>2. rq'[p][j].is = "lost" /\ j \in i + 1 .. Len(rq'[p])
        BY <1>1, <2>1, <2>2
      <4> QED
        BY <3>2, <4>1, <4>2
    <3> QED
      BY <3>3, <3>4, <3>5
  <2>4. CASE \E j \in i + 1 .. Len(rq[p]) :
               /\ rq[p][j].is = "lost" /\ rq[p][j].peer = rq[p][i].peer
               /\ rq[p][j].asoc = rq[p][i].asoc
    <3>1. PICK j \in i + 1 .. Len(rq[p]) :
               /\ rq[p][j].is = "lost" /\ rq[p][j].peer = rq[p][i].peer
               /\ rq[p][j].asoc = rq[p][i].asoc
      BY <2>4
    <3>2. j \in i + 1 .. Len(rq'[p]) /\ rq'[p][j] = rq[p][j]
      BY <1>1, <2>1, <2>2
    <3> QED
      BY <2>2, <3>1, <3>2
  <2> QED
    BY <2>2, <2>3, <2>4 DEF EndComesLast
<1>4. ASSUME ~ \E n \in Nodes, m \in Addresses : Break(n, m)
      PROVE  Ends
  <2>1. ASSUME NEW l \in 1 .. Len(rq[p]), rq'[p][i] = rq[p][l],
               \A j \in l + 1 .. Len(rq[p]) :
                 \E h \in i + 1 .. Len(rq'[p]) : rq'[p][h] = rq[p][j]
        PROVE  Ends
    <3>1. CASE Up(p, rq[p][l].peer, rq[p][l].asoc)
      <4> DEFINE q == rq[p][l].peer  k == rq[p][l].asoc
      <4>1. q \in Addresses /\ k \in Nat /\ q = rq'[p][i].peer /\ k = rq'[p][i].asoc
        BY <1>1, <1>2, <2>1
      <4>2. link[p][q] = "up" /\ born[p][q] = k
        BY <3>1 DEF Up
      <4> HIDE DEF q, k
      <4>3. \A r \in Addresses, a \in Nat : Up(p, r, a) => Up(p, r, a)'
        BY <1>4, UpKept
      <4>4. link'[p][q] = "up" /\ born'[p][q] = k
        BY <4>1, <4>2, <4>3 DEF Up
      <4> QED
        BY <4>1, <4>4
    <3>2. CASE \E j \in l + 1 .. Len(rq[p]) :
                 /\ rq[p][j].is = "lost" /\ rq[p][j].peer = rq[p][l].peer
                 /\ rq[p][j].asoc = rq[p][l].asoc
      BY <2>1, <3>2
    <3> QED
      BY <2>1, <3>1, <3>2 DEF EndComesLast
  <2>2. CASE rq'[p] = rq[p]
    BY <2>1, <2>2
  <2>3. ASSUME NEW e \in Events, rq'[p] = Append(rq[p], e),
               e.is = "data" => Up(p, e.peer, e.asoc)
        PROVE  Ends
    <3>1. /\ Len(rq'[p]) = Len(rq[p]) + 1
          /\ \A j \in 1 .. Len(rq[p]) : rq'[p][j] = rq[p][j]
          /\ rq'[p][Len(rq[p]) + 1] = e
      BY <1>1, <2>3, Appended
    <3>2. CASE i = Len(rq[p]) + 1
      <4>1. rq'[p][i] = e /\ Up(p, e.peer, e.asoc)
        BY <2>3, <3>1, <3>2
      <4>2. \A r \in Addresses, a \in Nat : Up(p, r, a) => Up(p, r, a)'
        BY <1>4, UpKept
      <4>3. link'[p][e.peer] = "up" /\ born'[p][e.peer] = e.asoc
        BY <1>2, <4>1, <4>2 DEF Up
      <4> QED
        BY <4>1, <4>3
    <3>3. CASE i \in 1 .. Len(rq[p])
      <4>1. \A j \in i + 1 .. Len(rq[p]) :
              j \in i + 1 .. Len(rq'[p]) /\ rq'[p][j] = rq[p][j]
        BY <1>1, <3>1, <3>3
      <4> QED
        BY <2>1, <3>1, <3>3, <4>1
    <3> QED
      BY <1>1, <3>1, <3>2, <3>3
  <2>4. ASSUME rq[p] # <<>>, rq'[p] = Tail(rq[p])
        PROVE  Ends
    <3>1. /\ Len(rq'[p]) = Len(rq[p]) - 1
          /\ \A j \in 1 .. Len(rq[p]) - 1 : rq'[p][j] = rq[p][j + 1]
      BY <1>1, <2>4, Received
    <3>2. i + 1 \in 1 .. Len(rq[p]) /\ rq'[p][i] = rq[p][i + 1]
      BY <1>1, <3>1
    <3>3. ASSUME NEW j \in (i + 1) + 1 .. Len(rq[p])
          PROVE  j - 1 \in i + 1 .. Len(rq'[p]) /\ rq'[p][j - 1] = rq[p][j]
      <4>1. j - 1 \in 1 .. Len(rq[p]) - 1 /\ (j - 1) + 1 = j
        BY <1>1
      <4> QED
        BY <1>1, <3>1, <4>1
    <3> QED
      BY <2>1, <3>2, <3>3
  <2>5. \/ rq' = rq
        \/ \E n \in Nodes, e \in Events :
             /\ rq' = [rq EXCEPT ![n] = Append(@, e)]
             /\ e.is = "data" => Up(n, e.peer, e.asoc)
        \/ \E n \in Nodes : rq[n] # <<>> /\ rq' = [rq EXCEPT ![n] = Tail(@)]
    BY <1>4, QueueStep
  <2>6. \/ rq'[p] = rq[p]
        \/ \E e \in Events : /\ rq'[p] = Append(rq[p], e)
                             /\ e.is = "data" => Up(p, e.peer, e.asoc)
        \/ rq[p] # <<>> /\ rq'[p] = Tail(rq[p])
    BY <2>5 DEF TypeOK, NetworkTypes
  <2> QED
    BY <2>2, <2>3, <2>4, <2>6
<1> QED
  BY <1>3, <1>4

\* Sessions a controller opened.  A session is made with an association that
\* is established, or with a write for each entry; only the receipt of its end
\* takes an end away, and that removes all entries.
LEMMA NextClientsLeave ==
  TypeOK /\ Fresh /\ ClientsLeave /\ [NextStep]_vars => ClientsLeave'
<1> SUFFICES ASSUME TypeOK, Fresh, ClientsLeave, [NextStep]_vars,
                    NEW c \in Connects, listed'[c] > 0
             PROVE  \/ Leaving(From[c], To[c], asoc[c])'
                    \/ writing'[c] >= listed'[c]
  BY DEF ClientsLeave, Leaving
<1> DEFINE n == From[c]  m == To[c]
           Holds == Leaving(n, m, asoc[c])' \/ writing'[c] >= listed'[c]
<1> USE ConnectAssumption
    DEF serverVars, idVars, mainVars, ioVars, netVars, historyVars
<1>1. /\ listed \in [Connects -> Nat] /\ writing \in [Connects -> Nat]
      /\ asoc \in [Connects -> Nat] /\ n \in Nodes /\ m \in Addresses
  BY DEF TypeOK, SessionTypes
<1>2. listed[c] > 0 => Leaving(n, m, asoc[c]) \/ writing[c] >= listed[c]
  BY <1>1 DEF ClientsLeave, Leaving
<1>3. ASSUME asoc'[c] = asoc[c], listed[c] > 0,
             writing[c] >= listed[c] => writing'[c] >= listed'[c],
             \A p \in Nodes : CommLost(p) => listed'[c] = listed[c]
      PROVE  Holds
  <2>1. CASE writing[c] >= listed[c]
    BY <1>3, <2>1
  <2>2. CASE Leaving(n, m, asoc[c])
    <3>1. asoc[c] \in Nat
      BY <1>1
    <3>2. ~(CommLost(n) /\ Head(rq[n]).peer = m /\ Head(rq[n]).asoc = asoc[c])
      BY <1>1, <1>3 DEF CommLost, ClientsOn
    <3>3. Leaving(n, m, asoc[c]) => \A k \in Nat : k = asoc[c] => Leaving(n, m, k)'
      BY <1>1, <3>1, <3>2, LeavingKept
    <3> QED
      BY <1>3, <2>2, <3>1, <3>3 DEF Leaving, Up, LostToCome
  <2> QED
    BY <1>2, <1>3, <2>1, <2>2
<1>4. ASSUME UNCHANGED <<listed, writing, asoc>> PROVE Holds
  BY <1>1, <1>3, <1>4
<1>5. ASSUME NEW d \in Connects, Reuse(d) PROVE Holds
  <2>1. CASE c = d
    BY <1>1, <1>5, <2>1 DEF Reuse, PushBack, CallBack, Fresh
  <2>2. CASE c # d
    <3>1. listed'[c] = listed[c] /\ writing'[c] = writing[c] /\ asoc'[c] = asoc[c]
      BY <1>1, <1>5, <2>2 DEF Reuse, PushBack, CallBack
    <3> QED
      BY <1>3, <3>1
  <2> QED
    BY <2>1, <2>2
<1>6. ASSUME NEW d \in Connects, IsConnected(d) PROVE Holds
  <2>1. CASE c = d
    BY <1>1, <1>6, <2>1 DEF IsConnected, Leaving, Up
  <2>2. CASE c # d
    <3>1. listed'[c] = listed[c] /\ writing'[c] = writing[c] /\ asoc'[c] = asoc[c]
      BY <1>1, <1>6, <2>2 DEF IsConnected, PushBack, CallBack
    <3> QED
      BY <1>3, <3>1
  <2> QED
    BY <2>1, <2>2
<1>7. ASSUME NEW p \in Nodes, CommUp(p) PROVE Holds
  <2> DEFINE S == PendingTo(p, Head(rq[p]).peer)
  <2>1. CASE c \in S
    <3>1. listed[c] = 0
      BY <1>7, <2>1 DEF CommUp, Next, Fresh, PendingTo
    <3> QED
      BY <1>1, <1>7, <2>1, <3>1 DEF CommUp, PushBack, CallBack
  <2>2. CASE c \notin S
    <3>1. listed'[c] = listed[c] /\ writing'[c] = writing[c] /\ asoc'[c] = asoc[c]
      BY <1>1, <1>7, <2>2 DEF CommUp, PushBack, CallBack
    <3> QED
      BY <1>3, <3>1
  <2> QED
    BY <2>1, <2>2
<1>8. ASSUME NEW p \in Nodes, CommLost(p) PROVE Holds
  <2>1. listed'[c] = listed[c] /\ writing'[c] = writing[c] /\ asoc'[c] = asoc[c]
    BY <1>1, <1>8 DEF CommLost
  <2>2. \A q \in Nodes : CommLost(q) => listed'[c] = listed[c]
    BY <2>1
  <2> QED
    BY <1>3, <2>1, <2>2
<1>9. ASSUME NEW d \in Connects, Send(d) PROVE Holds
  <2>1. CASE c = d
    BY <1>9, <2>1 DEF Send, Leaving, Up, Live
  <2>2. CASE c # d
    <3>1. listed'[c] = listed[c] /\ writing'[c] = writing[c] /\ asoc'[c] = asoc[c]
      BY <1>1, <1>9, <2>2 DEF Send
    <3> QED
      BY <1>3, <3>1
  <2> QED
    BY <2>1, <2>2
<1>10. ASSUME NEW d \in Connects, SendFails(d) \/ Close(d) PROVE Holds
  <2>1. CASE c = d
    <3>1. /\ listed[c] > 0 /\ listed'[c] = listed[c] - 1 /\ asoc'[c] = asoc[c]
          /\ writing'[c] = writing[c] - 1 \/ (writing'[c] = writing[c] /\ writing[c] < listed[c])
      BY <1>1, <1>10, <2>1 DEF SendFails, Close, Remove
    <3>2. \A p \in Nodes : ~CommLost(p)
      <4> SUFFICES ASSUME NEW p \in Nodes, CommLost(p) PROVE FALSE
        OBVIOUS
      <4>1. listed'[c] = 0 \/ listed'[c] = listed[c]
        BY DEF CommLost
      <4> QED
        BY <1>1, <2>1, <3>1, <4>1
    <3> QED
      BY <1>1, <1>3, <3>1, <3>2
  <2>2. CASE c # d
    <3>1. listed'[c] = listed[c] /\ writing'[c] = writing[c] /\ asoc'[c] = asoc[c]
      BY <1>1, <1>10, <2>2 DEF SendFails, Close, Remove
    <3> QED
      BY <1>3, <3>1
  <2> QED
    BY <2>1, <2>2
<1>11. ASSUME NEW d \in Connects, Lookup(d) \/ Reserve(d) \/ NoStream(d)
                \/ Connect(d) \/ ConnectFails(d)
       PROVE  UNCHANGED <<listed, writing, asoc>>
  BY <1>11 DEF Lookup, Reserve, NoStream, Connect, ConnectFails
<1>12. ASSUME NEW p \in Nodes,
              Erase(p) \/ CantStart(p) \/ Message(p) \/ CloseAccepted(p)
       PROVE  UNCHANGED <<listed, writing, asoc>>
  BY <1>12 DEF Erase, CantStart, Message, CloseAccepted
<1>13. ASSUME NEW p \in Nodes, NEW q \in Addresses, Handshake(p, q) \/ Break(p, q)
       PROVE  UNCHANGED <<listed, writing, asoc>>
  BY <1>13 DEF Handshake, Accept, Confirm, GiveUp, Break
<1>14. ASSUME UNCHANGED vars PROVE UNCHANGED <<listed, writing, asoc>>
  BY <1>14 DEF vars
<1> HIDE DEF Holds
<1>15. ASSUME NEW p \in Nodes, Calling(p) \/ IoThread(p) PROVE Holds
  BY <1>4, <1>5, <1>6, <1>7, <1>8, <1>9, <1>10, <1>11, <1>12, <1>15
     DEF Calling, AsyncConnect, IoThread, Handler, Write, Read
<1>16. ASSUME HttpLayer PROVE Holds
  BY <1>4, <1>10, <1>12, <1>16 DEF HttpLayer
<1>17. ASSUME \/ \E d \in Connects : Lookup(d)
              \/ Handshakes
              \/ \E p \in Nodes, q \in Addresses : Break(p, q)
       PROVE  Holds
  BY <1>4, <1>11, <1>13, <1>17 DEF Handshakes
<1> QED
  BY <1>4, <1>14, <1>15, <1>16, <1>17 DEF NextStep, Holds

\* Sessions a controller accepted: a message arrives while its association is
\* established, or before its end.
LEMMA NextAcceptedLeave ==
  TypeOK /\ EndComesLast /\ AcceptedLeave /\ [NextStep]_vars => AcceptedLeave'
<1> SUFFICES ASSUME TypeOK, EndComesLast, AcceptedLeave, [NextStep]_vars,
                    NEW n \in Nodes, NEW s \in accepted'[n]
             PROVE  Leaving(n, s.peer, s.asoc)'
  BY DEF AcceptedLeave, Leaving
<1> USE DEF serverVars, idVars, mainVars, ioVars, netVars, historyVars
<1>1. \A p \in Nodes : accepted[p] \subseteq
        [peer : Addresses, asoc : Nat, sid : 0 .. MaxStreams - 1]
  BY DEF TypeOK, SessionTypes
<1>2. ASSUME s \in accepted[n],
             \A p \in Nodes : CommLost(p) => accepted'[n] \subseteq accepted[n]
      PROVE  Leaving(n, s.peer, s.asoc)'
  <2>1. s.peer \in Addresses /\ s.asoc \in Nat
    BY <1>1, <1>2
  <2>2. Leaving(n, s.peer, s.asoc)
    BY <1>2 DEF AcceptedLeave, Leaving
  <2>3. ~(CommLost(n) /\ Head(rq[n]).peer = s.peer /\ Head(rq[n]).asoc = s.asoc)
    BY <1>1, <1>2 DEF TypeOK, SessionTypes, CommLost, AcceptedOn
  <2> QED
    BY <2>1, <2>2, <2>3, LeavingKept
<1>3. ASSUME NEW p \in Nodes, CommLost(p) PROVE accepted'[n] \subseteq accepted[n]
  BY <1>3 DEF TypeOK, SessionTypes, CommLost
<1>4. ASSUME accepted'[n] \subseteq accepted[n]
      PROVE  Leaving(n, s.peer, s.asoc)'
  BY <1>2, <1>3, <1>4
<1>5. ASSUME NEW p \in Nodes, Message(p) PROVE Leaving(n, s.peer, s.asoc)'
  <2>1. CASE s \in accepted[n]
    BY <1>2, <1>3, <2>1
  <2>2. CASE s \notin accepted[n]
    <3> DEFINE e == Head(rq[n])
    <3>1. p = n /\ s.peer = e.peer /\ s.asoc = e.asoc
      <4> DEFINE session == [peer |-> Head(rq[p]).peer, asoc |-> Head(rq[p]).asoc,
                             sid |-> Head(rq[p]).sid]
      <4>1. \/ accepted' = [accepted EXCEPT ![p] = @ \union {session}]
            \/ accepted' = accepted
        BY <1>5 DEF Message
      <4> HIDE DEF session
      <4>2. p = n /\ s = session
        BY <2>2, <4>1 DEF TypeOK, SessionTypes
      <4> QED
        BY <4>2 DEF session
    <3>2. rq[n] # <<>> /\ e.is = "data" /\ rq' = [rq EXCEPT ![n] = Tail(@)]
      BY <1>5, <3>1 DEF Message, Next
    <3>3. rq \in [Nodes -> Seq(Events)]
      BY DEF TypeOK, NetworkTypes
    <3>4. /\ e = rq[n][1] /\ e \in Events
          /\ Len(rq[n]) \in Nat /\ Len(rq[n]) > 0
          /\ rq'[n] = Tail(rq[n]) /\ Len(Tail(rq[n])) = Len(rq[n]) - 1
          /\ \A i \in 1 .. Len(rq[n]) - 1 : Tail(rq[n])[i] = rq[n][i + 1]
      BY <3>2, <3>3, Received
    <3> HIDE DEF e
    <3>5. CASE Up(n, e.peer, e.asoc)
      <4>1. link' = link /\ born' = born
        BY <1>5 DEF Message
      <4> QED
        BY <3>1, <3>5, <4>1 DEF Leaving, Up
    <3>6. CASE \E j \in 1 + 1 .. Len(rq[n]) :
                 /\ rq[n][j].is = "lost" /\ rq[n][j].peer = e.peer
                 /\ rq[n][j].asoc = e.asoc
      <4>1. PICK j \in 2 .. Len(rq[n]) :
                 /\ rq[n][j].is = "lost" /\ rq[n][j].peer = e.peer
                 /\ rq[n][j].asoc = e.asoc
        BY <3>6
      <4>2. j - 1 \in 1 .. Len(rq[n]) - 1 /\ (j - 1) + 1 = j
        BY <3>4
      <4>3. j - 1 \in 1 .. Len(rq'[n]) /\ rq'[n][j - 1] = rq[n][j]
        BY <3>4, <4>2
      <4> QED
        BY <3>1, <4>1, <4>3 DEF Leaving, LostToCome
    <3> QED
      BY <3>2, <3>4, <3>5, <3>6 DEF EndComesLast
  <2> QED
    BY <2>1, <2>2
<1>6. ASSUME NEW p \in Nodes,
             Erase(p) \/ CommUp(p) \/ CantStart(p) \/ CommLost(p)
               \/ CloseAccepted(p)
      PROVE  accepted'[n] \subseteq accepted[n]
  BY <1>6, <1>3 DEF TypeOK, SessionTypes, Erase, CommUp, CantStart, CloseAccepted
<1>7. ASSUME NEW c \in Connects,
             Lookup(c) \/ AsyncConnect(c) \/ Handler(c) \/ Write(c) \/ Close(c)
      PROVE  accepted'[n] \subseteq accepted[n]
  BY <1>7 DEF Lookup, AsyncConnect, Reserve, Reuse, NoStream, Handler, Connect,
       IsConnected, ConnectFails, Write, Send, SendFails, Close
<1>8. ASSUME NEW p \in Nodes, NEW q \in Addresses, Handshake(p, q) \/ Break(p, q)
      PROVE  accepted'[n] \subseteq accepted[n]
  BY <1>8 DEF Handshake, Accept, Confirm, GiveUp, Break
<1>9. CASE UNCHANGED vars
  BY <1>4, <1>9 DEF vars
<1>10. CASE \E p \in Nodes : Calling(p) \/ IoThread(p)
  BY <1>4, <1>5, <1>6, <1>7, <1>10 DEF Calling, IoThread, Read
<1>11. CASE HttpLayer
  BY <1>4, <1>6, <1>7, <1>11 DEF HttpLayer
<1>12. CASE \/ \E c \in Connects : Lookup(c)
            \/ Handshakes
            \/ \E p \in Nodes, q \in Addresses : Break(p, q)
  BY <1>4, <1>7, <1>8, <1>12 DEF Handshakes
<1> QED
  BY <1>9, <1>10, <1>11, <1>12 DEF NextStep

-----------------------------------------------------------------------------
(* Callbacks.                                                              *)

LEMMA NextSilent ==
  Fresh /\ [NextStep]_vars =>
    \A d \in pending : d \in pending' \/ d \in answered' \/ CommLost(From[d])
<1> SUFFICES ASSUME Fresh, [NextStep]_vars, NEW d \in pending
             PROVE  d \in pending' \/ d \in answered' \/ CommLost(From[d])
  OBVIOUS
<1> DEFINE Told == d \in pending' \/ d \in answered' \/ CommLost(From[d])
<1> USE ConnectAssumption, BoundAssumption
    DEF serverVars, idVars, mainVars, ioVars, netVars, historyVars
<1>1. ASSUME NEW c \in Connects, Lookup(c) PROVE Told
  BY <1>1 DEF Lookup
<1>2. ASSUME NEW c \in Connects, Reserve(c) PROVE Told
  BY <1>2 DEF Reserve
<1>3. ASSUME NEW c \in Connects, Reuse(c) PROVE Told
  BY <1>3 DEF Reuse
<1>4. ASSUME NEW c \in Connects, NoStream(c) PROVE Told
  BY <1>4 DEF NoStream
<1>5. ASSUME NEW c \in Connects, Connect(c) PROVE Told
  BY <1>5 DEF Connect
<1>6. ASSUME NEW c \in Connects, IsConnected(c) PROVE Told
  BY <1>6 DEF IsConnected
<1>7. ASSUME NEW c \in Connects, ConnectFails(c) PROVE Told
  BY <1>7 DEF ConnectFails
<1>8. ASSUME NEW n \in Nodes, Erase(n) PROVE Told
  BY <1>8 DEF Erase, Fresh
<1>9. ASSUME NEW n \in Nodes, CommUp(n) PROVE Told
  BY <1>9 DEF CommUp, CallBack
<1>10. ASSUME NEW n \in Nodes, CantStart(n) PROVE Told
  BY <1>10 DEF CantStart
<1>11. ASSUME NEW n \in Nodes, CommLost(n) PROVE Told
  BY <1>11 DEF CommLost, PendingTo
<1>12. ASSUME NEW n \in Nodes, Message(n) PROVE Told
  BY <1>12 DEF Message
<1>13. ASSUME NEW c \in Connects, Send(c) PROVE Told
  BY <1>13 DEF Send
<1>14. ASSUME NEW c \in Connects, SendFails(c) PROVE Told
  BY <1>14 DEF SendFails
<1>15. ASSUME NEW c \in Connects, Close(c) PROVE Told
  BY <1>15 DEF Close
<1>16. ASSUME NEW n \in Nodes, CloseAccepted(n) PROVE Told
  BY <1>16 DEF CloseAccepted
<1>17. ASSUME NEW n \in Nodes, NEW m \in Addresses, Accept(n, m) PROVE Told
  BY <1>17 DEF Accept
<1>18. ASSUME NEW n \in Nodes, NEW m \in Addresses, Confirm(n, m) PROVE Told
  BY <1>18 DEF Confirm
<1>19. ASSUME NEW n \in Nodes, NEW m \in Addresses, GiveUp(n, m) PROVE Told
  BY <1>19 DEF GiveUp
<1>20. ASSUME NEW n \in Nodes, NEW m \in Addresses, Break(n, m) PROVE Told
  BY <1>20 DEF Break
<1>21. CASE UNCHANGED vars
  BY <1>21 DEF vars
<1> QED
  BY <1>1, <1>2, <1>3, <1>4, <1>5, <1>6, <1>7, <1>8, <1>9, <1>10, <1>11,
     <1>12, <1>13, <1>14, <1>15, <1>16, <1>17, <1>18, <1>19, <1>20, <1>21
     DEF NextStep, Calling, AsyncConnect, IoThread, Handler, Write, Read,
         HttpLayer, Handshakes, Handshake

-----------------------------------------------------------------------------
(* The invariant and the theorems.                                         *)

LEMMA InitIInv == Init => IInv
<1> SUFFICES ASSUME Init PROVE IInv
  OBVIOUS
<1>1. TypeOK /\ Fresh
  BY InitType, InitFresh
<1>2. /\ pending = {} /\ listed = [c \in Connects |-> 0]
      /\ accepted = [n \in Nodes |-> {}] /\ rq = [n \in Nodes |-> <<>>]
  BY DEF Init
<1>3. Len(<<>>) = 0
  BY EmptySeq
<1> QED
  BY <1>1, <1>2, <1>3 DEF IInv, PendingDistinct, IssuedHasOutcome, ClientsLeave,
       AcceptedLeave, EndComesLast

LEMMA NextIInv == IInv /\ [NextStep]_vars => IInv'
BY NextType, NextFresh, NextDistinct, NextOutcome, NextClientsLeave,
   NextAcceptedLeave, NextEndComesLast DEF IInv

LEMMA Invariance == Spec => []IInv
BY InitIInv, NextIInv, PTL DEF Spec

\* Every variable has its type, in every state.
THEOREM TypeCorrect == Spec => []TypeOK
<1>1. IInv => TypeOK
  BY DEF IInv
<1> QED
  BY <1>1, Invariance, PTL

\* Pending connects of a controller to one address have different streams, for
\* any number of calls and streams: the search of async_connect
\* (sctp-server.cpp:139) sees every connect that is pending when it takes the
\* lock.
THEOREM PendingAreDistinct == Spec => []PendingDistinct
<1>1. IInv => PendingDistinct
  BY DEF IInv
<1> QED
  BY <1>1, Invariance, PTL

\* An issued connect that is pending has an outcome to come, whatever the
\* controllers, addresses and faults: no order of handlers, handshakes and
\* notifications drops it (sctp-server.cpp:161-210, 335-365, 473-495).
THEOREM IssuedHaveOutcome == Spec => []IssuedHasOutcome
<1>1. IInv => IssuedHasOutcome
  BY DEF IInv
<1> QED
  BY <1>1, Invariance, PTL

\* A session in the server whose association has ended has a write that fails,
\* or the notification that removes it to come (sctp-server.cpp:366-472,
\* sctp-session.cpp:46-54): the server keeps no dead session.
THEOREM DeadSessionsLeave == Spec => []DeadSessionLeaves
<1>1. IInv => DeadSessionLeaves
  <2> SUFFICES ASSUME IInv PROVE DeadSessionLeaves
    OBVIOUS
  <2>1. \A n \in Nodes, m \in Addresses, k \in Nat : Up(n, m, k) => Live(n, m, k)
    BY DEF Up, Live
  <2>2. /\ listed \in [Connects -> Nat] /\ writing \in [Connects -> Nat]
        /\ asoc \in [Connects -> Nat]
        /\ \A c \in Connects : From[c] \in Nodes /\ To[c] \in Addresses
    BY ConnectAssumption DEF IInv, TypeOK, SessionTypes
  <2>3. \A n \in Nodes : \A s \in accepted[n] : s.peer \in Addresses /\ s.asoc \in Nat
    BY DEF IInv, TypeOK, SessionTypes
  <2> QED
    BY <2>1, <2>2, <2>3 DEF IInv, ClientsLeave, AcceptedLeave, DeadSessionLeaves
<1> QED
  BY <1>1, Invariance, PTL

\* A connect leaves the pending connects only after its callback was called, or
\* because an association ended (sctp-server.cpp:191-192, 347-348, 484-485).
THEOREM OnlyLossesAreSilent == Spec => OnlyLossIsSilent
<1>1. IInv /\ [NextStep]_vars =>
        [\A c \in pending : c \in pending' \/ c \in answered' \/ CommLost(From[c])]_vars
  BY NextSilent DEF IInv
<1> QED
  BY <1>1, Invariance, PTL DEF Spec, OnlyLossIsSilent

=============================================================================

----------------------------- MODULE SctpServer -----------------------------
(***************************************************************************)
(* The SCTP servers of a few controllers and the sessions between them     *)
(* (sctp-server.cpp, sctp-session.cpp, server.cpp in controller-lib).      *)
(*                                                                         *)
(* Each controller has one one-to-many socket.  All conversations with a   *)
(* peer share one association; each has a stream of its own, which the     *)
(* side that opens it chooses.  The main thread calls async_connect; the   *)
(* IO thread runs the handlers: connect() when the socket is writable,     *)
(* writes, and one notification or message of the socket at a time.        *)
(*                                                                         *)
(* A connect also names the session it makes.  The server's vector of      *)
(* sessions is the number of times each client session is in it, and a set *)
(* of accepted sessions.  The network and the HTTP layer are external: the *)
(* first makes and ends associations, the second writes one request on     *)
(* each session it is given and closes sessions it has finished with.      *)
(***************************************************************************)
EXTENDS Naturals, Sequences

CONSTANTS
  Nodes,        \* the controllers
  Remotes,      \* addresses where no controller listens
  Unreachable,  \* addresses for which connect() fails at once
  Connects,     \* the calls of async_connect
  From, To,     \* who calls, for which address
  Earlier,      \* the calls that come before it
  MaxStreams,   \* MAX_SCTP_STREAMS
  MaxFaults,    \* bound: handshakes and associations the network breaks
  NoCall

Addresses == Nodes \union Remotes

ASSUME ConnectAssumption ==
  /\ Nodes \intersect Remotes = {}
  /\ Unreachable \subseteq Remotes
  /\ From \in [Connects -> Nodes]
  /\ To \in [Connects -> Addresses]
  /\ \A c \in Connects : From[c] # To[c]
  /\ Earlier \in [Connects -> SUBSET Connects]
  /\ NoCall \notin Connects
ASSUME BoundAssumption == MaxStreams \in Nat \ {0} /\ MaxFaults \in Nat

VARIABLES
  \* SctpServer.
  next,      \* next_stream_num_
  pending,   \* pending_connects_, of all the servers
  listed,    \* how often a client session is in the server's vector
  accepted,  \* the sessions made for incoming streams
  \* Client sessions.
  asoc, sid, \* id_: 0 is SCTP_FUTURE_ASSOC
  writing,   \* writes waiting for the socket
  \* Main thread.
  main,      \* the connect async_connect is at work on
  seen,      \* the association it found, 0 for none
  asked,     \* connects called so far
  \* IO thread.
  issue,     \* connects whose connect() waits for the socket
  io,        \* the connect the handler has still to erase
  \* The sockets.
  link,      \* the state of the association with each address
  born,      \* associations so far with each address: the last is the id
  rq,        \* notifications and messages to be received
  faults,    \* how often the network broke something
  \* History.
  issued,    \* connects for which connect() was, or is to be, called
  answered,  \* connects whose callback was called
  heard      \* requests received, with what they were taken to belong to

serverVars == <<next, pending, listed, accepted>>
idVars == <<asoc, sid>>
mainVars == <<main, seen, asked>>
ioVars == <<issue, io>>
netVars == <<link, born, rq, faults>>
historyVars == <<issued, answered, heard>>
vars == <<serverVars, idVars, writing, mainVars, ioVars, netVars, historyVars>>

Init ==
  /\ next = [n \in Nodes |-> 0]
  /\ pending = {}
  /\ listed = [c \in Connects |-> 0]
  /\ accepted = [n \in Nodes |-> {}]
  /\ asoc = [c \in Connects |-> 0]
  /\ sid = [c \in Connects |-> 0]
  /\ writing = [c \in Connects |-> 0]
  /\ main = [n \in Nodes |-> NoCall]
  /\ seen = [n \in Nodes |-> 0]
  /\ asked = {}
  /\ issue = {}
  /\ io = [n \in Nodes |-> NoCall]
  /\ link = [n \in Nodes |-> [m \in Addresses |-> "none"]]
  /\ born = [n \in Nodes |-> [m \in Addresses |-> 0]]
  /\ rq = [n \in Nodes |-> <<>>]
  /\ faults = 0
  /\ issued = {}
  /\ answered = {}
  /\ heard = {}

-----------------------------------------------------------------------------
(* Sessions and streams.                                                   *)

\* The pending connects of n to m.
PendingTo(n, m) == {c \in pending : From[c] = n /\ To[c] = m}

\* The client sessions of n in its server that have association k with m.
ClientsOn(n, m, k) ==
  {c \in Connects : From[c] = n /\ To[c] = m /\ listed[c] > 0 /\ asoc[c] = k}

AcceptedOn(n, m, k) == {s \in accepted[n] : s.peer = m /\ s.asoc = k}

\* Association k of n with m is there, established or not.
Live(n, m, k) == link[n][m] # "none" /\ born[n][m] = k

\* The streams async_connect will not choose.  The vector of their numbers is
\* constructed with MAX_SCTP_STREAMS zeros.
PendingStreams(n, m) == {0} \union {sid[c] : c \in PendingTo(n, m)}

ServerStreams(n, m, k) ==
  {sid[c] : c \in ClientsOn(n, m, k)} \union {s.sid : s \in AcceptedOn(n, m, k)}

\* The o-th stream the search looks at, and the one it ends with.
At(n, o) == (next[n] + o) % MaxStreams
FirstFree(n, used, o) ==
  /\ o \in 0 .. MaxStreams - 1
  /\ At(n, o) \notin used
  /\ \A p \in 0 .. o - 1 : At(n, p) \in used
OutOfStreams(n, used) == \A o \in 0 .. MaxStreams - 1 : At(n, o) \in used

\* What the callback does with the sessions S: it writes a request on each.
CallBack(S) ==
  /\ answered' = answered \union S
  /\ writing' = [c \in Connects |-> writing[c] + IF c \in S THEN 1 ELSE 0]

\* push_back of the client sessions S.
PushBack(S) ==
  listed' = [c \in Connects |-> listed[c] + IF c \in S THEN 1 ELSE 0]

\* Server::rm: one entry of the vector, if there is one.
Remove(c) == listed' = [listed EXCEPT ![c] = IF @ = 0 THEN 0 ELSE @ - 1]

-----------------------------------------------------------------------------
(* async_connect, on the main thread.                                      *)

\* getsockopt(SCTP_GET_PEER_ADDR_INFO), outside the lock.
Lookup(c) ==
  LET n == From[c]  m == To[c] IN
  /\ main[n] = NoCall /\ c \notin asked /\ Earlier[c] \subseteq asked
  /\ main' = [main EXCEPT ![n] = c]
  /\ seen' = [seen EXCEPT ![n] = IF link[n][m] = "none" THEN 0 ELSE born[n][m]]
  /\ asked' = asked \union {c}
  /\ UNCHANGED <<serverVars, idVars, writing, ioVars, netVars, historyVars>>

\* No association: a pending connect is made.  connect() is only called for if
\* the search moved over no stream.
Reserve(c) ==
  LET n == From[c]  used == PendingStreams(n, To[c]) IN
  /\ main[n] = c /\ seen[n] = 0
  /\ \E o \in 0 .. MaxStreams - 1 :
       /\ FirstFree(n, used, o)
       /\ next' = [next EXCEPT ![n] = At(n, o)]
       /\ sid' = [sid EXCEPT ![c] = At(n, o)]
       /\ issue' = IF o = 0 THEN issue \union {c} ELSE issue
       /\ issued' = IF o = 0 THEN issued \union {c} ELSE issued
  /\ pending' = pending \union {c}
  /\ main' = [main EXCEPT ![n] = NoCall]
  /\ UNCHANGED <<listed, accepted, asoc, writing, seen, asked, io, netVars,
                 answered, heard>>

\* An association: a stream of it is taken and the callback called.
Reuse(c) ==
  LET n == From[c]
      used == PendingStreams(n, To[c]) \union ServerStreams(n, To[c], seen[n])
  IN
  /\ main[n] = c /\ seen[n] # 0
  /\ \E o \in 0 .. MaxStreams - 1 :
       /\ FirstFree(n, used, o)
       /\ next' = [next EXCEPT ![n] = At(n, o)]
       /\ sid' = [sid EXCEPT ![c] = At(n, o)]
  /\ asoc' = [asoc EXCEPT ![c] = seen[n]]
  /\ PushBack({c}) /\ CallBack({c})
  /\ main' = [main EXCEPT ![n] = NoCall]
  /\ UNCHANGED <<pending, accepted, seen, asked, ioVars, netVars, issued, heard>>

\* Every stream is used: the callback is called with EADDRNOTAVAIL.
NoStream(c) ==
  LET n == From[c]  m == To[c] IN
  /\ main[n] = c
  /\ OutOfStreams(n, PendingStreams(n, m) \union
                     IF seen[n] = 0 THEN {} ELSE ServerStreams(n, m, seen[n]))
  /\ answered' = answered \union {c}
  /\ main' = [main EXCEPT ![n] = NoCall]
  /\ UNCHANGED <<serverVars, idVars, writing, seen, asked, ioVars, netVars,
                 issued, heard>>

AsyncConnect(c) == Reserve(c) \/ Reuse(c) \/ NoStream(c)

-----------------------------------------------------------------------------
(* The handler that calls connect(), on the IO thread.                     *)

\* A connect() that is never made (a mutation of Connect).
ConnectNever(c) ==
  /\ io[From[c]] = NoCall /\ c \in issue
  /\ link[From[c]][To[c]] # "up" /\ To[c] \notin Unreachable
  /\ issue' = issue \ {c}
  /\ UNCHANGED <<serverVars, idVars, writing, mainVars, io, netVars,
                 historyVars>>

\* connect() starts an association, or one is on its way (EALREADY).
Connect(c) ==
  LET n == From[c]  m == To[c] IN
  /\ io[n] = NoCall /\ c \in issue
  /\ link[n][m] # "up" /\ m \notin Unreachable
  /\ issue' = issue \ {c}
  /\ link' = [link EXCEPT ![n][m] = "setup"]
  /\ born' = [born EXCEPT ![n][m] = IF link[n][m] = "none" THEN @ + 1 ELSE @]
  /\ UNCHANGED <<serverVars, idVars, writing, mainVars, io, rq, faults,
                 historyVars>>

\* EISCONN: the session gets the association and is pushed, the callback
\* called.  The association does not end between connect() and getsockopt().
IsConnected(c) ==
  LET n == From[c]  m == To[c] IN
  /\ io[n] = NoCall /\ c \in issue
  /\ link[n][m] = "up"
  /\ issue' = issue \ {c}
  /\ asoc' = [asoc EXCEPT ![c] = born[n][m]]
  /\ PushBack({c}) /\ CallBack({c})
  /\ io' = [io EXCEPT ![n] = c]
  /\ UNCHANGED <<next, pending, accepted, sid, mainVars, netVars, issued, heard>>

\* connect() fails otherwise: the callback is called with the error.
ConnectFails(c) ==
  /\ io[From[c]] = NoCall /\ c \in issue
  /\ To[c] \in Unreachable
  /\ issue' = issue \ {c}
  /\ answered' = answered \union {c}
  /\ io' = [io EXCEPT ![From[c]] = c]
  /\ UNCHANGED <<serverVars, idVars, writing, mainVars, netVars, issued, heard>>

\* erase_pending_connect: there may be none any more.
Erase(n) ==
  /\ io[n] # NoCall
  /\ pending' = pending \ {io[n]}
  /\ io' = [io EXCEPT ![n] = NoCall]
  /\ UNCHANGED <<next, listed, accepted, idVars, writing, mainVars, issue,
                 netVars, historyVars>>

Handler(c) == Connect(c) \/ IsConnected(c) \/ ConnectFails(c)

-----------------------------------------------------------------------------
(* SctpServer::read, on the IO thread: the next entry of the socket.       *)

Event(is, m, k) == [is |-> is, peer |-> m, asoc |-> k, sid |-> 0, of |-> NoCall]

Next(n, is) == io[n] = NoCall /\ rq[n] # <<>> /\ Head(rq[n]).is = is

\* SCTP_COMM_UP: every pending connect to the address gets the association.
CommUp(n) ==
  /\ Next(n, "up")
  /\ LET e == Head(rq[n])  S == PendingTo(n, e.peer) IN
       /\ asoc' = [c \in Connects |-> IF c \in S THEN e.asoc ELSE asoc[c]]
       /\ pending' = pending \ S
       /\ PushBack(S) /\ CallBack(S)
  /\ rq' = [rq EXCEPT ![n] = Tail(@)]
  /\ UNCHANGED <<next, accepted, sid, mainVars, ioVars, link, born, faults,
                 issued, heard>>

\* The connects stay (a mutation of CantStart).
CantIgnored(n) ==
  /\ Next(n, "cant")
  /\ answered' = answered \union PendingTo(n, Head(rq[n]).peer)
  /\ rq' = [rq EXCEPT ![n] = Tail(@)]
  /\ UNCHANGED <<serverVars, idVars, writing, mainVars, ioVars, link, born,
                 faults, issued, heard>>

\* The callbacks are not called (a mutation of CantStart).
CantSilent(n) ==
  /\ Next(n, "cant")
  /\ pending' = pending \ PendingTo(n, Head(rq[n]).peer)
  /\ rq' = [rq EXCEPT ![n] = Tail(@)]
  /\ UNCHANGED <<next, listed, accepted, idVars, writing, mainVars, ioVars,
                 link, born, faults, historyVars>>

\* SCTP_CANT_STR_ASSOC: their callbacks are called with ECONNREFUSED.
CantStart(n) ==
  /\ Next(n, "cant")
  /\ LET S == PendingTo(n, Head(rq[n]).peer) IN
       /\ answered' = answered \union S
       /\ pending' = pending \ S
  /\ rq' = [rq EXCEPT ![n] = Tail(@)]
  /\ UNCHANGED <<next, listed, accepted, idVars, writing, mainVars, ioVars,
                 link, born, faults, issued, heard>>

\* The sessions of the association stay (a mutation of CommLost).
SessionsStay(n) ==
  /\ Next(n, "lost")
  /\ pending' = pending \ PendingTo(n, Head(rq[n]).peer)
  /\ rq' = [rq EXCEPT ![n] = Tail(@)]
  /\ UNCHANGED <<next, listed, accepted, idVars, writing, mainVars, ioVars,
                 link, born, faults, historyVars>>

\* SCTP_COMM_LOST, SCTP_RESTART and SCTP_SHUTDOWN_COMP: pending connects are
\* erased without a word, the sessions of the association leave the server.
CommLost(n) ==
  /\ Next(n, "lost")
  /\ LET e == Head(rq[n]) IN
       /\ pending' = pending \ PendingTo(n, e.peer)
       /\ listed' = [c \in Connects |->
                       IF c \in ClientsOn(n, e.peer, e.asoc) THEN 0 ELSE listed[c]]
       /\ accepted' = [accepted EXCEPT ![n] = @ \ AcceptedOn(n, e.peer, e.asoc)]
  /\ rq' = [rq EXCEPT ![n] = Tail(@)]
  /\ UNCHANGED <<next, idVars, writing, mainVars, ioVars, link, born, faults,
                 historyVars>>

\* A message is for the session of its stream, one of the sessions if there are
\* more; if there is none, a session is accepted.
Message(n) ==
  /\ Next(n, "data")
  /\ LET e == Head(rq[n])
         clients == {c \in ClientsOn(n, e.peer, e.asoc) : sid[c] = e.sid}
         session == [peer |-> e.peer, asoc |-> e.asoc, sid |-> e.sid]
     IN \/ /\ clients = {} \/ session \in accepted[n]
           /\ accepted' = [accepted EXCEPT ![n] = @ \union {session}]
           /\ heard' = heard \union {<<e.of, NoCall>>}
        \/ /\ \E c \in clients : heard' = heard \union {<<e.of, c>>}
           /\ UNCHANGED accepted
  /\ rq' = [rq EXCEPT ![n] = Tail(@)]
  /\ UNCHANGED <<next, pending, listed, idVars, writing, mainVars, ioVars,
                 link, born, faults, issued, answered>>

Read(n) == CommUp(n) \/ CantStart(n) \/ CommLost(n) \/ Message(n)

-----------------------------------------------------------------------------
(* SctpSession::async_write and write_, on the IO thread.                  *)

\* The session is in the server and its association established.  While the
\* association is being set up the write waits for the socket again and again.
\* (A message is received when the association is established on both sides.)
Send(c) ==
  LET n == From[c]  m == To[c] IN
  /\ io[n] = NoCall /\ writing[c] > 0
  /\ listed[c] > 0
  /\ Live(n, m, asoc[c]) /\ link[n][m] = "up"
  /\ m \in Nodes /\ link[m][n] = "up"
  /\ writing' = [writing EXCEPT ![c] = @ - 1]
  /\ rq' = [rq EXCEPT ![m] = Append(@, [is |-> "data", peer |-> n,
              asoc |-> born[m][n], sid |-> sid[c], of |-> c])]
  /\ UNCHANGED <<serverVars, idVars, mainVars, ioVars, link, born, faults,
                 historyVars>>

\* A closed association is not noticed (a mutation of SendFails).
SendRetries(c) ==
  /\ io[From[c]] = NoCall /\ writing[c] > 0
  /\ listed[c] = 0
  /\ writing' = [writing EXCEPT ![c] = @ - 1]
  /\ Remove(c)
  /\ UNCHANGED <<next, pending, accepted, idVars, mainVars, ioVars, netVars,
                 historyVars>>

\* The session has left the server, or its association is closed: the callback
\* closes the session.
SendFails(c) ==
  /\ io[From[c]] = NoCall /\ writing[c] > 0
  /\ listed[c] = 0 \/ ~Live(From[c], To[c], asoc[c])
  /\ writing' = [writing EXCEPT ![c] = @ - 1]
  /\ Remove(c)
  /\ UNCHANGED <<next, pending, accepted, idVars, mainVars, ioVars, netVars,
                 historyVars>>

Write(c) == Send(c) \/ SendFails(c)

\* SctpSession::close, called when the HTTP session that was made for an entry
\* is destroyed: not while its write still waits.
Close(c) ==
  /\ writing[c] < listed[c]
  /\ Remove(c)
  /\ UNCHANGED <<next, pending, accepted, idVars, writing, mainVars, ioVars,
                 netVars, historyVars>>

CloseAccepted(n) ==
  /\ \E s \in accepted[n] : accepted' = [accepted EXCEPT ![n] = @ \ {s}]
  /\ UNCHANGED <<next, pending, listed, idVars, writing, mainVars, ioVars,
                 netVars, historyVars>>

-----------------------------------------------------------------------------
(* The network (external).                                                 *)

\* The peer accepts, or is starting the same association itself.
Accept(n, m) ==
  /\ link[n][m] = "setup" /\ m \in Nodes /\ link[m][n] # "up"
  /\ LET k == IF link[m][n] = "none" THEN born[m][n] + 1 ELSE born[m][n] IN
       /\ born' = [born EXCEPT ![m][n] = k]
       /\ rq' = [rq EXCEPT ![m] = Append(@, Event("up", n, k))]
  /\ link' = [link EXCEPT ![m][n] = "up"]
  /\ UNCHANGED <<serverVars, idVars, writing, mainVars, ioVars, faults,
                 historyVars>>

\* The handshake is complete on this side too.
Confirm(n, m) ==
  /\ link[n][m] = "setup" /\ m \in Nodes /\ link[m][n] = "up"
  /\ link' = [link EXCEPT ![n][m] = "up"]
  /\ rq' = [rq EXCEPT ![n] = Append(@, Event("up", m, born[n][m]))]
  /\ UNCHANGED <<serverVars, idVars, writing, mainVars, ioVars, born, faults,
                 historyVars>>

\* No answer.
GiveUp(n, m) ==
  /\ link[n][m] = "setup"
  /\ m \in Nodes => link[m][n] # "up" /\ faults < MaxFaults
  /\ faults' = IF m \in Nodes THEN faults + 1 ELSE faults
  /\ link' = [link EXCEPT ![n][m] = "none"]
  /\ rq' = [rq EXCEPT ![n] = Append(@, Event("cant", m, born[n][m]))]
  /\ UNCHANGED <<serverVars, idVars, writing, mainVars, ioVars, born,
                 historyVars>>

\* An association ends on both sides.
Break(n, m) ==
  /\ m \in Nodes \ {n} /\ link[n][m] = "up" /\ link[m][n] = "up"
  /\ faults < MaxFaults
  /\ faults' = faults + 1
  /\ link' = [link EXCEPT ![n][m] = "none", ![m][n] = "none"]
  /\ rq' = [rq EXCEPT ![n] = Append(@, Event("lost", m, born[n][m])),
                      ![m] = Append(@, Event("lost", n, born[m][n]))]
  /\ UNCHANGED <<serverVars, idVars, writing, mainVars, ioVars, born,
                 historyVars>>

Handshake(n, m) == Accept(n, m) \/ Confirm(n, m) \/ GiveUp(n, m)

-----------------------------------------------------------------------------
Calling(n) == \E c \in Connects : From[c] = n /\ AsyncConnect(c)
IoThread(n) == \/ \E c \in Connects : From[c] = n /\ (Handler(c) \/ Write(c))
               \/ Erase(n)
               \/ Read(n)
HttpLayer == \/ \E c \in Connects : Close(c)
             \/ \E n \in Nodes : CloseAccepted(n)
Handshakes == \E n \in Nodes, m \in Addresses : Handshake(n, m)

NextStep ==
  \/ \E c \in Connects : Lookup(c)
  \/ \E n \in Nodes : Calling(n) \/ IoThread(n)
  \/ HttpLayer
  \/ Handshakes
  \/ \E n \in Nodes, m \in Addresses : Break(n, m)

Spec == Init /\ [][NextStep]_vars

\* A call that has begun goes on, the IO thread runs while a handler is ready,
\* and the network decides every handshake.  Nobody has to connect or to close,
\* and nothing has to break.
FairSpec ==
  /\ Spec
  /\ \A n \in Nodes : WF_vars(Calling(n)) /\ WF_vars(IoThread(n))
  /\ WF_vars(Handshakes)

-----------------------------------------------------------------------------
(* Properties.                                                             *)

Events == [is : {"up", "cant", "lost", "data"}, peer : Addresses, asoc : Nat,
           sid : 0 .. MaxStreams - 1, of : Connects \union {NoCall}]

SessionTypes ==
  /\ next \in [Nodes -> 0 .. MaxStreams - 1]
  /\ listed \in [Connects -> Nat]
  /\ accepted \in [Nodes -> SUBSET [peer : Addresses, asoc : Nat,
                                    sid : 0 .. MaxStreams - 1]]
  /\ asoc \in [Connects -> Nat]
  /\ sid \in [Connects -> 0 .. MaxStreams - 1]
  /\ writing \in [Connects -> Nat]

CallTypes ==
  /\ pending \subseteq Connects /\ asked \subseteq Connects
  /\ issue \subseteq Connects
  /\ issued \subseteq Connects /\ answered \subseteq Connects
  /\ main \in [Nodes -> Connects \union {NoCall}]
  /\ \A n \in Nodes : main[n] # NoCall => main[n] \in asked /\ From[main[n]] = n
  /\ seen \in [Nodes -> Nat]
  /\ io \in [Nodes -> Connects \union {NoCall}]
  /\ heard \subseteq (Connects \union {NoCall}) \X (Connects \union {NoCall})

NetworkTypes ==
  /\ link \in [Nodes -> [Addresses -> {"none", "setup", "up"}]]
  /\ born \in [Nodes -> [Addresses -> Nat]]
  /\ rq \in [Nodes -> Seq(Events)]
  /\ faults \in 0 .. MaxFaults

\* Every variable has its type (the fields of the classes in sctp-server.hpp
\* and sctp-session.hpp), and async_connect is at work on calls of its own.
TypeOK == SessionTypes /\ CallTypes /\ NetworkTypes

\* "Find an unused stream number" (sctp-server.cpp:139): connects of a
\* controller that wait for the same address have different streams, although
\* the association was looked up before the lock was taken.
PendingDistinct ==
  \A c, d \in pending :
    c # d /\ From[c] = From[d] /\ To[c] = To[d] => sid[c] # sid[d]

\* A notification that ends the pending connects of n to m is in the socket.
Announced(n, m) ==
  \E i \in 1 .. Len(rq[n]) :
    rq[n][i].peer = m /\ rq[n][i].is \in {"up", "cant", "lost"}

OutcomeToCome(n, m) == link[n][m] = "setup" \/ Announced(n, m)

\* A connect that was issued (sctp-server.cpp:161) and is still pending has an
\* answer to come: its connect() is to be called, its handler is about to erase
\* it, or an outcome is in the socket or on its way - whichever side made the
\* association, in whatever order notifications and handlers run, and however
\* often associations end.
IssuedHasOutcome ==
  \A c \in pending \intersect issued :
    c \in issue \/ io[From[c]] = c \/ OutcomeToCome(From[c], To[c])

LostToCome(n, m, k) ==
  \E i \in 1 .. Len(rq[n]) :
    rq[n][i].is = "lost" /\ rq[n][i].peer = m /\ rq[n][i].asoc = k

\* A session in the server whose association is gone will leave it: the
\* notification is in the socket, or the session has a write that will fail
\* (sctp-server.cpp:384-395, sctp-session.cpp:46-54).  This holds although
\* async_connect may push a session with an association that has ended.
DeadSessionLeaves ==
  /\ \A c \in Connects :
       listed[c] > 0 /\ ~Live(From[c], To[c], asoc[c]) =>
         writing[c] > 0 \/ LostToCome(From[c], To[c], asoc[c])
  /\ \A n \in Nodes : \A s \in accepted[n] :
       ~Live(n, s.peer, s.asoc) => LostToCome(n, s.peer, s.asoc)

\* A connect leaves the pending connects only after its callback was called,
\* except when the end of an association is received (sctp-server.cpp:366-382,
\* where the connects are erased without a call), whichever of the handler and
\* the notifications comes first.
OnlyLossIsSilent ==
  [][\A c \in pending : c \in pending' \/ c \in answered' \/ CommLost(From[c])]_vars

\* No issued connect is pending for ever (sctp-server.cpp:161-210).
IssuedIsAnswered == \A c \in Connects : []<>(c \notin pending \intersect issued)

\* Every write ends: it does not wait for ever for an association that is being
\* set up (sctp-session.cpp:76-87).
WriteEnds == \A c \in Connects : []<>(writing[c] = 0)

\* "Otherwise by default any read request must be a server session."
\* (controller-app.cpp:776): a request of a peer is not taken for the response
\* of a client session.
RequestsReachServers == \A h \in heard : h[2] = NoCall
=============================================================================

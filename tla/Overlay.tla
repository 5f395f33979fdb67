------------------------------ MODULE Overlay -------------------------------
(***************************************************************************)
(* Connections between nodes: who dials whom, the handshake, the limits on *)
(* the number of peers, dropping, and the flooding of transactions over    *)
(* what is connected.                                                      *)
(*                                                                         *)
(* A link is one TCP connection.  It has two Peer objects, one for each    *)
(* role, and a peer is named by its link and its role.  What a peer has    *)
(* written and the other one has not read is its queue `out': TCP keeps    *)
(* the order, and loses what is left when an end closes.                   *)
(***************************************************************************)
EXTENDS Naturals, SequencesExt, FiniteSetsExt

CONSTANTS
    OverlayNode,              \* node identities; also their addresses
    MaxLinks,                 \* bound: connections over a behaviour
    Scenario,                 \* [book, links, failures, stops]: the addresses in
                              \* each node's database, how many connections are
                              \* made and how many fail by themselves, and the
                              \* nodes that may shut down
    Preferred,                \* Preferred[n]: PREFERRED_PEERS of n
    Refused,                  \* Refused[n]: the nodes whose HELLO n refuses
                              \* (overlay version, network passphrase)
    TARGET_PEER_CONNECTIONS,
    MAX_PEER_CONNECTIONS,
    Flooded                   \* the transactions users submit

VARIABLE ov  \* [left, from, to, end, peers, book, has, told, down, outOfStep]

-----------------------------------------------------------------------------
(* Peers.                                                                  *)

Role == {"WE_CALLED_REMOTE", "REMOTE_CALLED_US"}
Link == 1..MaxLinks

OtherEnd(p) == <<p[1], IF p[2] = "WE_CALLED_REMOTE" THEN "REMOTE_CALLED_US"
                       ELSE "WE_CALLED_REMOTE">>
Owner(o, p) == IF p[2] = "WE_CALLED_REMOTE" THEN o.from[p[1]] ELSE o.to[p[1]]
Remote(o, p) == Owner(o, OtherEnd(p))

\* A Peer: its state, whether the connect handler is still to run, whether a
\* read is pending on its socket, whether HELLO has set mPeerID, its sequence
\* numbers and its write queue.
NewPeer(state) ==
    [state |-> state, dialling |-> state = "CONNECTING", reading |-> state = "CONNECTED",
     hello |-> FALSE,
     sendMacSeq |-> 0, recvMacSeq |-> 0, out |-> << >>]

isAuthenticated(o, p) == o.end[p].state = "GOT_AUTH"

shouldAbort(o, p) == o.end[p].state = "CLOSING" \/ Owner(o, p) \in o.down

\* HELLO and ERROR_MSG carry no sequence number.  What is written to an end
\* that has closed is lost.
Authenticated(type) == type \notin {"HELLO", "ERROR_MSG"}

sendMessage(o, p, type, arg) ==
    LET seq == IF Authenticated(type) THEN o.end[p].sendMacSeq ELSE 0
        msg == [type |-> type, arg |-> arg, seq |-> seq]
    IN  [o EXCEPT
            !.end[p].out = IF o.end[OtherEnd(p)].state = "CLOSING" THEN @ ELSE Append(@, msg),
            !.end[p].sendMacSeq = IF Authenticated(type) THEN @ + 1 ELSE @]

dropPeer(o, p) ==
    [o EXCEPT !.peers[Owner(o, p)] = SelectSeq(@, LAMBDA q : q # p)]

\* The peer reads nothing more, so what was written to it is lost.
drop(o, p) ==
    IF o.end[p].state = "CLOSING" THEN o
    ELSE LET closed == [o EXCEPT !.end[p].state = "CLOSING", !.end[p].reading = FALSE,
                                 !.end[OtherEnd(p)].out = << >>]
         IN  dropPeer(closed, p)

\* drop(err, msg): tell the other end first.
dropWithError(o, p) == drop(sendMessage(o, p, "ERROR_MSG", {}), p)

\* The message does not fit the state the handshake is in.
dropOutOfStep(o, p) == [dropWithError(o, p) EXCEPT !.outOfStep = @ \cup {p}]

-----------------------------------------------------------------------------
(* The list of peers of a node.                                            *)

\* The remote address is known to the caller, and to the other end once
\* HELLO gave the port.
AddressKnown(o, p) == p[2] = "WE_CALLED_REMOTE" \/ o.end[p].hello

getConnectedPeer(o, n, m) ==
    \E p \in ToSet(o.peers[n]) : AddressKnown(o, p) /\ Remote(o, p) = m

isPeerPreferred(o, p) ==
    /\ AddressKnown(o, p) \/ isAuthenticated(o, p)
    /\ Remote(o, p) \in Preferred[Owner(o, p)]

HasRoom(o, n) == Len(o.peers[n]) < MAX_PEER_CONNECTIONS

\* The peer that gives way to a preferred one leaves the list of peers, but
\* its connection is not closed.
Victims(o, p) ==
    IF isPeerPreferred(o, p) /\ ~HasRoom(o, Owner(o, p))
    THEN SelectSeq(o.peers[Owner(o, p)], LAMBDA q : ~isPeerPreferred(o, q))
    ELSE << >>

isPeerAccepted(o, p) == HasRoom(o, Owner(o, p)) \/ Victims(o, p) # << >>

evict(o, p) == IF Victims(o, p) = << >> THEN o ELSE dropPeer(o, Victims(o, p)[1])

-----------------------------------------------------------------------------
(* Flooding.                                                               *)

addRecord(o, p, m) == [o EXCEPT !.told[Owner(o, p)][m] = @ \cup {p}]

\* To the authenticated peers of the list that neither sent the message nor
\* were told.
broadcast(o, n, m) ==
    LET untold == SelectSeq(o.peers[n], LAMBDA p : p \notin o.told[n][m] /\ isAuthenticated(o, p))
    IN  [FoldLeft(LAMBDA acc, p : sendMessage(acc, p, "TRANSACTION", {m}), o, untold)
            EXCEPT !.told[n][m] = @ \cup ToSet(untold)]

\* TX_STATUS_PENDING for one the node has not seen, else TX_STATUS_DUPLICATE.
recvFlooded(o, p, m) ==
    LET n == Owner(o, p)
    IN  IF m \in o.has[n] THEN addRecord(o, p, m)
        ELSE broadcast(addRecord([o EXCEPT !.has[n] = @ \cup {m}], p, m), n, m)

-----------------------------------------------------------------------------
(* The handshake.                                                          *)

\* Wrong: only peers that are authenticated count.
alreadyAuthenticated(o, p) ==
    \E q \in ToSet(o.peers[Owner(o, p)]) :
        q # p /\ isAuthenticated(o, q) /\ Remote(o, q) = Remote(o, p)

\* Another peer of the list that has the same mPeerID.
alreadyConnected(o, p) ==
    \E q \in ToSet(o.peers[Owner(o, p)]) :
        q # p /\ o.end[q].hello /\ Remote(o, q) = Remote(o, p)

recvHello(o, p) ==
    LET met == [o EXCEPT !.end[p].state = "GOT_HELLO", !.end[p].hello = TRUE,
                         !.end[p].sendMacSeq = 0, !.end[p].recvMacSeq = 0]
        answered == IF p[2] = "REMOTE_CALLED_US" THEN sendMessage(met, p, "HELLO", {}) ELSE met
    IN  IF \/ Remote(o, p) \in Refused[Owner(o, p)]
           \/ Remote(o, p) = Owner(o, p)
           \/ alreadyConnected(o, p)
        THEN dropWithError(answered, p)
        ELSE IF p[2] = "WE_CALLED_REMOTE" THEN sendMessage(answered, p, "AUTH", {})
        ELSE answered

noteHandshakeSuccessInPeerRecord(o, p) == [o EXCEPT !.book[Owner(o, p)] = @ \cup {Remote(o, p)}]

\* sendPeers leaves out the address of the one who is told.
sendPeers(o, p) == sendMessage(o, p, "PEERS", o.book[Owner(o, p)] \ {Remote(o, p)})

\* Wrong: the list of peers is sent before AUTH.
recvAuthPeersFirst(o, p) ==
    LET met      == [o EXCEPT !.end[p].state = "GOT_AUTH"]
        accepted == noteHandshakeSuccessInPeerRecord(evict(met, p), p)
        answered == IF p[2] = "REMOTE_CALLED_US"
                    THEN sendMessage(sendPeers(accepted, p), p, "AUTH", {})
                    ELSE accepted
    IN  IF o.end[p].state # "GOT_HELLO" THEN dropOutOfStep(o, p)
        ELSE IF ~isPeerAccepted(met, p) THEN dropWithError(met, p)
        ELSE sendMessage(answered, p, "GET_SCP_STATE", {})

recvAuth(o, p) ==
    LET met      == [o EXCEPT !.end[p].state = "GOT_AUTH"]
        accepted == noteHandshakeSuccessInPeerRecord(evict(met, p), p)
        answered == IF p[2] = "REMOTE_CALLED_US"
                    THEN sendPeers(sendMessage(accepted, p, "AUTH", {}), p)
                    ELSE accepted
    IN  IF o.end[p].state # "GOT_HELLO" THEN dropOutOfStep(o, p)
        ELSE IF ~isPeerAccepted(met, p) THEN dropWithError(met, p)
        ELSE sendMessage(answered, p, "GET_SCP_STATE", {})

recvPeers(o, p, addresses) == [o EXCEPT !.book[Owner(o, p)] = @ \cup addresses]

\* A message of an authenticated peer; none but these changes the state of
\* the overlay.
recvOther(o, p, msg) ==
    CASE msg.type = "PEERS"       -> recvPeers(o, p, msg.arg)
      [] msg.type = "TRANSACTION" -> recvFlooded(o, p, CHOOSE m \in msg.arg : TRUE)
      [] OTHER                    -> o

\* The sequence number is checked once HELLO is there, and a HELLO that comes
\* then has no valid MAC.
InSequence(o, p, msg) ==
    \/ o.end[p].state = "CONNECTED" \/ msg.type = "ERROR_MSG"
    \/ msg.type # "HELLO" /\ msg.seq = o.end[p].recvMacSeq

recvMessage(o, p, msg) ==
    LET counted == IF o.end[p].state \in {"GOT_HELLO", "GOT_AUTH"} /\ msg.type # "ERROR_MSG"
                   THEN [o EXCEPT !.end[p].recvMacSeq = @ + 1] ELSE o
    IN  IF ~InSequence(o, p, msg) THEN dropOutOfStep(counted, p)
        ELSE CASE msg.type = "ERROR_MSG" -> drop(counted, p)
               [] msg.type = "HELLO"     -> recvHello(counted, p)
               [] msg.type = "AUTH"      -> recvAuth(counted, p)
               [] OTHER -> IF isAuthenticated(o, p) THEN recvOther(counted, p, msg)
                           ELSE [drop(counted, p) EXCEPT !.outOfStep = @ \cup {p}]

-----------------------------------------------------------------------------
(* Behaviours.                                                             *)

OverlayInit ==
    \E s \in Scenario :
    ov = [left  |-> s,
          from  |-> << >>, to |-> << >>,
          end   |-> [p \in Link \X Role |-> NewPeer("NONE")],
          peers |-> [n \in OverlayNode |-> << >>],
          book  |-> s.book,
          has   |-> [n \in OverlayNode |-> {}],
          told  |-> [n \in OverlayNode |-> [m \in Flooded |-> {}]],
          down  |-> {}, outOfStep |-> {}]

\* addConnectedPeer, for a node that is not shutting down.
addConnectedPeer(o, p, peer) ==
    [o EXCEPT !.end[p] = [peer EXCEPT !.out = o.end[p].out], !.peers[Owner(o, p)] = Append(@, p)]

\* tick, connectToMorePeers, connectTo: an address of the database whose next
\* attempt is due.
ConnectTo(n, m) ==
    /\ n \notin ov.down
    /\ Len(ov.from) < ov.left.links
    /\ Len(ov.peers[n]) < TARGET_PEER_CONNECTIONS
    /\ m \in ov.book[n] /\ ~getConnectedPeer(ov, n, m)
    /\ LET dialled == [ov EXCEPT !.from = Append(@, n), !.to = Append(@, m)]
       IN  ov' = addConnectedPeer(dialled, <<Len(dialled.from), "WE_CALLED_REMOTE">>,
                                  NewPeer("CONNECTING"))

\* The connect handler.  It may run after the idle timer has dropped the peer:
\* then nothing is read, but the state is CONNECTED again and HELLO is sent.
ConnectHandler(p) ==
    /\ ov.end[p].dialling /\ Remote(ov, p) \notin ov.down
    /\ LET opened == [ov EXCEPT !.end[p].state = "CONNECTED", !.end[p].dialling = FALSE,
                                !.end[p].reading = ~shouldAbort(ov, p)]
       IN  ov' = sendMessage(opened, p, "HELLO", {})

\* handleKnock
Accept(p) ==
    /\ p[2] = "REMOTE_CALLED_US" /\ ov.end[p].state = "NONE"
    /\ p[1] <= Len(ov.from) /\ Owner(ov, p) \notin ov.down
    /\ ov' = addConnectedPeer(ov, p, NewPeer("CONNECTED"))

\* A whole message has been read.
Deliver(p) ==
    LET in == ov.end[OtherEnd(p)].out
    IN  /\ ov.end[p].reading /\ in # << >> /\ ~shouldAbort(ov, p)
        /\ ov' = recvMessage([ov EXCEPT !.end[OtherEnd(p)].out = Tail(in)], p, in[1])

\* The idle timer, an error of the socket, load shedding.
Fails(p) ==
    /\ ov.end[p].state \notin {"NONE", "CLOSING"}
    /\ ov.left.failures > 0
    /\ ov' = [drop(ov, p) EXCEPT !.left.failures = @ - 1]

Shutdown(n) ==
    /\ n \in ov.left.stops \ ov.down
    /\ LET closed == [ov EXCEPT !.down = @ \cup {n}, !.told[n] = [m \in Flooded |-> {}]]
       IN  ov' = FoldLeft(dropWithError, closed, ov.peers[n])

\* A transaction comes in through the node's HTTP interface.
Submit(n, m) ==
    /\ n \notin ov.down /\ \A k \in OverlayNode : m \notin ov.has[k]
    /\ ov' = broadcast([ov EXCEPT !.has[n] = @ \cup {m}], n, m)

\* After each ledger the pending transactions are broadcast again.
Rebroadcast(n, m) ==
    /\ n \notin ov.down /\ m \in ov.has[n]
    /\ ov' = broadcast(ov, n, m)

OverlayNext ==
    \/ \E n, m \in OverlayNode : ConnectTo(n, m)
    \/ \E p \in Link \X Role : \/ ConnectHandler(p) \/ Accept(p)
                               \/ Deliver(p) \/ Fails(p)
    \/ \E n \in OverlayNode : Shutdown(n)
    \/ \E n \in OverlayNode, m \in Flooded : Submit(n, m) \/ Rebroadcast(n, m)

OverlaySpec == OverlayInit /\ [][OverlayNext]_ov

-----------------------------------------------------------------------------
(* Properties.                                                             *)

\* Two nodes that dial each other at the same time end up with at most one
\* connection: a node's list never holds two peers that said they are the
\* same node (recvHello's test for an "already-connected peerID").
OneLinkPerPeer ==
    \A n \in OverlayNode : \A p, q \in ToSet(ov.peers[n]) :
        p # q /\ ov.end[p].hello /\ ov.end[q].hello => Remote(ov, p) # Remote(ov, q)

\* A node keeps a transaction from a peer only because that peer has it or is
\* going to: what the Floodgate records as told is known at the other end, on
\* its way, or lost with a connection that failed or was closed.  In
\* particular the other end never gets out of step and throws it away: no
\* sequence number, HELLO or AUTH is unexpected, and nothing comes "before
\* completed handshake" (recvMessage).
ToldMeansKnows ==
    \A n \in OverlayNode, m \in Flooded : \A p \in ov.told[n][m] :
        \/ m \in ov.has[Remote(ov, p)]
        \/ \E i \in DOMAIN ov.end[p].out : ov.end[p].out[i].arg = {m}
        \/ shouldAbort(ov, OtherEnd(p)) /\ OtherEnd(p) \notin ov.outOfStep
=============================================================================

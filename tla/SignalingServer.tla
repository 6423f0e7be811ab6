--------------------------- MODULE SignalingServer ---------------------------
(***************************************************************************)
(* The WebSocket signaling server (server/src/controller/ws_controller.rs).*)
(*                                                                         *)
(* Devices that share a public address form an IP room.  The server keeps  *)
(* one map of rooms behind one lock; every connection owns a bounded       *)
(* channel, a task that drains it into the socket (send_task), a task that *)
(* reads the socket (recv_task), and the task that runs handle_socket      *)
(* itself.  Whoever changes the room computes under the lock whom to tell, *)
(* releases the lock, and then sends one message after the other; a send   *)
(* to a full channel waits.  The order in which these sends reach a        *)
(* channel is therefore not the order of the lock sections.                *)
(*                                                                         *)
(* A member of Peer is one CONNECTION: the server draws a fresh Uuid per   *)
(* connection, so a device that reconnects is another member of Peer.      *)
(***************************************************************************)
EXTENDS Integers, Sequences, FiniteSets, Functions

CONSTANTS
  Peer,            \* connections (Uuid)
  Group,           \* IP rooms (get_ip_group)
  GroupOf,         \* the room of each connection
  Info,            \* ClientInfoWithoutId: alias, device, token
  NoInfo,          \* "not listed"
  MaxConnections,  \* MAX_CONNECTIONS_PER_IP
  MaxRequests,     \* MAX_REQUESTS_PER_IP_PER_HOUR
  ChanCap          \* mpsc::channel(4)

ASSUME PeerAssumption == IsFiniteSet(Peer)
ASSUME GroupAssumption == GroupOf \in [Peer -> Group]
ASSUME InfoAssumption == NoInfo \notin Info
ASSUME LimitAssumption ==
  /\ MaxConnections \in Nat
  /\ MaxRequests \in Nat
  /\ ChanCap \in Nat \ {0}

VARIABLES
  entry,    \* the rooms that have an entry in tx_map
  members,  \* the connections in tx_map (over all rooms)
  client,   \* ClientState.client of every connection
  origin,   \* the `peer` handle_socket captured when the socket connected
  count,    \* request_count_map
  chan,     \* the mpsc channel of every connection
  pc,       \* where the task running handle_socket is
  fan,      \* the targets it still has to tell (Join, later Left)
  hello,    \* the list of peers it will put into Hello
  stask,    \* send_task
  rtask,    \* recv_task
  rfan,     \* the sends recv_task still has to make
  sock,     \* is the client's end of the WebSocket open?
  view      \* the devices the client lists, by connection

mainVars == <<pc, fan, hello>>
recvVars == <<rtask, rfan>>
roomVars == <<entry, members, client, origin, count>>
vars == <<roomVars, chan, mainVars, stask, recvVars, sock, view>>

-----------------------------------------------------------------------------
(* Messages (WsServerMessage).  Every message names the peer it is about;  *)
(* only Hello carries a list.                                              *)

Listing == [Peer -> Info \cup {NoInfo}]
NoListing == [q \in Peer |-> NoInfo]

Kinds == {"hello", "join", "update", "left", "offer", "answer", "error"}
Msg == [type : Kinds, peer : Peer, info : Info \cup {NoInfo}, peers : Listing]
Sending == [to : Peer, msg : Msg]   \* a send still to be made

About(type, p, i) == [type |-> type, peer |-> p, info |-> i, peers |-> NoListing]
Hello(p) == [type |-> "hello", peer |-> p, info |-> origin[p], peers |-> hello[p]]

(* What the client's listener does with a message (signaling_provider):    *)
(* Hello, Join and Update register devices, Left unregisters one.          *)
Apply(v, m) ==
  [q \in Peer |->
     IF m.type = "hello" /\ m.peers[q] # NoInfo THEN m.peers[q]
     ELSE IF m.type \in {"join", "update"} /\ q = m.peer THEN m.info
     ELSE IF m.type = "left" /\ q = m.peer THEN NoInfo
     ELSE v[q]]

-----------------------------------------------------------------------------
(* The room map.                                                           *)

Room(g) == {q \in members : GroupOf[q] = g}
Mates(p) == Room(GroupOf[p])

(* The iteration order of a HashMap is arbitrary, but fixed once the       *)
(* senders are collected into a Vec.                                       *)
Orders(S) == Bijection(1 .. Cardinality(S), S)

(* The receiving half of a channel lives in handle_socket and then in      *)
(* send_task; it is dropped with that task.                                *)
Dropped(p) == stask[p] = "done"

CanSend(t) == Dropped(t) \/ Len(chan[t]) < ChanCap
Send(t, m) ==
  chan' = IF Dropped(t) THEN chan ELSE [chan EXCEPT ![t] = Append(@, m)]

-----------------------------------------------------------------------------
TypeOK ==
  /\ entry \subseteq Group
  /\ members \subseteq Peer
  /\ client \in Listing
  /\ origin \in Listing
  /\ count \in [Group -> 0 .. MaxRequests]
  /\ chan \in [Peer -> Seq(Msg)]
  /\ pc \in [Peer -> {"new", "refused", "join", "run", "end", "left", "gone"}]
  /\ fan \in [Peer -> Seq(Peer)]
  /\ hello \in [Peer -> Listing]
  /\ stask \in [Peer -> {"off", "on", "aborted", "done"}]
  /\ rtask \in [Peer -> {"off", "recv", "reject", "done"}]
  /\ rfan \in [Peer -> Seq(Sending)]
  /\ sock \in [Peer -> BOOLEAN]
  /\ view \in [Peer -> Listing]

Init ==
  /\ entry = {}
  /\ members = {}
  /\ client = NoListing
  /\ origin = NoListing
  /\ count = [g \in Group |-> 0]
  /\ chan = [p \in Peer |-> <<>>]
  /\ pc = [p \in Peer |-> "new"]
  /\ fan = [p \in Peer |-> <<>>]
  /\ hello = [p \in Peer |-> NoListing]
  /\ stask = [p \in Peer |-> "off"]
  /\ rtask = [p \in Peer |-> "off"]
  /\ rfan = [p \in Peer |-> <<>>]
  /\ sock = [p \in Peer |-> TRUE]
  /\ view = [p \in Peer |-> NoListing]

-----------------------------------------------------------------------------
(* handle_socket, first lock section.                                      *)

WithinLimits_OffByOne(p) ==   \* mutant: > for >=
  /\ Cardinality(Mates(p)) <= MaxConnections
  /\ count[GroupOf[p]] < MaxRequests
WithinLimits(p) ==
  /\ Cardinality(Mates(p)) < MaxConnections
  /\ count[GroupOf[p]] < MaxRequests

(* protect_ddos_request_count, when it lets the request through.           *)
CountRequest(p) == count' = [count EXCEPT ![GroupOf[p]] = @ + 1]

(* The senders collected before the insert.                                *)
JoinTargets_Ready(p) == {q \in Mates(p) : stask[q] = "on"}  \* mutant: only running ones
JoinTargets(p) == Mates(p)

(* The entry of the room is created before the limits are looked at.       *)
Refuse(p) ==
  /\ pc[p] = "new"
  /\ ~ WithinLimits(p)
  /\ entry' = entry \cup {GroupOf[p]}
  /\ pc' = [pc EXCEPT ![p] = "refused"]
  /\ sock' = [sock EXCEPT ![p] = FALSE]
  /\ UNCHANGED <<members, client, origin, count, chan, fan, hello, stask,
                 recvVars, view>>

Connect(p, i) ==
  /\ pc[p] = "new"
  /\ WithinLimits(p)
  /\ CountRequest(p)
  /\ entry' = entry \cup {GroupOf[p]}
  /\ \E order \in Orders(JoinTargets(p)) : fan' = [fan EXCEPT ![p] = order]
  /\ hello' = [hello EXCEPT ![p] =
                 [q \in Peer |-> IF q \in Mates(p) THEN client[q] ELSE NoInfo]]
  /\ members' = members \cup {p}
  /\ client' = [client EXCEPT ![p] = i]
  /\ origin' = [origin EXCEPT ![p] = i]
  /\ pc' = [pc EXCEPT ![p] = "join"]
  /\ UNCHANGED <<chan, stask, recvVars, sock, view>>

(* Tell the next member of the room; the lock is no longer held.           *)
SendJoin(p) ==
  /\ pc[p] = "join"
  /\ fan[p] # <<>>
  /\ CanSend(Head(fan[p]))
  /\ Send(Head(fan[p]), About("join", p, origin[p]))
  /\ fan' = [fan EXCEPT ![p] = Tail(@)]
  /\ UNCHANGED <<roomVars, pc, hello, stask, recvVars, sock, view>>

(* Hello goes through the connection's own channel, whose reader is only   *)
(* spawned afterwards.                                                     *)
SendHello(p) ==
  /\ pc[p] = "join"
  /\ fan[p] = <<>>
  /\ CanSend(p)
  /\ Send(p, Hello(p))
  /\ hello' = [hello EXCEPT ![p] = NoListing]
  /\ pc' = [pc EXCEPT ![p] = "run"]
  /\ stask' = [stask EXCEPT ![p] = "on"]
  /\ rtask' = [rtask EXCEPT ![p] = "recv"]
  /\ UNCHANGED <<roomVars, fan, rfan, sock, view>>

-----------------------------------------------------------------------------
(* The client and send_task.                                               *)

(* From here on nobody reads what is sent; the client's list is given up.  *)
ClientCloses(p) ==
  /\ pc[p] \in {"join", "run"}
  /\ sock[p]
  /\ sock' = [sock EXCEPT ![p] = FALSE]
  /\ view' = [view EXCEPT ![p] = NoListing]
  /\ UNCHANGED <<roomVars, chan, mainVars, stask, recvVars>>

(* An aborted task still runs until it next has to wait, so an aborted     *)
(* send_task may deliver what is already queued.                           *)
Deliver(p) ==
  /\ stask[p] \in {"on", "aborted"}
  /\ sock[p]
  /\ chan[p] # <<>>
  /\ view' = [view EXCEPT ![p] = Apply(@, Head(chan[p]))]
  /\ chan' = [chan EXCEPT ![p] = Tail(@)]
  /\ UNCHANGED <<roomVars, mainVars, stask, recvVars, sock>>

SendTaskEnds(p) ==
  /\ \/ stask[p] = "on" /\ ~ sock[p] /\ chan[p] # <<>>   \* sender.send failed
     \/ stask[p] = "aborted"
  /\ stask' = [stask EXCEPT ![p] = "done"]
  /\ chan' = [chan EXCEPT ![p] = <<>>]
  /\ UNCHANGED <<roomVars, mainVars, recvVars, sock, view>>

-----------------------------------------------------------------------------
(* recv_task.  Once the connection has left "run" the task has been        *)
(* aborted, but nobody waits for it: until it stops it may take any step   *)
(* that does not have to wait.                                             *)

Aborted(p) == pc[p] # "run"

ReadyToRead_Early(p) ==   \* mutant: recv_task spawned before the Join loop
  rtask[p] \in {"off", "recv"} /\ pc[p] \in {"join", "run"} /\ rfan[p] = <<>>
ReadyToRead(p) == rtask[p] = "recv" /\ rfan[p] = <<>>

(* Everyone else in the room, if the sender is still in it.                *)
UpdateTargets(p) == IF p \in members THEN Mates(p) \ {p} ELSE {}

(* An Update replaces the stored info and is told to the rest of the room. *)
RecvUpdate(p, i) ==
  /\ ReadyToRead(p)
  /\ count[GroupOf[p]] < MaxRequests
  /\ CountRequest(p)
  /\ client' = IF p \in members THEN [client EXCEPT ![p] = i] ELSE client
  /\ \E order \in Orders(UpdateTargets(p)) :
       rfan' = [rfan EXCEPT ![p] =
                  [k \in DOMAIN order |-> [to |-> order[k], msg |-> About("update", p, i)]]]
  /\ UNCHANGED <<entry, members, origin, chan, mainVars, stask, rtask, sock, view>>

(* The target is looked up in the sender's room only.                      *)
Reachable_Anywhere(p, t) == t \in members   \* mutant: all rooms are searched
Reachable(p, t) == t \in Mates(p)

(* An Offer or an Answer goes to one member of the sender's own room, under*)
(* the name the sender had when it connected; any other target is dropped. *)
RecvSdp(p, kind, t) ==
  /\ ReadyToRead(p)
  /\ count[GroupOf[p]] < MaxRequests
  /\ CountRequest(p)
  /\ rfan' = [rfan EXCEPT ![p] =
                IF Reachable(p, t) THEN <<[to |-> t, msg |-> About(kind, p, origin[p])]>>
                ELSE <<>>]
  /\ UNCHANGED <<entry, members, client, origin, chan, mainVars, stask, rtask, sock, view>>

(* Too many requests in this hour: an Error to the client, then the end.   *)
RecvLimited(p) ==
  /\ ReadyToRead(p)
  /\ count[GroupOf[p]] >= MaxRequests
  /\ rtask' = [rtask EXCEPT ![p] = "reject"]
  /\ UNCHANGED <<roomVars, chan, mainVars, stask, rfan, sock, view>>

SendLimited(p) ==
  /\ rtask[p] = "reject"
  /\ CanSend(p)
  /\ Send(p, About("error", p, NoInfo))
  /\ rtask' = [rtask EXCEPT ![p] = "done"]
  /\ UNCHANGED <<roomVars, mainVars, stask, rfan, sock, view>>

(* The next send of a fan-out or of a routed message.                      *)
SendRecv(p) ==
  /\ rfan[p] # <<>>
  /\ CanSend(Head(rfan[p]).to)
  /\ Send(Head(rfan[p]).to, Head(rfan[p]).msg)
  /\ rfan' = [rfan EXCEPT ![p] = Tail(@)]
  /\ UNCHANGED <<roomVars, mainVars, stask, rtask, sock, view>>

RecvTaskEnds(p) ==
  /\ \/ ReadyToRead(p) /\ ~ sock[p]        \* receiver.next() is None
     \/ rtask[p] \notin {"off", "done"} /\ Aborted(p)
  /\ rtask' = [rtask EXCEPT ![p] = "done"]
  /\ rfan' = [rfan EXCEPT ![p] = <<>>]
  /\ UNCHANGED <<roomVars, chan, mainVars, stask, sock, view>>

-----------------------------------------------------------------------------
(* handle_socket, select! and the second lock section.                     *)

SomeTaskEnded(p) == stask[p] = "done" \/ rtask[p] = "done"

(* Whichever task ended, the other one is aborted.                         *)
Select(p) ==
  /\ pc[p] = "run"
  /\ SomeTaskEnded(p)
  /\ pc' = [pc EXCEPT ![p] = "end"]
  /\ stask' = [stask EXCEPT ![p] = IF @ = "on" THEN "aborted" ELSE @]
  /\ UNCHANGED <<roomVars, chan, fan, hello, recvVars, sock, view>>

Leave(p) ==
  /\ pc[p] = "end"
  /\ members' = members \ {p}
  /\ entry' = IF Mates(p) = {p} THEN entry \ {GroupOf[p]} ELSE entry
  /\ \E order \in Orders(Mates(p) \ {p}) : fan' = [fan EXCEPT ![p] = order]
  /\ pc' = [pc EXCEPT ![p] = "left"]
  /\ UNCHANGED <<client, origin, count, chan, hello, stask, recvVars, sock, view>>

SendLeft(p) ==
  /\ pc[p] = "left"
  /\ fan[p] # <<>>
  /\ CanSend(Head(fan[p]))
  /\ Send(Head(fan[p]), About("left", p, NoInfo))
  /\ fan' = [fan EXCEPT ![p] = Tail(@)]
  /\ UNCHANGED <<roomVars, pc, hello, stask, recvVars, sock, view>>

Finish(p) ==
  /\ pc[p] = "left"
  /\ fan[p] = <<>>
  /\ pc' = [pc EXCEPT ![p] = "gone"]
  /\ UNCHANGED <<roomVars, chan, fan, hello, stask, recvVars, sock, view>>

-----------------------------------------------------------------------------
(* The hourly job (config/scheduler.rs) clears the request counts.         *)
ResetCounts ==
  /\ \E g \in Group : count[g] # 0
  /\ count' = [g \in Group |-> 0]
  /\ UNCHANGED <<entry, members, client, origin, chan, mainVars, stask,
                 recvVars, sock, view>>

Main(p) == SendJoin(p) \/ SendHello(p) \/ Select(p) \/ Leave(p) \/ SendLeft(p) \/ Finish(p)
SendTask(p) == Deliver(p) \/ SendTaskEnds(p)
RecvTask(p) == SendRecv(p) \/ SendLimited(p) \/ RecvTaskEnds(p)
ClientSends(p) ==
  \/ \E i \in Info : RecvUpdate(p, i)
  \/ \E t \in Peer, kind \in {"offer", "answer"} : RecvSdp(p, kind, t)
  \/ RecvLimited(p)
Arrive(p) == Refuse(p) \/ \E i \in Info : Connect(p, i)

Next ==
  \/ \E p \in Peer : Arrive(p) \/ Main(p) \/ SendTask(p) \/ RecvTask(p)
                     \/ ClientSends(p) \/ ClientCloses(p)
  \/ ResetCounts

(* Every task is scheduled again and again, and a client that keeps its    *)
(* socket open reads it; nobody has to connect, send or disconnect.        *)
Fairness ==
  \A p \in Peer : /\ WF_vars(Main(p))
                  /\ WF_vars(SendTask(p))
                  /\ WF_vars(RecvTask(p))

Spec == Init /\ [][Next]_vars
FairSpec == Spec /\ Fairness
-----------------------------------------------------------------------------
(* What the server promises.                                               *)

Listed(l, q) == l[q] # NoInfo
Announces(m, q) ==
  \/ m.type = "hello" /\ Listed(m.peers, q)
  \/ m.type \in {"join", "update"} /\ m.peer = q

(* A room never holds more connections than MAX_CONNECTIONS_PER_IP, however*)
(* many sockets are upgraded at the same time (handle_socket l.111-115),   *)
(* and its count of requests never exceeds MAX_REQUESTS_PER_IP_PER_HOUR,   *)
(* which all its connections share.                                        *)
RoomWithinLimit ==
  \A g \in Group :
    Cardinality(Room(g)) <= MaxConnections /\ count[g] <= MaxRequests

(* Rooms are isolated: nothing about a connection of another IP room is    *)
(* ever queued for, or listed by, a client, even when it addresses an offer*)
(* to a Uuid of that room (send_to_peer_with_lock looks the target up in   *)
(* the sender's room only).  Nor does a client list itself: Hello excludes *)
(* it (signaling.rs l.27), Join goes to the peers collected before the     *)
(* insert, Update filters the sender out.                                  *)
Isolation ==
  \A p, q \in Peer :
    /\ p = q \/ GroupOf[p] # GroupOf[q] => ~ Listed(view[p], q)
    /\ GroupOf[p] # GroupOf[q] =>
         \A k \in DOMAIN chan[p] : chan[p][k].peer # q /\ ~ Listed(chan[p][k].peers, q)

(* Nobody is missed: if p and q are in the same room and p still receives, *)
(* then p lists q, or an announcement of q is queued for p, or is still    *)
(* going to be sent (by q's Join loop, or by p's own Hello).  This is what *)
(* taking the snapshot and inserting in ONE lock section buys.             *)
NobodyMissed ==
  \A p, q \in members :
    (p # q /\ GroupOf[p] = GroupOf[q] /\ sock[p] /\ ~ Dropped(p)) =>
      \/ Listed(view[p], q)
      \/ \E k \in DOMAIN chan[p] : Announces(chan[p][k], q)
      \/ pc[q] = "join" /\ \E k \in DOMAIN fan[q] : fan[q][k] = p
      \/ pc[p] = "join" /\ Listed(hello[p], q)

(* The Join of a peer overtakes nothing of that peer: in no queue does it  *)
(* stand behind an Update, an Offer, an Answer or the Left of the same     *)
(* peer, since recv_task is spawned after the Join loop.                   *)
JoinComesFirst ==
  \A p \in Peer : \A j, k \in DOMAIN chan[p] :
    (j < k /\ chan[p][k].type = "join") => chan[p][j].peer # chan[p][k].peer

(* A device the client lists is in the room, or its Left is on the way     *)
(* ("A peer has left the IP room.", signaling.rs l.43).                    *)
NoGhost ==
  \A p, q \in Peer :
    (Listed(view[p], q) /\ sock[p] /\ stask[p] = "on") =>
      \/ q \in members
      \/ \E k \in DOMAIN chan[p] : chan[p][k].type = "left" /\ chan[p][k].peer = q
      \/ pc[q] = "left" /\ \E k \in DOMAIN fan[q] : fan[q][k] = p


=============================================================================

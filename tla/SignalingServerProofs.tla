------------------------ MODULE SignalingServerProofs ------------------------
(***************************************************************************)
(* Theorems about SignalingServer, for any finite set of connections and   *)
(* any values of the limits.                                               *)
(***************************************************************************)
EXTENDS SignalingServer, FiniteSetTheorems, SequenceTheorems, TLAPS

(* Rooms are finite, and so is everything computed from them.              *)
LEMMA RoomFinite ==
  ASSUME members \subseteq Peer, NEW S, S \subseteq members
  PROVE  IsFiniteSet(S)
BY PeerAssumption, FS_Subset

(* A Vec collected from a finite set of peers is a sequence of peers that  *)
(* holds each of them exactly once.                                        *)
LEMMA OrdersAreSeqs ==
  ASSUME NEW S, IsFiniteSet(S), NEW s \in Orders(S)
  PROVE  /\ s \in Seq(S)
         /\ \A x \in S : \E k \in DOMAIN s : s[k] = x
         /\ \A j, k \in DOMAIN s : s[j] = s[k] => j = k
         /\ \A k \in DOMAIN s : s[k] \in S
<1>1. Cardinality(S) \in Nat
  BY FS_CardinalityType
<1>2. s \in [1 .. Cardinality(S) -> S]
  BY DEF Orders, Bijection, Injection, Surjection
<1>3. s \in Seq(S)
  BY <1>1, <1>2
<1>4. \A x \in S : \E k \in DOMAIN s : s[k] = x
  BY <1>2 DEF Orders, Bijection, Surjection
<1>5. \A j, k \in DOMAIN s : s[j] = s[k] => j = k
  BY <1>2 DEF Orders, Bijection, Injection, IsInjective
<1> QED
  BY <1>2, <1>3, <1>4, <1>5

-----------------------------------------------------------------------------
(* Type correctness.                                                       *)

(* The empty list of peers is a list of peers.                             *)
LEMMA NoListingType == NoListing \in Listing
BY DEF NoListing, Listing

(* The empty queue has every queue type.                                   *)
LEMMA EmptySeqs == <<>> \in Seq(Msg) /\ <<>> \in Seq(Sending) /\ <<>> \in Seq(Peer)
BY EmptySeq

(* Join, Update, Left, Offer, Answer and Error are messages.               *)
LEMMA AboutType ==
  ASSUME NEW type \in Kinds, NEW p \in Peer, NEW i \in Info \cup {NoInfo}
  PROVE  About(type, p, i) \in Msg
BY NoListingType DEF About, Msg

(* A send leaves every channel a sequence of messages.                     *)
LEMMA SendType ==
  ASSUME chan \in [Peer -> Seq(Msg)], NEW t \in Peer, NEW m \in Msg, Send(t, m)
  PROVE  chan' \in [Peer -> Seq(Msg)]
<1>1. Append(chan[t], m) \in Seq(Msg)
  BY AppendProperties
<1> QED
  BY <1>1 DEF Send

(* A client that applies a message still holds a list of peers.            *)
LEMMA ApplyType ==
  ASSUME NEW v \in Listing, NEW m \in Msg
  PROVE  Apply(v, m) \in Listing
BY DEF Apply, Listing, Msg

(* The targets of Join, Update and Left are finite sets of peers.          *)
LEMMA MatesFinite ==
  ASSUME TypeOK, NEW p \in Peer
  PROVE  /\ IsFiniteSet(Mates(p))
         /\ IsFiniteSet(Mates(p) \ {p})
         /\ IsFiniteSet(JoinTargets(p))
         /\ IsFiniteSet(UpdateTargets(p))
         /\ Mates(p) \subseteq members
         /\ members \subseteq Peer
<1>1. members \subseteq Peer /\ Mates(p) \subseteq members
  BY DEF TypeOK, Mates, Room
<1>2. IsFiniteSet(Mates(p)) /\ IsFiniteSet(Mates(p) \ {p}) /\ IsFiniteSet({})
  BY <1>1, RoomFinite, FS_EmptySet
<1> QED
  BY <1>1, <1>2 DEF JoinTargets, UpdateTargets

(* The state components a step of p may change keep their types.           *)
LEMMA TypeStep ==
  TypeOK /\ [Next]_vars => TypeOK'
<1> SUFFICES ASSUME TypeOK, [Next]_vars PROVE TypeOK'
  OBVIOUS
<1> USE NoListingType, EmptySeqs
<1>1. CASE UNCHANGED vars
  BY <1>1 DEF TypeOK, vars, roomVars, mainVars, recvVars
<1>2. ASSUME NEW p \in Peer, Refuse(p) PROVE TypeOK'
  <2>1. GroupOf[p] \in Group
    BY GroupAssumption
  <2> QED
    BY <1>2, <2>1 DEF TypeOK, Refuse, recvVars
<1>3. ASSUME NEW p \in Peer, NEW i \in Info, Connect(p, i) PROVE TypeOK'
  <2>1. PICK order \in Orders(JoinTargets(p)) : fan' = [fan EXCEPT ![p] = order]
    BY <1>3 DEF Connect
  <2>2. order \in Seq(JoinTargets(p)) /\ JoinTargets(p) \subseteq Peer
    BY MatesFinite, OrdersAreSeqs DEF JoinTargets
  <2>3. order \in Seq(Peer)
    BY <2>2, SeqMonotonic
  <2>4. GroupOf[p] \in Group
    BY GroupAssumption
  <2>5. fan' \in [Peer -> Seq(Peer)]
    BY <2>1, <2>3 DEF TypeOK
  <2>6. count' \in [Group -> 0 .. MaxRequests]
    BY <1>3, <2>4, LimitAssumption DEF TypeOK, Connect, WithinLimits, CountRequest
  <2>7. hello' \in [Peer -> Listing]
    BY <1>3 DEF TypeOK, Connect, Listing
  <2>8. client' \in Listing /\ origin' \in Listing
    BY <1>3 DEF TypeOK, Connect, Listing
  <2> QED
    BY <1>3, <2>4, <2>5, <2>6, <2>7, <2>8 DEF TypeOK, Connect, recvVars
<1>4. ASSUME NEW p \in Peer, SendJoin(p) PROVE TypeOK'
  <2>1. Head(fan[p]) \in Peer /\ Tail(fan[p]) \in Seq(Peer)
    BY <1>4, HeadTailProperties DEF TypeOK, SendJoin
  <2>2. About("join", p, origin[p]) \in Msg
    BY AboutType DEF TypeOK, Listing, Kinds
  <2>3. chan' \in [Peer -> Seq(Msg)]
    BY <1>4, <2>1, <2>2, SendType DEF TypeOK, SendJoin
  <2> QED
    BY <1>4, <2>1, <2>3 DEF TypeOK, SendJoin, roomVars, recvVars
<1>5. ASSUME NEW p \in Peer, SendHello(p) PROVE TypeOK'
  <2>1. Hello(p) \in Msg
    BY DEF TypeOK, Hello, Msg, Kinds, Listing
  <2>2. chan' \in [Peer -> Seq(Msg)]
    BY <1>5, <2>1, SendType DEF TypeOK, SendHello
  <2> QED
    BY <1>5, <2>2 DEF TypeOK, SendHello, roomVars
<1>6. ASSUME NEW p \in Peer, ClientCloses(p) PROVE TypeOK'
  BY <1>6 DEF TypeOK, ClientCloses, roomVars, mainVars, recvVars
<1>7. ASSUME NEW p \in Peer, Deliver(p) PROVE TypeOK'
  <2>1. Head(chan[p]) \in Msg /\ Tail(chan[p]) \in Seq(Msg)
    BY <1>7, HeadTailProperties DEF TypeOK, Deliver
  <2>2. Apply(view[p], Head(chan[p])) \in Listing
    BY <2>1, ApplyType DEF TypeOK
  <2> QED
    BY <1>7, <2>1, <2>2 DEF TypeOK, Deliver, roomVars, mainVars, recvVars
<1>8. ASSUME NEW p \in Peer, SendTaskEnds(p) PROVE TypeOK'
  BY <1>8 DEF TypeOK, SendTaskEnds, roomVars, mainVars, recvVars
<1>9. ASSUME NEW p \in Peer, NEW i \in Info, RecvUpdate(p, i) PROVE TypeOK'
  <2>1. PICK order \in Orders(UpdateTargets(p)) :
          rfan' = [rfan EXCEPT ![p] =
                    [k \in DOMAIN order |-> [to |-> order[k], msg |-> About("update", p, i)]]]
    BY <1>9 DEF RecvUpdate
  <2>2. order \in Seq(UpdateTargets(p)) /\ UpdateTargets(p) \subseteq Peer
    BY MatesFinite, OrdersAreSeqs DEF UpdateTargets
  <2>3. order \in Seq(Peer)
    BY <2>2, SeqMonotonic
  <2>4. About("update", p, i) \in Msg
    BY AboutType DEF Kinds
  <2>5. [k \in DOMAIN order |-> [to |-> order[k], msg |-> About("update", p, i)]]
           \in Seq(Sending)
    <3>1. \A k \in DOMAIN order : [to |-> order[k], msg |-> About("update", p, i)] \in Sending
      BY <2>3, <2>4 DEF Sending
    <3> QED
      BY <2>3, <3>1
  <2>6. GroupOf[p] \in Group
    BY GroupAssumption
  <2>7. count' \in [Group -> 0 .. MaxRequests]
    BY <1>9, <2>6, LimitAssumption DEF TypeOK, RecvUpdate, CountRequest
  <2>8. client' \in Listing
    BY <1>9 DEF TypeOK, RecvUpdate, Listing
  <2> QED
    BY <1>9, <2>1, <2>5, <2>7, <2>8 DEF TypeOK, RecvUpdate, mainVars
<1>10. ASSUME NEW p \in Peer, NEW t \in Peer, NEW kind \in {"offer", "answer"},
              RecvSdp(p, kind, t)
       PROVE  TypeOK'
  <2>1. About(kind, p, origin[p]) \in Msg
    BY AboutType DEF TypeOK, Listing, Kinds
  <2>2. GroupOf[p] \in Group
    BY GroupAssumption
  <2>3. count' \in [Group -> 0 .. MaxRequests]
    BY <1>10, <2>2, LimitAssumption DEF TypeOK, RecvSdp, CountRequest
  <2>4. <<[to |-> t, msg |-> About(kind, p, origin[p])]>> \in Seq(Sending)
    BY <2>1 DEF Sending
  <2>5. rfan' \in [Peer -> Seq(Sending)]
    BY <1>10, <2>4 DEF TypeOK, RecvSdp
  <2> QED
    BY <1>10, <2>3, <2>5 DEF TypeOK, RecvSdp, mainVars
<1>11. ASSUME NEW p \in Peer, RecvLimited(p) PROVE TypeOK'
  BY <1>11 DEF TypeOK, RecvLimited, roomVars, mainVars
<1>12. ASSUME NEW p \in Peer, SendLimited(p) PROVE TypeOK'
  <2>1. About("error", p, NoInfo) \in Msg
    BY AboutType DEF Kinds
  <2>2. chan' \in [Peer -> Seq(Msg)]
    BY <1>12, <2>1, SendType DEF TypeOK, SendLimited
  <2> QED
    BY <1>12, <2>2 DEF TypeOK, SendLimited, roomVars, mainVars
<1>13. ASSUME NEW p \in Peer, SendRecv(p) PROVE TypeOK'
  <2>1. /\ Head(rfan[p]) \in Sending
        /\ Tail(rfan[p]) \in Seq(Sending)
    BY <1>13, HeadTailProperties DEF TypeOK, SendRecv
  <2>2. Head(rfan[p]).to \in Peer /\ Head(rfan[p]).msg \in Msg
    BY <2>1 DEF Sending
  <2>3. chan' \in [Peer -> Seq(Msg)]
    BY <1>13, <2>2, SendType DEF TypeOK, SendRecv
  <2> QED
    BY <1>13, <2>1, <2>3 DEF TypeOK, SendRecv, roomVars, mainVars
<1>14. ASSUME NEW p \in Peer, RecvTaskEnds(p) PROVE TypeOK'
  BY <1>14 DEF TypeOK, RecvTaskEnds, roomVars, mainVars
<1>15. ASSUME NEW p \in Peer, Select(p) PROVE TypeOK'
  BY <1>15 DEF TypeOK, Select, roomVars, recvVars
<1>16. ASSUME NEW p \in Peer, Leave(p) PROVE TypeOK'
  <2>1. PICK order \in Orders(Mates(p) \ {p}) : fan' = [fan EXCEPT ![p] = order]
    BY <1>16 DEF Leave
  <2>2. order \in Seq(Mates(p) \ {p}) /\ Mates(p) \ {p} \subseteq Peer
    BY MatesFinite, OrdersAreSeqs
  <2>3. order \in Seq(Peer)
    BY <2>2, SeqMonotonic
  <2> QED
    BY <1>16, <2>1, <2>3 DEF TypeOK, Leave, recvVars
<1>17. ASSUME NEW p \in Peer, SendLeft(p) PROVE TypeOK'
  <2>1. Head(fan[p]) \in Peer /\ Tail(fan[p]) \in Seq(Peer)
    BY <1>17, HeadTailProperties DEF TypeOK, SendLeft
  <2>2. About("left", p, NoInfo) \in Msg
    BY AboutType DEF Kinds
  <2>3. chan' \in [Peer -> Seq(Msg)]
    BY <1>17, <2>1, <2>2, SendType DEF TypeOK, SendLeft
  <2> QED
    BY <1>17, <2>1, <2>3 DEF TypeOK, SendLeft, roomVars, recvVars
<1>18. ASSUME NEW p \in Peer, Finish(p) PROVE TypeOK'
  BY <1>18 DEF TypeOK, Finish, roomVars, recvVars
<1>19. CASE ResetCounts
  <2>1. count' \in [Group -> 0 .. MaxRequests]
    BY <1>19, LimitAssumption DEF ResetCounts
  <2> QED
    BY <1>19, <2>1 DEF TypeOK, ResetCounts, mainVars, recvVars
<1> QED
  BY <1>1, <1>2, <1>3, <1>4, <1>5, <1>6, <1>7, <1>8, <1>9, <1>10, <1>11, <1>12,
     <1>13, <1>14, <1>15, <1>16, <1>17, <1>18, <1>19
     DEF Next, Arrive, Main, SendTask, RecvTask, ClientSends

(* Every reachable state is well-typed; in particular the request count of *)
(* a room never exceeds MAX_REQUESTS_PER_IP_PER_HOUR.                      *)
THEOREM TypeCorrect == Spec => []TypeOK
<1>1. Init => TypeOK
  BY NoListingType, EmptySeqs, LimitAssumption DEF Init, TypeOK
<1> QED
  BY <1>1, TypeStep, PTL DEF Spec

-----------------------------------------------------------------------------
(* The queues: what a send adds, what a read removes.                      *)

(* After a send every message of a channel was there before, or is the     *)
(* one just sent, in the target's channel.                                 *)
LEMMA SendElems ==
  ASSUME TypeOK, NEW t \in Peer, NEW m \in Msg, Send(t, m), NEW p \in Peer
  PROVE  /\ \A k \in DOMAIN chan[p] : k \in DOMAIN chan'[p] /\ chan'[p][k] = chan[p][k]
         /\ \A k \in DOMAIN chan'[p] :
              \/ k \in DOMAIN chan[p] /\ chan'[p][k] = chan[p][k]
              \/ p = t /\ chan'[p][k] = m /\ \A j \in DOMAIN chan[p] : j < k
         /\ ~ Dropped(t) => \E k \in DOMAIN chan'[t] : chan'[t][k] = m
<1>1. chan[p] \in Seq(Msg) /\ chan[t] \in Seq(Msg)
  BY DEF TypeOK
<1>2. CASE Dropped(t)
  BY <1>1, <1>2 DEF Send
<1>3. CASE ~ Dropped(t)
  <2>1. chan' = [chan EXCEPT ![t] = Append(chan[t], m)]
    BY <1>3 DEF Send
  <2>2. chan'[t] = Append(chan[t], m) /\ (p # t => chan'[p] = chan[p])
    BY <2>1 DEF TypeOK
  <2>3. /\ Append(chan[t], m) \in Seq(Msg)
        /\ Len(Append(chan[t], m)) = Len(chan[t]) + 1
        /\ \A i \in 1 .. Len(chan[t]) : Append(chan[t], m)[i] = chan[t][i]
        /\ Append(chan[t], m)[Len(chan[t]) + 1] = m
    BY <1>1, AppendProperties
  <2>4. DOMAIN chan[t] = 1 .. Len(chan[t]) /\ Len(chan[t]) \in Nat
    BY <1>1
  <2>5. DOMAIN chan'[t] = 1 .. Len(chan[t]) + 1
    BY <2>2, <2>3
  <2>6. CASE p = t
    <3> DEFINE n == Len(chan[t])
    <3>1. /\ n \in Nat /\ DOMAIN chan[p] = 1 .. n /\ DOMAIN chan'[p] = 1 .. n + 1
          /\ \A k \in 1 .. n : chan'[p][k] = chan[p][k]
          /\ chan'[p][n + 1] = m
      BY <2>2, <2>3, <2>4, <2>5, <2>6
    <3> HIDE DEF n
    <3>2. \A k \in 1 .. n + 1 : k \in 1 .. n \/ k = n + 1
      BY <3>1
    <3>3. n + 1 \in 1 .. n + 1 /\ 1 .. n \subseteq 1 .. n + 1 /\ \A j \in 1 .. n : j < n + 1
      BY <3>1
    <3> QED
      BY <2>6, <3>1, <3>2, <3>3
  <2>7. CASE p # t
    <3>1. chan'[p] = chan[p]
      BY <2>2, <2>7
    <3>2. Len(chan[t]) + 1 \in DOMAIN chan'[t] /\ chan'[t][Len(chan[t]) + 1] = m
      BY <2>2, <2>3, <2>4, <2>5
    <3> QED
      BY <3>1, <3>2
  <2> QED
    BY <2>6, <2>7
<1> QED
  BY <1>2, <1>3

(* Every element of the tail of a queue was an element of the queue.       *)
LEMMA TailElems ==
  ASSUME NEW S, NEW s \in Seq(S), s # <<>>
  PROVE  /\ Head(s) = s[1] /\ 1 \in DOMAIN s
         /\ \A k \in DOMAIN Tail(s) : k + 1 \in DOMAIN s /\ Tail(s)[k] = s[k + 1] /\ k >= 1
         /\ \A k \in DOMAIN s : k # 1 => k - 1 \in DOMAIN Tail(s) /\ Tail(s)[k - 1] = s[k]
         /\ \A x : (\E k \in DOMAIN s : s[k] = x) =>
                   x = Head(s) \/ \E k \in DOMAIN Tail(s) : Tail(s)[k] = x
<1>1. /\ Tail(s) \in Seq(S)
      /\ Len(Tail(s)) = Len(s) - 1
      /\ \A i \in 1 .. Len(Tail(s)) : Tail(s)[i] = s[i + 1]
  BY HeadTailProperties
<1>2. DOMAIN s = 1 .. Len(s) /\ DOMAIN Tail(s) = 1 .. Len(Tail(s)) /\ Len(s) \in Nat
  BY <1>1
<1>3. Head(s) = s[1] /\ Len(s) >= 1
  BY <1>2, EmptySeq
<1>4. \A k \in DOMAIN Tail(s) : k + 1 \in DOMAIN s /\ Tail(s)[k] = s[k + 1] /\ k >= 1
  BY <1>1, <1>2
<1>5. \A k \in DOMAIN s : k # 1 => k - 1 \in DOMAIN Tail(s) /\ Tail(s)[k - 1] = s[k]
  BY <1>1, <1>2
<1>6. 1 \in DOMAIN s
  BY <1>2, <1>3
<1>7. ASSUME NEW x, NEW k \in DOMAIN s, s[k] = x
      PROVE  x = Head(s) \/ \E j \in DOMAIN Tail(s) : Tail(s)[j] = x
  BY <1>3, <1>5, <1>7
<1> QED
  BY <1>3, <1>4, <1>5, <1>6, <1>7

-----------------------------------------------------------------------------
(* The life of a connection: it is in the room map exactly between its two *)
(* lock sections, and its two tasks start after its Hello.                 *)

Life ==
  \A p \in Peer :
    /\ p \in members <=> pc[p] \in {"join", "run", "end"}
    /\ pc[p] \in {"new", "refused", "join"} =>
         stask[p] = "off" /\ rtask[p] = "off" /\ rfan[p] = <<>>
    /\ rtask[p] = "off" => rfan[p] = <<>>

(* Every step keeps the life cycle of the connections and their tasks.     *)
LEMMA LifeStep == TypeOK /\ Life /\ [Next]_vars => Life'
<1> SUFFICES ASSUME TypeOK, Life, [Next]_vars PROVE Life'
  OBVIOUS
<1> USE DEF Life
<1>1. CASE UNCHANGED vars
  BY <1>1 DEF vars, roomVars, mainVars, recvVars
<1>2. ASSUME NEW p \in Peer, Refuse(p) PROVE Life'
  BY <1>2 DEF TypeOK, Refuse, recvVars
<1>3. ASSUME NEW p \in Peer, NEW i \in Info, Connect(p, i) PROVE Life'
  BY <1>3 DEF TypeOK, Connect, recvVars
<1>4. ASSUME NEW p \in Peer, SendJoin(p) PROVE Life'
  BY <1>4 DEF TypeOK, SendJoin, roomVars, recvVars
<1>5. ASSUME NEW p \in Peer, SendHello(p) PROVE Life'
  BY <1>5 DEF TypeOK, SendHello, roomVars
<1>6. ASSUME NEW p \in Peer, ClientCloses(p) PROVE Life'
  BY <1>6 DEF TypeOK, ClientCloses, roomVars, mainVars, recvVars
<1>7. ASSUME NEW p \in Peer, Deliver(p) PROVE Life'
  BY <1>7 DEF TypeOK, Deliver, roomVars, mainVars, recvVars
<1>8. ASSUME NEW p \in Peer, SendTaskEnds(p) PROVE Life'
  BY <1>8 DEF TypeOK, SendTaskEnds, roomVars, mainVars, recvVars
<1>9. ASSUME NEW p \in Peer, NEW i \in Info, RecvUpdate(p, i) PROVE Life'
  BY <1>9 DEF TypeOK, RecvUpdate, ReadyToRead, mainVars
<1>10. ASSUME NEW p \in Peer, NEW t \in Peer, NEW kind \in {"offer", "answer"},
              RecvSdp(p, kind, t)
       PROVE  Life'
  BY <1>10 DEF TypeOK, RecvSdp, ReadyToRead, mainVars
<1>11. ASSUME NEW p \in Peer, RecvLimited(p) PROVE Life'
  BY <1>11 DEF TypeOK, RecvLimited, ReadyToRead, roomVars, mainVars
<1>12. ASSUME NEW p \in Peer, SendLimited(p) PROVE Life'
  BY <1>12 DEF TypeOK, SendLimited, roomVars, mainVars
<1>13. ASSUME NEW p \in Peer, SendRecv(p) PROVE Life'
  BY <1>13 DEF TypeOK, SendRecv, roomVars, mainVars
<1>14. ASSUME NEW p \in Peer, RecvTaskEnds(p) PROVE Life'
  BY <1>14 DEF TypeOK, RecvTaskEnds, ReadyToRead, roomVars, mainVars
<1>15. ASSUME NEW p \in Peer, Select(p) PROVE Life'
  BY <1>15 DEF TypeOK, Select, roomVars, recvVars
<1>16. ASSUME NEW p \in Peer, Leave(p) PROVE Life'
  BY <1>16 DEF TypeOK, Leave, recvVars
<1>17. ASSUME NEW p \in Peer, SendLeft(p) PROVE Life'
  BY <1>17 DEF TypeOK, SendLeft, roomVars, recvVars
<1>18. ASSUME NEW p \in Peer, Finish(p) PROVE Life'
  BY <1>18 DEF TypeOK, Finish, roomVars, recvVars
<1>19. CASE ResetCounts
  BY <1>19 DEF ResetCounts, mainVars, recvVars
<1> QED
  BY <1>1, <1>2, <1>3, <1>4, <1>5, <1>6, <1>7, <1>8, <1>9, <1>10, <1>11, <1>12,
     <1>13, <1>14, <1>15, <1>16, <1>17, <1>18, <1>19
     DEF Next, Arrive, Main, SendTask, RecvTask, ClientSends

(* The tasks of a connection exist only between its Hello and its          *)
(* departure, and a connection is in its room exactly while it is live.    *)
THEOREM Lifecycle == Spec => [](TypeOK /\ Life)
<1>1. Init => Life
  BY DEF Init, Life
<1>2. Init => TypeOK
  BY NoListingType, EmptySeqs, LimitAssumption DEF Init, TypeOK
<1> QED
  BY <1>1, <1>2, LifeStep, TypeStep, PTL DEF Spec

-----------------------------------------------------------------------------
(* Only the two lock sections of handle_socket change the room map.        *)
LEMMA MembersStep ==
  ASSUME [Next]_vars
  PROVE  \/ members' = members
         \/ \E p \in Peer : members' = members \ {p}
         \/ \E p \in Peer : members' = members \cup {p} /\ WithinLimits(p)
<1>1. CASE UNCHANGED vars BY <1>1 DEF vars, roomVars
<1>2. CASE ResetCounts BY <1>2 DEF ResetCounts
<1>3. ASSUME NEW p \in Peer, Arrive(p)
      PROVE  members' = members \/ (members' = members \cup {p} /\ WithinLimits(p))
  BY <1>3 DEF Arrive, Refuse, Connect
<1>4. ASSUME NEW p \in Peer, Main(p)
      PROVE  members' = members \/ members' = members \ {p}
  BY <1>4 DEF Main, roomVars, SendJoin, SendHello, Select, Leave, SendLeft, Finish
<1>5. ASSUME NEW p \in Peer, SendTask(p) \/ RecvTask(p) \/ ClientCloses(p)
      PROVE  members' = members
  BY <1>5 DEF SendTask, RecvTask, roomVars, ClientCloses, Deliver, SendTaskEnds,
              SendLimited, SendRecv, RecvTaskEnds
<1>6. ASSUME NEW p \in Peer, ClientSends(p) PROVE members' = members
  BY <1>6 DEF ClientSends, roomVars, RecvUpdate, RecvSdp, RecvLimited
<1> QED BY <1>1, <1>2, <1>3, <1>4, <1>5, <1>6 DEF Next

(* A room never exceeds MAX_CONNECTIONS_PER_IP: the check and the insert   *)
(* are one critical section of handle_socket.  Nor does its request count  *)
(* exceed MAX_REQUESTS_PER_IP_PER_HOUR.                                    *)
THEOREM ConnectionLimit == Spec => []RoomWithinLimit
<1>1. Init => RoomWithinLimit
  <2> SUFFICES ASSUME Init, NEW g \in Group
               PROVE  Cardinality(Room(g)) <= MaxConnections /\ count[g] <= MaxRequests
    BY DEF RoomWithinLimit
  <2>0. count[g] <= MaxRequests
    BY LimitAssumption DEF Init
  <2>1. Room(g) = {}
    BY DEF Init, Room
  <2> QED
    BY <2>0, <2>1, FS_EmptySet, LimitAssumption
<1>2. TypeOK /\ TypeOK' /\ RoomWithinLimit /\ [Next]_vars => RoomWithinLimit'
  <2>c. TypeOK' => \A g \in Group : count'[g] <= MaxRequests
    BY LimitAssumption DEF TypeOK
  <2> SUFFICES ASSUME TypeOK, RoomWithinLimit, [Next]_vars, NEW g \in Group
               PROVE  Cardinality(Room(g)') <= MaxConnections
    BY <2>c DEF RoomWithinLimit
  <2>0. Room(g) \subseteq members /\ members \subseteq Peer
    BY DEF Room, TypeOK
  <2>1. IsFiniteSet(Room(g)) /\ Cardinality(Room(g)) \in Nat
    BY <2>0, RoomFinite, FS_CardinalityType
  <2>2. Cardinality(Room(g)) <= MaxConnections /\ MaxConnections \in Nat
    BY LimitAssumption DEF RoomWithinLimit
  <2>3. CASE members' = members
    BY <2>2, <2>3 DEF Room
  <2>4. CASE \E p \in Peer : members' = members \ {p}
    <3>1. Room(g)' \subseteq Room(g)
      BY <2>4 DEF Room
    <3>2. Cardinality(Room(g)') <= Cardinality(Room(g)) /\ Cardinality(Room(g)') \in Nat
      BY <3>1, <2>1, FS_Subset, FS_CardinalityType
    <3> QED
      BY <3>2, <2>1, <2>2
  <2>5. ASSUME NEW p \in Peer, members' = members \cup {p}, WithinLimits(p)
        PROVE  Cardinality(Room(g)') <= MaxConnections
    <3>1. CASE GroupOf[p] = g
      <4>1. Room(g)' = Room(g) \cup {p}
        BY <2>5, <3>1 DEF Room
      <4>2. Cardinality(Room(g)) < MaxConnections
        BY <2>5, <3>1 DEF WithinLimits, Mates
      <4>3. \/ Cardinality(Room(g)') = Cardinality(Room(g))
            \/ Cardinality(Room(g)') = Cardinality(Room(g)) + 1
        BY <4>1, <2>1, FS_AddElement
      <4> QED
        BY <4>2, <4>3, <2>1, <2>2
    <3>2. CASE GroupOf[p] # g
      <4>1. Room(g)' = Room(g)
        BY <2>5, <3>2 DEF Room
      <4> QED
        BY <4>1, <2>2
    <3> QED
      BY <3>1, <3>2
  <2> QED
    BY <2>3, <2>4, <2>5, MembersStep
<1> QED
  BY <1>1, <1>2, TypeCorrect, PTL DEF Spec

-----------------------------------------------------------------------------
(* Provenance of the messages.  Fits(p, m): m may be queued for p.         *)

Near(p, q) == q # p /\ GroupOf[q] = GroupOf[p]

Fits(p, m) ==
  /\ GroupOf[m.peer] = GroupOf[p]
  /\ \A q \in Peer : Listed(m.peers, q) => Near(p, q)
  /\ m.type \in {"join", "update"} => m.peer # p

ChanFits == \A p \in Peer : \A k \in DOMAIN chan[p] : Fits(p, chan[p][k])
SendsFit == \A p \in Peer : \A k \in DOMAIN rfan[p] : Fits(rfan[p][k].to, rfan[p][k].msg)
FanFits == \A p \in Peer : \A k \in DOMAIN fan[p] : Near(p, fan[p][k])
HelloFits == \A p, q \in Peer : Listed(hello[p], q) => Near(p, q)
ViewFits == \A p, q \in Peer : Listed(view[p], q) => Near(p, q)

Traffic == ChanFits /\ SendsFit /\ FanFits /\ HelloFits /\ ViewFits

(* A message about a member of the room, not about the target itself       *)
(* unless it is no announcement, may be queued for the target.             *)
LEMMA AboutFits ==
  ASSUME NEW type, NEW p \in Peer, NEW t \in Peer, NEW i,
         GroupOf[t] = GroupOf[p], type \in {"join", "update"} => t # p
  PROVE  Fits(t, About(type, p, i))
BY DEF Fits, About, NoListing, Listed

(* Sending a message that fits keeps all channels fitting.                 *)
LEMMA SendFits ==
  ASSUME TypeOK, ChanFits, NEW t \in Peer, NEW m \in Msg, Send(t, m), Fits(t, m)
  PROVE  ChanFits'
<1> SUFFICES ASSUME NEW p \in Peer, NEW k \in DOMAIN chan'[p] PROVE Fits(p, chan'[p][k])
  BY DEF ChanFits, Fits, Near, Listed
<1> QED
  BY SendElems DEF ChanFits

(* Taking the first target off a list of targets.                          *)
LEMMA FanTail ==
  ASSUME TypeOK, FanFits, NEW p \in Peer, fan[p] # <<>>,
         fan' = [fan EXCEPT ![p] = Tail(@)]
  PROVE  /\ FanFits'
         /\ Head(fan[p]) \in Peer
         /\ Near(p, Head(fan[p]))
<1>1. fan[p] \in Seq(Peer)
  BY DEF TypeOK
<1>2. Head(fan[p]) \in Peer /\ Near(p, Head(fan[p]))
  BY <1>1, TailElems, HeadTailProperties DEF FanFits
<1>3. ASSUME NEW q \in Peer, NEW k \in DOMAIN fan'[q] PROVE Near(q, fan'[q][k])
  BY <1>1, <1>3, TailElems DEF FanFits, TypeOK
<1> QED
  BY <1>2, <1>3 DEF FanFits, Near

(* Every step keeps the invariant on what is queued, about to be sent,     *)
(* snapshotted and listed.                                                 *)
LEMMA TrafficStep == TypeOK /\ Life /\ Traffic /\ [Next]_vars => Traffic'
<1> SUFFICES ASSUME TypeOK, Life, Traffic, [Next]_vars PROVE Traffic'
  OBVIOUS
<1> USE DEF Traffic
<1>0. /\ chan' = chan => ChanFits'
      /\ rfan' = rfan => SendsFit'
      /\ fan' = fan => FanFits'
      /\ hello' = hello => HelloFits'
      /\ view' = view => ViewFits'
  BY DEF ChanFits, SendsFit, FanFits, HelloFits, ViewFits, Fits, Near, Listed
<1>1. CASE UNCHANGED vars
  BY <1>0, <1>1 DEF vars, roomVars, mainVars, recvVars
<1>2. ASSUME NEW p \in Peer, Refuse(p) PROVE Traffic'
  BY <1>0, <1>2 DEF Refuse, recvVars
<1>3. ASSUME NEW p \in Peer, NEW i \in Info, Connect(p, i) PROVE Traffic'
  <2>0. p \notin members
    BY <1>3 DEF Life, Connect
  <2>1. \A q \in Mates(p) : Near(p, q)
    BY <2>0 DEF Near, Mates, Room
  <2>2. PICK order \in Orders(JoinTargets(p)) : fan' = [fan EXCEPT ![p] = order]
    BY <1>3 DEF Connect
  <2>3. \A k \in DOMAIN order : Near(p, order[k])
    BY <2>1, MatesFinite, OrdersAreSeqs DEF JoinTargets
  <2>4. FanFits'
    <3> SUFFICES ASSUME NEW q \in Peer, NEW k \in DOMAIN fan'[q] PROVE Near(q, fan'[q][k])
      BY DEF FanFits, Near
    <3> QED
      BY <2>2, <2>3 DEF FanFits, TypeOK
  <2>5. HelloFits'
    <3> SUFFICES ASSUME NEW q \in Peer, NEW r \in Peer, Listed(hello'[q], r) PROVE Near(q, r)
      BY DEF HelloFits, Near, Listed
    <3> QED
      BY <1>3, <2>1 DEF HelloFits, TypeOK, Connect, Listed
  <2> QED
    BY <1>0, <1>3, <2>4, <2>5 DEF Connect, recvVars
<1>4. ASSUME NEW p \in Peer, SendJoin(p) PROVE Traffic'
  <2>1. FanFits' /\ Head(fan[p]) \in Peer /\ Near(p, Head(fan[p]))
    BY <1>4, FanTail DEF SendJoin
  <2>2. About("join", p, origin[p]) \in Msg
    BY AboutType DEF TypeOK, Listing, Kinds
  <2>3. ChanFits'
    BY <1>4, <2>1, <2>2, AboutFits, SendFits DEF SendJoin, Near
  <2> QED
    BY <1>0, <1>4, <2>1, <2>3 DEF SendJoin, recvVars
<1>5. ASSUME NEW p \in Peer, SendHello(p) PROVE Traffic'
  <2>1. Hello(p) \in Msg
    BY DEF TypeOK, Hello, Msg, Kinds, Listing
  <2>2. Fits(p, Hello(p))
    BY DEF Hello, Fits, HelloFits
  <2>3. ChanFits'
    BY <1>5, <2>1, <2>2, SendFits DEF SendHello
  <2>4. HelloFits'
    BY <1>5 DEF SendHello, HelloFits, Near, Listed, NoListing, TypeOK
  <2> QED
    BY <1>0, <1>5, <2>3, <2>4 DEF SendHello
<1>6. ASSUME NEW p \in Peer, ClientCloses(p) PROVE Traffic'
  <2>1. ViewFits'
    BY <1>6 DEF ClientCloses, ViewFits, Near, Listed, NoListing, TypeOK
  <2> QED
    BY <1>0, <1>6, <2>1 DEF ClientCloses, mainVars, recvVars
<1>7. ASSUME NEW p \in Peer, Deliver(p) PROVE Traffic'
  <2>1. chan[p] \in Seq(Msg) /\ chan[p] # <<>>
    BY <1>7 DEF TypeOK, Deliver
  <2>2. Fits(p, Head(chan[p])) /\ Head(chan[p]) \in Msg
    BY <2>1, TailElems, HeadTailProperties DEF ChanFits
  <2>3. ViewFits'
    <3> SUFFICES ASSUME NEW r \in Peer, NEW q \in Peer, Listed(view'[r], q) PROVE Near(r, q)
      BY DEF ViewFits, Near, Listed
    <3>1. CASE r # p
      BY <1>7, <3>1 DEF Deliver, ViewFits, TypeOK
    <3>2. CASE r = p
      <4>1. view'[p] = Apply(view[p], Head(chan[p]))
        BY <1>7 DEF Deliver, TypeOK
      <4> QED
        BY <3>2, <4>1, <2>2 DEF Apply, Listed, Fits, ViewFits, Near
    <3> QED
      BY <3>1, <3>2
  <2>4. ChanFits'
    <3> SUFFICES ASSUME NEW r \in Peer, NEW k \in DOMAIN chan'[r] PROVE Fits(r, chan'[r][k])
      BY DEF ChanFits, Fits, Near, Listed
    <3> QED
      BY <1>7, <2>1, TailElems DEF Deliver, ChanFits, TypeOK
  <2> QED
    BY <1>0, <1>7, <2>3, <2>4 DEF Deliver, mainVars, recvVars
<1>8. ASSUME NEW p \in Peer, SendTaskEnds(p) PROVE Traffic'
  <2>1. ChanFits'
    <3> SUFFICES ASSUME NEW r \in Peer, NEW k \in DOMAIN chan'[r] PROVE Fits(r, chan'[r][k])
      BY DEF ChanFits, Fits, Near, Listed
    <3> QED
      BY <1>8, EmptySeqs DEF SendTaskEnds, ChanFits, TypeOK
  <2> QED
    BY <1>0, <1>8, <2>1 DEF SendTaskEnds, mainVars, recvVars
<1>9. ASSUME NEW p \in Peer, NEW i \in Info, RecvUpdate(p, i) PROVE Traffic'
  <2>1. PICK order \in Orders(UpdateTargets(p)) :
          rfan' = [rfan EXCEPT ![p] =
                    [k \in DOMAIN order |-> [to |-> order[k], msg |-> About("update", p, i)]]]
    BY <1>9 DEF RecvUpdate
  <2>2. \A k \in DOMAIN order : order[k] \in Peer /\ Near(p, order[k])
    <3>1. \A k \in DOMAIN order : order[k] \in UpdateTargets(p)
      BY MatesFinite, OrdersAreSeqs
    <3> QED
      BY <3>1 DEF UpdateTargets, Mates, Room, Near, TypeOK
  <2>3. \A k \in DOMAIN order : Fits(order[k], About("update", p, i))
    BY <2>2, AboutFits DEF Near
  <2>4. SendsFit'
    <3> SUFFICES ASSUME NEW r \in Peer, NEW k \in DOMAIN rfan'[r]
                 PROVE  Fits(rfan'[r][k].to, rfan'[r][k].msg)
      BY DEF SendsFit, Fits, Near, Listed
    <3> QED
      BY <2>1, <2>3 DEF SendsFit, TypeOK
  <2> QED
    BY <1>0, <1>9, <2>4 DEF RecvUpdate, mainVars
<1>10. ASSUME NEW p \in Peer, NEW t \in Peer, NEW kind \in {"offer", "answer"},
              RecvSdp(p, kind, t)
       PROVE  Traffic'
  <2>1. Reachable(p, t) => Fits(t, About(kind, p, origin[p]))
    BY AboutFits DEF Reachable, Mates, Room
  <2>2. SendsFit'
    <3> SUFFICES ASSUME NEW r \in Peer, NEW k \in DOMAIN rfan'[r]
                 PROVE  Fits(rfan'[r][k].to, rfan'[r][k].msg)
      BY DEF SendsFit, Fits, Near, Listed
    <3> QED
      BY <1>10, <2>1 DEF RecvSdp, SendsFit, TypeOK
  <2> QED
    BY <1>0, <1>10, <2>2 DEF RecvSdp, mainVars
<1>11. ASSUME NEW p \in Peer, RecvLimited(p) PROVE Traffic'
  BY <1>0, <1>11 DEF RecvLimited, mainVars
<1>12. ASSUME NEW p \in Peer, SendLimited(p) PROVE Traffic'
  <2>1. About("error", p, NoInfo) \in Msg
    BY AboutType DEF Kinds
  <2>2. ChanFits'
    BY <1>12, <2>1, AboutFits, SendFits DEF SendLimited
  <2> QED
    BY <1>0, <1>12, <2>2 DEF SendLimited, mainVars
<1>13. ASSUME NEW p \in Peer, SendRecv(p) PROVE Traffic'
  <2>1. rfan[p] \in Seq(Sending) /\ rfan[p] # <<>>
    BY <1>13 DEF TypeOK, SendRecv
  <2>2. /\ Fits(Head(rfan[p]).to, Head(rfan[p]).msg)
        /\ Head(rfan[p]).to \in Peer
        /\ Head(rfan[p]).msg \in Msg
    <3>1. Head(rfan[p]) \in Sending
      BY <2>1, HeadTailProperties
    <3>2. Head(rfan[p]) = rfan[p][1] /\ 1 \in DOMAIN rfan[p]
      BY <2>1, TailElems
    <3> QED
      BY <3>1, <3>2 DEF SendsFit, Sending
  <2>3. ChanFits'
    BY <1>13, <2>2, SendFits DEF SendRecv
  <2>4. SendsFit'
    <3> SUFFICES ASSUME NEW r \in Peer, NEW k \in DOMAIN rfan'[r]
                 PROVE  Fits(rfan'[r][k].to, rfan'[r][k].msg)
      BY DEF SendsFit, Fits, Near, Listed
    <3> QED
      BY <1>13, <2>1, TailElems DEF SendRecv, SendsFit, TypeOK
  <2> QED
    BY <1>0, <1>13, <2>3, <2>4 DEF SendRecv, mainVars
<1>14. ASSUME NEW p \in Peer, RecvTaskEnds(p) PROVE Traffic'
  <2>1. SendsFit'
    <3> SUFFICES ASSUME NEW r \in Peer, NEW k \in DOMAIN rfan'[r]
                 PROVE  Fits(rfan'[r][k].to, rfan'[r][k].msg)
      BY DEF SendsFit, Fits, Near, Listed
    <3> QED
      BY <1>14, EmptySeqs DEF RecvTaskEnds, SendsFit, TypeOK
  <2> QED
    BY <1>0, <1>14, <2>1 DEF RecvTaskEnds, mainVars
<1>15. ASSUME NEW p \in Peer, Select(p) PROVE Traffic'
  BY <1>0, <1>15 DEF Select, recvVars
<1>16. ASSUME NEW p \in Peer, Leave(p) PROVE Traffic'
  <2>1. PICK order \in Orders(Mates(p) \ {p}) : fan' = [fan EXCEPT ![p] = order]
    BY <1>16 DEF Leave
  <2>2. \A k \in DOMAIN order : Near(p, order[k])
    <3>1. \A k \in DOMAIN order : order[k] \in Mates(p) \ {p}
      BY MatesFinite, OrdersAreSeqs
    <3> QED
      BY <3>1 DEF Mates, Room, Near
  <2>3. FanFits'
    <3> SUFFICES ASSUME NEW q \in Peer, NEW k \in DOMAIN fan'[q] PROVE Near(q, fan'[q][k])
      BY DEF FanFits, Near
    <3> QED
      BY <2>1, <2>2 DEF FanFits, TypeOK
  <2> QED
    BY <1>0, <1>16, <2>3 DEF Leave, recvVars
<1>17. ASSUME NEW p \in Peer, SendLeft(p) PROVE Traffic'
  <2>1. FanFits' /\ Head(fan[p]) \in Peer /\ Near(p, Head(fan[p]))
    BY <1>17, FanTail DEF SendLeft
  <2>2. About("left", p, NoInfo) \in Msg
    BY AboutType DEF Kinds
  <2>3. ChanFits'
    BY <1>17, <2>1, <2>2, AboutFits, SendFits DEF SendLeft, Near
  <2> QED
    BY <1>0, <1>17, <2>1, <2>3 DEF SendLeft, recvVars
<1>18. ASSUME NEW p \in Peer, Finish(p) PROVE Traffic'
  BY <1>0, <1>18 DEF Finish, recvVars
<1>19. CASE ResetCounts
  BY <1>0, <1>19 DEF ResetCounts, mainVars, recvVars
<1> QED
  BY <1>1, <1>2, <1>3, <1>4, <1>5, <1>6, <1>7, <1>8, <1>9, <1>10, <1>11, <1>12,
     <1>13, <1>14, <1>15, <1>16, <1>17, <1>18, <1>19
     DEF Next, Arrive, Main, SendTask, RecvTask, ClientSends

(* Everything queued, about to be sent, taken into a Hello snapshot or     *)
(* listed concerns a peer of the same room.                                *)
THEOREM TrafficInvariant == Spec => []Traffic
<1>1. Init => Traffic
  BY EmptySeqs DEF Init, Traffic, ChanFits, SendsFit, FanFits, HelloFits, ViewFits,
     NoListing, Listed
<1> QED
  BY <1>1, TrafficStep, Lifecycle, PTL DEF Spec

(* Rooms are isolated: send_to_peer_with_lock, the Join and Left loops and *)
(* the update fan-out never carry anything across IP rooms, and no client  *)
(* is told that it is its own neighbour.                                   *)
THEOREM RoomsIsolated == Spec => []Isolation
<1>1. Traffic => Isolation
  BY DEF Traffic, Isolation, ChanFits, ViewFits, Fits, Near
<1> QED
  BY <1>1, TrafficInvariant, PTL

-----------------------------------------------------------------------------
(* The order of what is said about one peer.  Quiet(q, p): nothing about q *)
(* is queued for p.                                                        *)

Quiet(q, p) == \A k \in DOMAIN chan[p] : chan[p][k].peer # q
Once(s) == \A j, k \in DOMAIN s : s[j] = s[k] => j = k

(* recv_task only ever sends what its own client said.                     *)
OwnSends ==
  \A p \in Peer : \A k \in DOMAIN rfan[p] :
    /\ rfan[p][k].msg.peer = p
    /\ rfan[p][k].msg.type \in {"update", "offer", "answer"}
    /\ rfan[p][k].msg.type = "update" => rfan[p][k].msg.info # NoInfo

(* Nobody has heard of a connection before it joins, and while it joins    *)
(* those it still has to tell, each of them once, have not heard of it.    *)
Unheard ==
  \A q \in Peer :
    /\ pc[q] = "new" => \A p \in Peer : Quiet(q, p)
    /\ pc[q] = "join" => Once(fan[q]) /\ \A k \in DOMAIN fan[q] : Quiet(q, fan[q][k])

(* A step changes the pending sends of recv_task in four ways.             *)
LEMMA RecvCases ==
  ASSUME [Next]_vars
  PROVE  \/ rfan' = rfan
         \/ \E p \in Peer : SendRecv(p) \/ RecvTaskEnds(p)
         \/ \E p \in Peer, i \in Info : RecvUpdate(p, i)
         \/ \E p, t \in Peer, kind \in {"offer", "answer"} : RecvSdp(p, kind, t)
<1>1. CASE UNCHANGED vars BY <1>1 DEF vars, recvVars
<1>2. CASE ResetCounts BY <1>2 DEF ResetCounts, recvVars
<1>3. ASSUME NEW p \in Peer, Arrive(p) PROVE rfan' = rfan
  BY <1>3 DEF Arrive, Refuse, Connect, recvVars
<1>4. ASSUME NEW p \in Peer, Main(p) PROVE rfan' = rfan
  BY <1>4 DEF Main, recvVars, SendJoin, SendHello, Select, Leave, SendLeft, Finish
<1>5. ASSUME NEW p \in Peer, SendTask(p) \/ ClientCloses(p) \/ SendLimited(p) \/ RecvLimited(p)
      PROVE  rfan' = rfan
  BY <1>5 DEF SendTask, recvVars, ClientCloses, Deliver, SendTaskEnds, SendLimited, RecvLimited
<1> QED BY <1>1, <1>2, <1>3, <1>4, <1>5 DEF Next, RecvTask, ClientSends

LEMMA OwnSendsStep == TypeOK /\ OwnSends /\ [Next]_vars => OwnSends'
<1> SUFFICES ASSUME TypeOK, OwnSends, [Next]_vars PROVE OwnSends'
  OBVIOUS
<1> DEFINE Own(p, x) == /\ x.msg.peer = p
                        /\ x.msg.type \in {"update", "offer", "answer"}
                        /\ x.msg.type = "update" => x.msg.info # NoInfo
<1>1. CASE rfan' = rfan BY <1>1 DEF OwnSends
<1>2. ASSUME NEW p \in Peer, NEW s, rfan' = [rfan EXCEPT ![p] = s],
             \A k \in DOMAIN s : Own(p, s[k])
      PROVE  OwnSends'
  <2>1. rfan'[p] = s /\ \A r \in Peer \ {p} : rfan'[r] = rfan[r]
    BY <1>2 DEF TypeOK
  <2> QED BY <1>2, <2>1 DEF OwnSends
<1>3. ASSUME NEW p \in Peer, RecvTaskEnds(p) PROVE OwnSends'
  <2>1. \A k \in DOMAIN <<>> : Own(p, <<>>[k])
    OBVIOUS
  <2>2. rfan' = [rfan EXCEPT ![p] = <<>>]
    BY <1>3 DEF RecvTaskEnds
  <2> HIDE DEF Own
  <2> QED BY <1>2, <2>1, <2>2
<1>4. ASSUME NEW p \in Peer, SendRecv(p) PROVE OwnSends'
  <2>1. rfan[p] \in Seq(Sending) /\ rfan[p] # <<>>
    BY <1>4 DEF TypeOK, SendRecv
  <2>2. \A k \in DOMAIN Tail(rfan[p]) : Own(p, Tail(rfan[p])[k])
    <3>1. \A k \in DOMAIN rfan[p] : Own(p, rfan[p][k])
      BY DEF OwnSends
    <3>2. \A k \in DOMAIN Tail(rfan[p]) : \E j \in DOMAIN rfan[p] : Tail(rfan[p])[k] = rfan[p][j]
      BY <2>1, TailElems
    <3> HIDE DEF Own
    <3> QED BY <3>1, <3>2
  <2>3. rfan' = [rfan EXCEPT ![p] = Tail(rfan[p])]
    BY <1>4 DEF SendRecv
  <2> HIDE DEF Own
  <2> QED BY <1>2, <2>2, <2>3
<1>5. ASSUME NEW p \in Peer, NEW i \in Info, RecvUpdate(p, i) PROVE OwnSends'
  <2>1. PICK order \in Orders(UpdateTargets(p)) :
          rfan' = [rfan EXCEPT ![p] =
                    [k \in DOMAIN order |-> [to |-> order[k], msg |-> About("update", p, i)]]]
    BY <1>5 DEF RecvUpdate
  <2>2. \A t : Own(p, [to |-> t, msg |-> About("update", p, i)])
    BY InfoAssumption DEF About
  <2> DEFINE s == [k \in DOMAIN order |-> [to |-> order[k], msg |-> About("update", p, i)]]
  <2>3. \A k \in DOMAIN s : Own(p, s[k])
    <3> HIDE DEF Own
    <3> QED BY <2>2
  <2> HIDE DEF Own, s
  <2>4. rfan' = [rfan EXCEPT ![p] = s]
    BY <2>1 DEF s
  <2> QED BY <1>2, <2>3, <2>4
<1>6. ASSUME NEW p \in Peer, NEW t \in Peer, NEW kind \in {"offer", "answer"},
             RecvSdp(p, kind, t)
      PROVE  OwnSends'
  <2> DEFINE x == [to |-> t, msg |-> About(kind, p, origin[p])]
             s == IF Reachable(p, t) THEN <<x>> ELSE <<>>
  <2>1. rfan' = [rfan EXCEPT ![p] = s]
    BY <1>6 DEF RecvSdp
  <2>2. Own(p, x)
    BY DEF About
  <2>3. \A k \in DOMAIN s : s[k] = x
    OBVIOUS
  <2>4. \A k \in DOMAIN s : Own(p, s[k])
    <3> HIDE DEF Own, x, s
    <3> QED BY <2>2, <2>3
  <2> HIDE DEF Own, s
  <2> QED BY <1>2, <2>1, <2>4
<1> QED BY <1>1, <1>3, <1>4, <1>5, <1>6, RecvCases

(* What is sent to t leaves p quiet about q, unless it is about q and p is *)
(* the target.                                                             *)
LEMMA SendQuiet ==
  ASSUME TypeOK, NEW t \in Peer, NEW m \in Msg, Send(t, m),
         NEW p \in Peer, NEW q \in Peer, Quiet(q, p), p # t \/ m.peer # q
  PROVE  Quiet(q, p)'
<1>1. \A k \in DOMAIN chan'[p] :
        \/ k \in DOMAIN chan[p] /\ chan'[p][k] = chan[p][k]
        \/ p = t /\ chan'[p][k] = m
  BY SendElems
<1> QED BY <1>1 DEF Quiet

(* A send keeps the order, if a Join is sent only to somebody who has not  *)
(* heard of the peer.                                                      *)
LEMMA SendOrdered ==
  ASSUME TypeOK, JoinComesFirst, NEW t \in Peer, NEW m \in Msg, Send(t, m),
         m.type = "join" => Quiet(m.peer, t)
  PROVE  JoinComesFirst'
<1> SUFFICES ASSUME NEW p \in Peer, NEW j \in DOMAIN chan'[p], NEW k \in DOMAIN chan'[p],
                    j < k, chan'[p][k].type = "join"
             PROVE  chan'[p][j].peer # chan'[p][k].peer
  BY DEF JoinComesFirst
<1>0. j \in Int /\ k \in Int
  <2>1. chan'[p] \in Seq(Msg) BY SendType DEF TypeOK
  <2> QED BY <2>1
<1>1. \/ k \in DOMAIN chan[p] /\ chan'[p][k] = chan[p][k]
      \/ p = t /\ chan'[p][k] = m /\ \A l \in DOMAIN chan[p] : l < k
  BY SendElems
<1>2. \/ j \in DOMAIN chan[p] /\ chan'[p][j] = chan[p][j]
      \/ p = t /\ chan'[p][j] = m /\ \A l \in DOMAIN chan[p] : l < j
  BY SendElems
<1>3. CASE k \in DOMAIN chan[p] /\ chan'[p][k] = chan[p][k]
  <2>1. j \in DOMAIN chan[p] /\ chan'[p][j] = chan[p][j]
    BY <1>0, <1>2, <1>3
  <2> QED BY <1>3, <2>1 DEF JoinComesFirst
<1>4. CASE k \notin DOMAIN chan[p]
  <2>1. p = t /\ chan'[p][k] = m BY <1>1, <1>4
  <2>2. j \in DOMAIN chan[p] /\ chan'[p][j] = chan[p][j]
    <3>1. ASSUME j \notin DOMAIN chan[p] PROVE FALSE
      <4>1. chan[t] \in Seq(Msg) /\ Len(chan[t]) \in Nat BY DEF TypeOK
      <4>2. ~ Dropped(t) BY <1>4, <2>1 DEF Send
      <4>3. chan'[t] = Append(chan[t], m) BY <4>1, <4>2 DEF Send, TypeOK
      <4>4. DOMAIN chan'[t] = 1 .. Len(chan[t]) + 1 /\ DOMAIN chan[t] = 1 .. Len(chan[t])
        BY <4>1, <4>3, AppendProperties
      <4> QED BY <1>0, <1>4, <2>1, <3>1, <4>1, <4>4
    <3> QED BY <1>0, <1>2, <3>1
  <2> QED BY <2>1, <2>2 DEF Quiet
<1> QED BY <1>0, <1>1, <1>3, <1>4

(* Reading the head of a queue keeps the order and the silence.            *)
LEMMA DeliverOrdered ==
  ASSUME TypeOK, JoinComesFirst, NEW p \in Peer, Deliver(p) \/ SendTaskEnds(p)
  PROVE  /\ JoinComesFirst'
         /\ \A q, r \in Peer : Quiet(q, r) => Quiet(q, r)'
<1>1. chan[p] \in Seq(Msg) BY DEF TypeOK
<1>2. \A k \in DOMAIN chan'[p] : /\ k \in Int /\ k + 1 \in DOMAIN chan[p]
                                 /\ chan'[p][k] = chan[p][k + 1]
  <2>1. CASE Deliver(p)
    <3>1. chan'[p] = Tail(chan[p]) /\ chan[p] # <<>>
      BY <2>1 DEF Deliver, TypeOK
    <3>2. Tail(chan[p]) \in Seq(Msg) BY <1>1, <3>1, HeadTailProperties
    <3>3. \A k \in DOMAIN Tail(chan[p]) : k \in Int BY <3>2
    <3> QED BY <1>1, <3>1, <3>3, TailElems
  <2>2. CASE SendTaskEnds(p)
    <3>1. chan'[p] = <<>> BY <2>2 DEF SendTaskEnds, TypeOK
    <3> QED BY <3>1
  <2> QED BY <2>1, <2>2
<1>3. \A r \in Peer \ {p} : chan'[r] = chan[r] BY DEF TypeOK, Deliver, SendTaskEnds
<1>4. \A q, r \in Peer : Quiet(q, r) => Quiet(q, r)'
  BY <1>2, <1>3 DEF Quiet
<1>5. ASSUME NEW r \in Peer, NEW j \in DOMAIN chan'[r], NEW k \in DOMAIN chan'[r],
             j < k, chan'[r][k].type = "join"
      PROVE  chan'[r][j].peer # chan'[r][k].peer
  <2>1. CASE r = p
    <3>1. j + 1 < k + 1 BY <1>2, <1>5, <2>1
    <3> QED BY <1>2, <1>5, <2>1, <3>1 DEF JoinComesFirst
  <2>2. CASE r # p BY <1>3, <1>5, <2>2 DEF JoinComesFirst
  <2> QED BY <2>1, <2>2
<1> QED BY <1>4, <1>5 DEF JoinComesFirst

(* Who may be heard of changes only for those who are past their Join loop.*)
LEMMA UnheardKept ==
  ASSUME TypeOK, Unheard,
         \A q \in Peer : pc'[q] \in {"new", "join"} => pc'[q] = pc[q] /\ fan'[q] = fan[q],
         \A p, q \in Peer : pc'[q] \in {"new", "join"} /\ Quiet(q, p) => Quiet(q, p)'
  PROVE  Unheard'
<1> SUFFICES ASSUME NEW q \in Peer
             PROVE  /\ pc'[q] = "new" => \A p \in Peer : Quiet(q, p)'
                    /\ pc'[q] = "join" =>
                         Once(fan'[q]) /\ \A k \in DOMAIN fan'[q] : Quiet(q, fan[q][k])'
  BY DEF Unheard, Once
<1>1. CASE pc'[q] = "new" BY <1>1 DEF Unheard
<1>2. CASE pc'[q] = "join"
  <2>1. pc[q] = "join" /\ fan'[q] = fan[q] BY <1>2
  <2>2. \A k \in DOMAIN fan[q] : fan[q][k] \in Peer BY DEF TypeOK
  <2>3. \A k \in DOMAIN fan[q] : Quiet(q, fan[q][k]) /\ Once(fan[q])
    BY <2>1 DEF Unheard
  <2>4. ASSUME NEW k \in DOMAIN fan'[q] PROVE Quiet(q, fan[q][k])'
    <3>1. PICK p \in Peer : Quiet(q, p) /\ fan'[q][k] = p BY <2>1, <2>2, <2>3, <2>4
    <3>2. Quiet(q, p)' BY <1>2, <3>1
    <3> QED BY <3>1, <3>2 DEF Quiet
  <2> QED BY <1>2, <2>1, <2>3, <2>4 DEF Unheard
<1> QED BY <1>1, <1>2

(* Whoever is past its Join loop may send anything but a Join.             *)
LEMMA LaterSend ==
  ASSUME TypeOK, Unheard, JoinComesFirst, NEW t \in Peer, NEW m \in Msg, Send(t, m),
         m.type # "join", pc'[m.peer] \notin {"new", "join"},
         \A q \in Peer : pc'[q] \in {"new", "join"} => pc'[q] = pc[q] /\ fan'[q] = fan[q]
  PROVE  Unheard' /\ JoinComesFirst'
<1>1. JoinComesFirst' BY SendOrdered
<1>2. \A p, q \in Peer : pc'[q] \in {"new", "join"} /\ Quiet(q, p) => Quiet(q, p)'
  BY SendQuiet
<1> QED BY <1>1, <1>2, UnheardKept

LEMMA OrderStep ==
  TypeOK /\ Life /\ OwnSends /\ Unheard /\ JoinComesFirst /\ [Next]_vars
    => Unheard' /\ JoinComesFirst'
<1> SUFFICES ASSUME TypeOK, Life, OwnSends, Unheard, JoinComesFirst, [Next]_vars
             PROVE  Unheard' /\ JoinComesFirst'
  OBVIOUS
<1>0. ASSUME chan' = chan,
             \A q \in Peer : pc'[q] \in {"new", "join"} => pc'[q] = pc[q] /\ fan'[q] = fan[q]
      PROVE  Unheard' /\ JoinComesFirst'
  <2>1. \A p, q \in Peer : Quiet(q, p) => Quiet(q, p)' BY <1>0 DEF Quiet
  <2> QED BY <1>0, <2>1, UnheardKept DEF JoinComesFirst
<1>1. CASE UNCHANGED <<chan, fan, pc>> BY <1>0, <1>1
<1>2. ASSUME NEW p \in Peer, Refuse(p) \/ Select(p) \/ Finish(p) \/ Leave(p)
      PROVE  Unheard' /\ JoinComesFirst'
  <2>1. CASE Refuse(p) BY <1>0, <2>1 DEF Refuse, TypeOK
  <2>2. CASE Select(p) BY <1>0, <2>2 DEF Select, TypeOK
  <2>3. CASE Finish(p) BY <1>0, <2>3 DEF Finish, TypeOK
  <2>4. CASE Leave(p) BY <1>0, <2>4 DEF Leave, TypeOK
  <2> QED BY <1>2, <2>1, <2>2, <2>3, <2>4
<1>3. ASSUME NEW p \in Peer, NEW i \in Info, Connect(p, i)
      PROVE  Unheard' /\ JoinComesFirst'
  <2>1. chan' = chan /\ pc[p] = "new" BY <1>3 DEF Connect
  <2>2. \A r, q \in Peer : Quiet(q, r)' = Quiet(q, r) BY <2>1 DEF Quiet
  <2>3. PICK order \in Orders(JoinTargets(p)) : fan' = [fan EXCEPT ![p] = order]
    BY <1>3 DEF Connect
  <2>4. Once(order) /\ \A k \in DOMAIN order : order[k] \in Peer
    BY MatesFinite, OrdersAreSeqs DEF JoinTargets, Once
  <2>5. fan'[p] = order /\ \A q \in Peer \ {p} : fan'[q] = fan[q] /\ pc'[q] = pc[q]
    BY <1>3, <2>3 DEF Connect, TypeOK
  <2>6. pc'[p] = "join" BY <1>3 DEF Connect, TypeOK
  <2>7. ASSUME NEW q \in Peer, pc'[q] = "new", NEW r \in Peer PROVE Quiet(q, r)'
    BY <2>2, <2>5, <2>6, <2>7 DEF Unheard
  <2>8. ASSUME NEW q \in Peer, pc'[q] = "join"
        PROVE  Once(fan'[q]) /\ \A k \in DOMAIN fan'[q] : Quiet(q, fan[q][k])'
    <3>1. CASE q = p
      <4>1. \A r \in Peer : Quiet(p, r) BY <2>1 DEF Unheard
      <4> QED BY <2>1, <2>4, <2>5, <3>1, <4>1 DEF Quiet
    <3>2. CASE q # p
      BY <2>1, <2>5, <2>8, <3>2 DEF Unheard, Quiet
    <3> QED BY <3>1, <3>2
  <2> QED BY <2>1, <2>7, <2>8 DEF Unheard, JoinComesFirst, Once
<1>4. ASSUME NEW p \in Peer, SendJoin(p) PROVE Unheard' /\ JoinComesFirst'
  <2>1. PICK t \in Peer : t = Head(fan[p])
    BY <1>4, HeadTailProperties DEF SendJoin, TypeOK
  <2>2. PICK m \in Msg : m = About("join", p, origin[p])
    BY AboutType DEF TypeOK, Listing, Kinds
  <2>3. Send(t, m) /\ m.peer = p BY <1>4, <2>1, <2>2 DEF SendJoin, About
  <2>4. fan[p] \in Seq(Peer) /\ fan[p] # <<>> /\ pc[p] = "join"
    BY <1>4 DEF SendJoin, TypeOK
  <2>5. /\ fan[p][1] = t /\ 1 \in DOMAIN fan[p]
        /\ \A k \in DOMAIN Tail(fan[p]) : /\ k + 1 \in DOMAIN fan[p] /\ k >= 1
                                          /\ Tail(fan[p])[k] = fan[p][k + 1]
    BY <2>1, <2>4, TailElems
  <2>6. Once(fan[p]) /\ \A k \in DOMAIN fan[p] : Quiet(p, fan[p][k])
    BY <2>4 DEF Unheard
  <2>7. JoinComesFirst'
    <3>1. Quiet(m.peer, t) BY <2>3, <2>5, <2>6
    <3> QED BY <2>3, <3>1, SendOrdered
  <2>8. \A q, r \in Peer : Quiet(q, r) /\ (r # t \/ q # p) => Quiet(q, r)'
    BY <2>3, SendQuiet
  <2>9. /\ fan'[p] = Tail(fan[p]) /\ pc' = pc
        /\ \A q \in Peer \ {p} : fan'[q] = fan[q]
    BY <1>4 DEF SendJoin, TypeOK
  <2>10. ASSUME NEW q \in Peer, pc'[q] = "new", NEW r \in Peer PROVE Quiet(q, r)'
    BY <2>4, <2>8, <2>9, <2>10 DEF Unheard
  <2>11. ASSUME NEW q \in Peer, pc'[q] = "join"
         PROVE  Once(fan'[q]) /\ \A k \in DOMAIN fan'[q] : Quiet(q, fan[q][k])'
    <3>1. CASE q = p
      <4>1. \A k \in DOMAIN Tail(fan[p]) : k \in Int
        BY <2>4, HeadTailProperties
      <4>2. Once(Tail(fan[p]))
        BY <2>5, <2>6, <4>1 DEF Once
      <4>3. \A k \in DOMAIN Tail(fan[p]) : Tail(fan[p])[k] # t
        BY <2>5, <2>6, <4>1 DEF Once
      <4>4. \A k \in DOMAIN Tail(fan[p]) : Tail(fan[p])[k] \in Peer /\ Quiet(p, Tail(fan[p])[k])
        BY <2>4, <2>5, <2>6
      <4>5. ASSUME NEW k \in DOMAIN Tail(fan[p]) PROVE Quiet(p, fan[p][k])'
        <5>1. PICK r \in Peer : r = Tail(fan[p])[k] /\ r # t /\ Quiet(p, r)
          BY <4>3, <4>4
        <5>2. Quiet(p, r)' BY <2>8, <5>1
        <5> QED BY <2>9, <5>1, <5>2 DEF Quiet
      <4> QED BY <2>9, <3>1, <4>2, <4>5
    <3>2. CASE q # p
      <4>1. ASSUME NEW k \in DOMAIN fan'[q] PROVE Quiet(q, fan[q][k])'
        <5>0. k \in DOMAIN fan[q] /\ pc[q] = "join" /\ fan[q] \in Seq(Peer)
          BY <2>9, <2>11, <3>2, <4>1 DEF TypeOK
        <5>1. PICK r \in Peer : r = fan[q][k] /\ Quiet(q, r)
          BY <5>0 DEF Unheard
        <5>2. Quiet(q, r)' BY <2>8, <3>2, <5>1
        <5> QED BY <2>9, <3>2, <5>1, <5>2 DEF Quiet
      <4> QED BY <2>9, <2>11, <3>2, <4>1 DEF Unheard
    <3> QED BY <3>1, <3>2
  <2> QED BY <2>7, <2>10, <2>11 DEF Unheard, Once
<1>5. ASSUME NEW p \in Peer, SendHello(p) PROVE Unheard' /\ JoinComesFirst'
  <2>1. Hello(p) \in Msg /\ Hello(p).peer = p /\ Hello(p).type # "join"
    BY DEF TypeOK, Hello, Msg, Kinds, Listing
  <2>2. PICK m \in Msg : m = Hello(p) BY <2>1
  <2>3. Send(p, m) /\ m.peer = p /\ m.type # "join" BY <1>5, <2>1, <2>2 DEF SendHello
  <2>4. fan' = fan /\ pc'[p] = "run" /\ \A q \in Peer \ {p} : pc'[q] = pc[q]
    BY <1>5 DEF SendHello, TypeOK
  <2>5. \A q \in Peer : pc'[q] \in {"new", "join"} => pc'[q] = pc[q] /\ fan'[q] = fan[q]
    BY <2>4
  <2> QED BY <2>3, <2>4, <2>5, LaterSend
<1>6. ASSUME NEW p \in Peer, Deliver(p) \/ SendTaskEnds(p) PROVE Unheard' /\ JoinComesFirst'
  <2>1. UNCHANGED <<fan, pc>> BY <1>6 DEF Deliver, SendTaskEnds, mainVars
  <2> QED BY <1>6, <2>1, DeliverOrdered, UnheardKept
<1>7. ASSUME NEW p \in Peer, SendLimited(p) PROVE Unheard' /\ JoinComesFirst'
  <2> DEFINE m == About("error", p, NoInfo)
  <2>1. m \in Msg /\ m.peer = p /\ m.type # "join" BY AboutType DEF Kinds, About
  <2>2. pc'[p] \notin {"new", "join"} /\ UNCHANGED <<fan, pc>>
    BY <1>7 DEF SendLimited, Life, mainVars
  <2>3. Send(p, m) BY <1>7 DEF SendLimited
  <2> HIDE DEF m
  <2> QED BY <2>1, <2>2, <2>3, LaterSend
<1>8. ASSUME NEW p \in Peer, SendRecv(p) PROVE Unheard' /\ JoinComesFirst'
  <2>1. rfan[p] \in Seq(Sending) /\ rfan[p] # <<>>
    BY <1>8 DEF TypeOK, SendRecv
  <2>2. PICK x \in Sending : x = Head(rfan[p]) BY <2>1, HeadTailProperties
  <2>3. x = rfan[p][1] /\ 1 \in DOMAIN rfan[p] BY <2>1, <2>2, TailElems
  <2>4. x.msg.peer = p /\ x.msg.type # "join" BY <2>3 DEF OwnSends
  <2>5. x.to \in Peer /\ x.msg \in Msg BY DEF Sending
  <2>6. Send(x.to, x.msg) BY <1>8, <2>2 DEF SendRecv
  <2>7. pc'[p] \notin {"new", "join"} /\ UNCHANGED <<fan, pc>>
    BY <1>8, <2>1 DEF SendRecv, Life, mainVars
  <2> QED BY <2>4, <2>5, <2>6, <2>7, LaterSend
<1>9. ASSUME NEW p \in Peer, SendLeft(p) PROVE Unheard' /\ JoinComesFirst'
  <2> DEFINE m == About("left", p, NoInfo)
             t == Head(fan[p])
  <2>1. m \in Msg /\ m.peer = p /\ m.type # "join" BY AboutType DEF Kinds, About
  <2>2. t \in Peer /\ Send(t, m)
    BY <1>9, HeadTailProperties DEF SendLeft, TypeOK
  <2>3. /\ pc'[p] \notin {"new", "join"} /\ pc' = pc
        /\ \A q \in Peer \ {p} : fan'[q] = fan[q]
    BY <1>9 DEF SendLeft, TypeOK
  <2> HIDE DEF m, t
  <2> QED BY <2>1, <2>2, <2>3, LaterSend
<1> QED
  <2>1. CASE UNCHANGED vars BY <1>1, <2>1 DEF vars, mainVars
  <2>2. CASE ResetCounts BY <1>1, <2>2 DEF ResetCounts, mainVars
  <2>3. ASSUME NEW p \in Peer, ClientSends(p) \/ ClientCloses(p) \/ RecvTaskEnds(p)
        PROVE  Unheard' /\ JoinComesFirst'
    BY <1>1, <2>3 DEF ClientSends, ClientCloses, RecvTaskEnds, RecvUpdate, RecvSdp,
                      RecvLimited, mainVars
  <2> QED BY <1>2, <1>3, <1>4, <1>5, <1>6, <1>7, <1>8, <1>9, <2>1, <2>2, <2>3
          DEF Next, Arrive, Main, SendTask, RecvTask

(* JoinComesFirst for every instance: recv_task starts after the Join loop *)
(* of handle_socket, the loop tells each mate once, and nobody else speaks *)
(* of a connection; so in every queue its Join is ahead of its Updates,    *)
(* Offers, Answers and its Left, however the senders interleave.           *)
THEOREM JoinOrder == Spec => []JoinComesFirst
<1>1. Init => OwnSends /\ Unheard /\ JoinComesFirst
  BY EmptySeqs DEF Init, OwnSends, Unheard, Quiet, JoinComesFirst
<1> QED BY <1>1, OwnSendsStep, OrderStep, Lifecycle, PTL DEF Spec

-----------------------------------------------------------------------------
(* Who is announced.                                                       *)

(* A member has a name, and a Hello, Join or Update carries one.           *)
Named == \A p \in members : client[p] # NoInfo /\ origin[p] # NoInfo

(* A queued Left is about somebody who has left for good, and a queued     *)
(* Join or Update names its device.                                        *)
Truthful(m) ==
  /\ m.type = "left" => pc[m.peer] \in {"left", "gone"}
  /\ m.type \in {"join", "update"} => m.info # NoInfo
LeftIsLast == \A p \in Peer : \A k \in DOMAIN chan[p] : Truthful(chan[p][k])

(* Names are given at the connection and replaced by other names.          *)
LEMMA NamedStep == TypeOK /\ Named /\ [Next]_vars => Named'
<1> SUFFICES ASSUME TypeOK, Named, [Next]_vars PROVE Named' OBVIOUS
<1>1. CASE UNCHANGED <<members, client, origin>> BY <1>1 DEF Named
<1>2. ASSUME NEW p \in Peer, NEW i \in Info, Connect(p, i) PROVE Named'
  BY <1>2, InfoAssumption DEF Connect, Named, TypeOK, Listing
<1>3. ASSUME NEW p \in Peer, NEW i \in Info, RecvUpdate(p, i) PROVE Named'
  BY <1>3, InfoAssumption DEF RecvUpdate, Named, TypeOK, Listing
<1>4. ASSUME NEW p \in Peer, Leave(p) PROVE Named'
  BY <1>4 DEF Leave, Named
<1> QED
  <2>1. CASE UNCHANGED vars \/ ResetCounts BY <1>1, <2>1 DEF vars, roomVars, ResetCounts
  <2>2. ASSUME NEW p \in Peer, SendTask(p) \/ RecvTask(p) \/ ClientCloses(p) \/ Refuse(p)
        PROVE  Named'
    BY <1>1, <2>2 DEF SendTask, RecvTask, roomVars, ClientCloses, Deliver, SendTaskEnds,
                      SendLimited, SendRecv, RecvTaskEnds, Refuse
  <2>3. ASSUME NEW p \in Peer, RecvLimited(p) \/ SendJoin(p) \/ SendHello(p) \/ Select(p)
                               \/ SendLeft(p) \/ Finish(p)
        PROVE  Named'
    BY <1>1, <2>3 DEF RecvLimited, SendJoin, SendHello, Select, SendLeft, Finish, roomVars
  <2>4. ASSUME NEW p \in Peer, NEW t \in Peer, NEW kind \in {"offer", "answer"},
               RecvSdp(p, kind, t)
        PROVE  Named'
    BY <1>1, <2>4 DEF RecvSdp
  <2> QED BY <1>2, <1>3, <1>4, <2>1, <2>2, <2>3, <2>4 DEF Next, Arrive, Main, ClientSends

(* Nobody comes back: a new connection is a new Uuid.                      *)
LEMMA GoneStays ==
  ASSUME TypeOK, [Next]_vars, NEW q \in Peer, pc[q] \in {"left", "gone"}
  PROVE  pc'[q] \in {"left", "gone"}
<1>1. CASE pc' = pc BY <1>1
<1>2. ASSUME NEW p \in Peer,
             Refuse(p) \/ Select(p) \/ Finish(p) \/ Leave(p) \/ SendHello(p)
             \/ \E i \in Info : Connect(p, i)
      PROVE  pc'[q] \in {"left", "gone"}
  <2>1. /\ pc[p] \in {"new", "run", "end", "join"} \/ pc'[p] = "gone"
        /\ \A r \in Peer \ {p} : pc'[r] = pc[r]
    BY <1>2 DEF TypeOK, Refuse, Connect, Select, Finish, Leave, SendHello
  <2> QED BY <2>1
<1>3. CASE UNCHANGED vars \/ ResetCounts BY <1>1, <1>3 DEF vars, mainVars, ResetCounts
<1>4. ASSUME NEW p \in Peer, SendTask(p) \/ RecvTask(p) \/ ClientCloses(p) \/ SendJoin(p)
                             \/ SendLeft(p)
      PROVE  pc' = pc
  BY <1>4 DEF SendTask, RecvTask, mainVars, ClientCloses, Deliver, SendTaskEnds,
              SendLimited, SendRecv, RecvTaskEnds, SendJoin, SendLeft
<1>5. ASSUME NEW p \in Peer, ClientSends(p) PROVE pc' = pc
  BY <1>5 DEF ClientSends, mainVars, RecvUpdate, RecvSdp, RecvLimited
<1> QED BY <1>1, <1>2, <1>3, <1>4, <1>5 DEF Next, Arrive, Main

(* The ways in which the channels change.                                  *)
Posts(p, t, m) == Send(t, m) /\
  \/ SendJoin(p) /\ t = Head(fan[p]) /\ m = About("join", p, origin[p])
  \/ SendHello(p) /\ t = p /\ m = Hello(p)
  \/ SendLimited(p) /\ t = p /\ m = About("error", p, NoInfo)
  \/ SendRecv(p) /\ t = Head(rfan[p]).to /\ m = Head(rfan[p]).msg
  \/ SendLeft(p) /\ t = Head(fan[p]) /\ m = About("left", p, NoInfo)

LEMMA ChanCases ==
  ASSUME TypeOK, [Next]_vars
  PROVE  \/ chan' = chan
         \/ \E p \in Peer : Deliver(p) \/ SendTaskEnds(p)
         \/ \E p, t \in Peer, m \in Msg : Posts(p, t, m)
<1>1. CASE UNCHANGED vars \/ ResetCounts BY <1>1 DEF vars, ResetCounts
<1>2. ASSUME NEW p \in Peer, Arrive(p) \/ ClientCloses(p) \/ RecvTaskEnds(p)
      PROVE  chan' = chan
  BY <1>2 DEF Arrive, Refuse, Connect, ClientCloses, RecvTaskEnds
<1>3. ASSUME NEW p \in Peer, ClientSends(p) \/ Select(p) \/ Leave(p) \/ Finish(p)
      PROVE  chan' = chan
  BY <1>3 DEF ClientSends, RecvUpdate, RecvSdp, RecvLimited, Select, Leave, Finish
<1>4. ASSUME NEW p \in Peer, SendJoin(p) \/ SendLeft(p)
      PROVE  \E t \in Peer, m \in Msg : Posts(p, t, m)
  <2>1. Head(fan[p]) \in Peer
    BY <1>4, HeadTailProperties DEF SendJoin, SendLeft, TypeOK
  <2>2. About("join", p, origin[p]) \in Msg /\ About("left", p, NoInfo) \in Msg
    BY AboutType DEF TypeOK, Listing, Kinds
  <2> QED BY <1>4, <2>1, <2>2 DEF SendJoin, SendLeft, Posts
<1>5. ASSUME NEW p \in Peer, SendHello(p) \/ SendLimited(p)
      PROVE  \E t \in Peer, m \in Msg : Posts(p, t, m)
  <2>1. Hello(p) \in Msg BY DEF TypeOK, Hello, Msg, Kinds, Listing
  <2>2. About("error", p, NoInfo) \in Msg BY AboutType DEF Kinds
  <2> QED BY <1>5, <2>1, <2>2 DEF SendHello, SendLimited, Posts
<1>6. ASSUME NEW p \in Peer, SendRecv(p)
      PROVE  \E t \in Peer, m \in Msg : Posts(p, t, m)
  <2>1. Head(rfan[p]) \in Sending BY <1>6, HeadTailProperties DEF TypeOK, SendRecv
  <2>2. Head(rfan[p]).to \in Peer /\ Head(rfan[p]).msg \in Msg BY <2>1 DEF Sending
  <2> QED BY <1>6, <2>2 DEF SendRecv, Posts
<1> QED BY <1>1, <1>2, <1>3, <1>4, <1>5, <1>6 DEF Next, Main, SendTask, RecvTask

LEMMA LeftIsLastStep ==
  TypeOK /\ Life /\ OwnSends /\ Named /\ LeftIsLast /\ [Next]_vars => LeftIsLast'
<1> SUFFICES ASSUME TypeOK, Life, OwnSends, Named, LeftIsLast, [Next]_vars PROVE LeftIsLast'
  OBVIOUS
<1>1. ASSUME NEW m \in Msg, Truthful(m) PROVE Truthful(m)'
  <2>1. m.peer \in Peer BY DEF Msg
  <2> QED BY <1>1, <2>1, GoneStays DEF Truthful
<1>2. \A p \in Peer : chan[p] \in Seq(Msg) BY DEF TypeOK
<1>3. ASSUME \A p \in Peer : \A k \in DOMAIN chan'[p] :
               \/ \E j \in DOMAIN chan[p] : chan'[p][k] = chan[p][j]
               \/ \E m \in Msg : chan'[p][k] = m /\ Truthful(m)'
      PROVE  LeftIsLast'
  <2> SUFFICES ASSUME NEW p \in Peer, NEW k \in DOMAIN chan'[p]
               PROVE  Truthful(chan[p][k])'
    BY DEF LeftIsLast
  <2>1. \A j \in DOMAIN chan[p] : chan[p][j] \in Msg /\ Truthful(chan[p][j])
    BY <1>2 DEF LeftIsLast
  <2>2. PICK m \in Msg : chan'[p][k] = m /\ Truthful(m)'
    BY <1>1, <1>3, <2>1
  <2> QED BY <2>2 DEF Truthful
<1>4. CASE chan' = chan BY <1>3, <1>4
<1>5. ASSUME NEW p \in Peer, Deliver(p) \/ SendTaskEnds(p) PROVE LeftIsLast'
  <2>1. CASE Deliver(p)
    <3>1. chan[p] # <<>> /\ chan' = [chan EXCEPT ![p] = Tail(chan[p])]
      BY <2>1 DEF Deliver
    <3>2. chan'[p] = Tail(chan[p]) /\ \A r \in Peer \ {p} : chan'[r] = chan[r]
      BY <3>1 DEF TypeOK
    <3> QED BY <1>2, <1>3, <3>1, <3>2, TailElems
  <2>2. CASE SendTaskEnds(p)
    <3>1. chan'[p] = <<>> /\ \A r \in Peer \ {p} : chan'[r] = chan[r]
      BY <2>2 DEF SendTaskEnds, TypeOK
    <3> QED BY <1>3, <3>1
  <2> QED BY <1>5, <2>1, <2>2
<1>6. ASSUME NEW p \in Peer, NEW t \in Peer, NEW m \in Msg, Posts(p, t, m) PROVE LeftIsLast'
  <2>1. Truthful(m)'
    <3>1. CASE SendJoin(p) /\ m = About("join", p, origin[p])
      <4>1. origin[p] # NoInfo BY <3>1 DEF SendJoin, Life, Named
      <4> QED BY <3>1, <4>1 DEF About, Truthful
    <3>2. CASE m = Hello(p) BY <3>2 DEF Hello, Truthful
    <3>3. CASE m = About("error", p, NoInfo) BY <3>3 DEF About, Truthful
    <3>4. CASE SendRecv(p) /\ m = Head(rfan[p]).msg
      <4>1. rfan[p] \in Seq(Sending) /\ rfan[p] # <<>>
        BY <3>4 DEF TypeOK, SendRecv
      <4>2. m = rfan[p][1].msg /\ 1 \in DOMAIN rfan[p] BY <3>4, <4>1, TailElems
      <4>3. /\ m.type \in {"update", "offer", "answer"}
            /\ m.type = "update" => m.info # NoInfo
        BY <4>2 DEF OwnSends
      <4> QED BY <4>3 DEF Truthful
    <3>5. CASE SendLeft(p) /\ m = About("left", p, NoInfo)
      <4>1. pc'[p] = "left" BY <3>5 DEF SendLeft
      <4> QED BY <3>5, <4>1 DEF About, Truthful
    <3> QED BY <1>6, <3>1, <3>2, <3>3, <3>4, <3>5 DEF Posts
  <2>2. Send(t, m) BY <1>6 DEF Posts
  <2> QED BY <1>3, <2>1, <2>2, SendElems
<1> QED BY <1>4, <1>5, <1>6, ChanCases

(* NobodyMissed, for one pair: p is due to know of q, and p is told.       *)
Due(p, q) ==
  p # q /\ GroupOf[p] = GroupOf[q] /\ sock[p] /\ ~ Dropped(p)
Announced(p, q) == \E k \in DOMAIN chan[p] : Announces(chan[p][k], q)
Told(p, q) ==
  \/ Listed(view[p], q)
  \/ Announced(p, q)
  \/ pc[q] = "join" /\ \E k \in DOMAIN fan[q] : fan[q][k] = p
  \/ pc[p] = "join" /\ Listed(hello[p], q)

LEMMA Pairs == NobodyMissed <=> \A p, q \in members : Due(p, q) => Told(p, q)
BY DEF NobodyMissed, Due, Told, Announced

(* A step that takes nothing away from p's list, p's queue, q's targets    *)
(* and p's snapshot leaves p told of q.                                    *)
LEMMA StillTold ==
  ASSUME NEW p, NEW q, Told(p, q),
         view'[p] = view[p],
         Announced(p, q) => Announced(p, q)',
         pc[q] = "join" => pc'[q] = "join" /\ fan'[q] = fan[q],
         pc[p] = "join" => pc'[p] = "join" /\ hello'[p] = hello[p]
  PROVE  Told(p, q)'
BY DEF Told, Listed

(* A send adds to what is announced.                                       *)
LEMMA SendAnnounced ==
  ASSUME TypeOK, NEW t \in Peer, NEW m \in Msg, Send(t, m), NEW p \in Peer, NEW q
  PROVE  /\ Announced(p, q) => Announced(p, q)'
         /\ p = t /\ ~ Dropped(t) /\ Announces(m, q) => Announced(p, q)'
BY SendElems DEF Announced, Announces, Listed

(* Every step keeps the members of a room told of each other.              *)
LEMMA MissedStep ==
  TypeOK /\ Life /\ Named /\ LeftIsLast /\ NobodyMissed /\ [Next]_vars => NobodyMissed'
<1> SUFFICES ASSUME TypeOK, Life, Named, LeftIsLast, NobodyMissed, [Next]_vars
             PROVE  NobodyMissed'
  OBVIOUS
<1>i. \A p, q \in members : Due(p, q) => Told(p, q) BY Pairs
<1>m. members \subseteq Peer BY DEF TypeOK
<1>g. ASSUME \A p, q \in members' : Due(p, q)' => Told(p, q)' PROVE NobodyMissed'
  BY <1>g DEF NobodyMissed, Due, Told, Announced
<1>1. CASE UNCHANGED <<members, view, chan, mainVars, sock, stask>>
  BY <1>1 DEF mainVars, NobodyMissed, Dropped, Listed, Announces
<1>2. ASSUME NEW t \in Peer, NEW m \in Msg, Send(t, m),
             UNCHANGED <<members, view, mainVars, sock, stask>>
      PROVE  NobodyMissed'
  <2>1. ASSUME NEW p \in members, NEW q \in members, Due(p, q)' PROVE Told(p, q)'
    <3>1. Due(p, q) BY <1>2, <2>1 DEF Due, Dropped
    <3>2. Announced(p, q) => Announced(p, q)' BY <1>2, <1>m, SendAnnounced
    <3> QED BY <1>2, <1>i, <3>1, <3>2, StillTold DEF mainVars
  <2> QED BY <1>2, <1>g, <2>1
<1>3. ASSUME NEW p \in Peer, Refuse(p) PROVE NobodyMissed'
  <2>1. p \notin members BY <1>3 DEF Refuse, Life
  <2>2. ASSUME NEW r \in members, NEW q \in members, Due(r, q)' PROVE Told(r, q)'
    <3>1. Due(r, q) BY <1>3, <2>1, <2>2 DEF Due, Dropped, Refuse, TypeOK
    <3>2. UNCHANGED <<view, chan, fan, hello>> BY <1>3 DEF Refuse
    <3>3. pc'[r] = pc[r] /\ pc'[q] = pc[q] BY <1>3, <2>1, <1>m DEF Refuse, TypeOK
    <3>4. Announced(r, q) => Announced(r, q)' BY <3>2 DEF Announced, Announces, Listed
    <3> QED BY <1>i, <3>1, <3>2, <3>3, <3>4, StillTold
  <2>3. members' = members BY <1>3 DEF Refuse
  <2> QED BY <1>g, <2>2, <2>3
<1>4. ASSUME NEW p \in Peer, NEW i \in Info, Connect(p, i) PROVE NobodyMissed'
  <2>1. p \notin members /\ members' = members \cup {p}
    BY <1>4 DEF Connect, Life
  <2>2. PICK order \in Orders(JoinTargets(p)) : fan' = [fan EXCEPT ![p] = order]
    BY <1>4 DEF Connect
  <2>3. \A x \in Mates(p) : \E k \in DOMAIN order : order[k] = x
    BY MatesFinite, OrdersAreSeqs DEF JoinTargets
  <2>4. fan'[p] = order /\ pc'[p] = "join"
    BY <1>4, <2>2 DEF Connect, TypeOK
  <2>5. \A q \in Peer \ {p} : fan'[q] = fan[q] /\ pc'[q] = pc[q] /\ hello'[q] = hello[q]
    BY <1>4, <2>2 DEF Connect, TypeOK
  <2>6. UNCHANGED <<chan, view, sock, stask>> BY <1>4 DEF Connect
  <2>7. \A q \in Mates(p) : Listed(hello'[p], q)
    <3>1. \A q \in Peer : hello'[p][q] = IF q \in Mates(p) THEN client[q] ELSE NoInfo
      BY <1>4 DEF Connect, TypeOK
    <3>2. Mates(p) \subseteq members BY MatesFinite
    <3> QED BY <1>m, <3>1, <3>2 DEF Named, Listed
  <2>8. ASSUME NEW r \in members', NEW q \in members', Due(r, q)' PROVE Told(r, q)'
    <3>1. r # q /\ GroupOf[r] = GroupOf[q] BY <2>8 DEF Due
    <3>2. CASE r = p
      <4>1. q \in Mates(p) BY <2>1, <3>1, <3>2 DEF Mates, Room
      <4> QED BY <2>4, <2>7, <3>2, <4>1 DEF Told, Listed
    <3>3. CASE q = p
      <4>1. r \in Mates(p) BY <2>1, <3>1, <3>3 DEF Mates, Room
      <4> QED BY <2>3, <2>4, <3>3, <4>1 DEF Told
    <3>4. CASE r # p /\ q # p
      <4>1. r \in members /\ q \in members /\ Due(r, q)
        BY <2>1, <2>6, <2>8, <3>4 DEF Due, Dropped
      <4>2. Announced(r, q) => Announced(r, q)' BY <2>6 DEF Announced, Announces, Listed
      <4> QED BY <1>i, <1>m, <2>5, <2>6, <3>4, <4>1, <4>2, StillTold
    <3> QED BY <3>2, <3>3, <3>4
  <2> QED BY <1>g, <2>8
<1>5. ASSUME NEW p \in Peer, SendJoin(p) PROVE NobodyMissed'
  <2>1. PICK t \in Peer : t = Head(fan[p])
    BY <1>5, HeadTailProperties DEF SendJoin, TypeOK
  <2>2. PICK m \in Msg : m = About("join", p, origin[p])
    BY AboutType DEF TypeOK, Listing, Kinds
  <2>3. Send(t, m) /\ Announces(m, p)
    BY <1>5, <2>1, <2>2 DEF SendJoin, About, Announces
  <2>4. UNCHANGED <<members, view, pc, hello, sock, stask>>
    BY <1>5 DEF SendJoin, roomVars
  <2>5. fan'[p] = Tail(fan[p]) /\ \A q \in Peer \ {p} : fan'[q] = fan[q]
    BY <1>5 DEF SendJoin, TypeOK
  <2>6. fan[p] \in Seq(Peer) /\ fan[p] # <<>> BY <1>5 DEF SendJoin, TypeOK
  <2>7. ASSUME NEW r \in members, NEW q \in members, Due(r, q)' PROVE Told(r, q)'
    <3>1. Due(r, q) /\ ~ Dropped(r) /\ r \in Peer /\ q \in Peer
      BY <1>m, <2>4, <2>7 DEF Due, Dropped
    <3>2. Announced(r, q) => Announced(r, q)' BY <2>3, <3>1, SendAnnounced
    <3>3. CASE q # p
      BY <1>i, <2>4, <2>5, <3>1, <3>2, <3>3, StillTold
    <3>4. CASE q = p /\ r = t
      <4>1. Announced(r, q)' BY <2>3, <3>1, <3>4, SendAnnounced
      <4> QED BY <4>1 DEF Told
    <3>5. CASE q = p /\ r # t
      <4>1. (\E k \in DOMAIN fan[p] : fan[p][k] = r)
              => \E k \in DOMAIN Tail(fan[p]) : Tail(fan[p])[k] = r
        <5>1. /\ fan[p][1] = t
              /\ \A k \in DOMAIN fan[p] : k # 1 => /\ k - 1 \in DOMAIN Tail(fan[p])
                                                   /\ Tail(fan[p])[k - 1] = fan[p][k]
          BY <2>1, <2>6, TailElems
        <5> QED BY <3>5, <5>1
      <4>2. Told(r, q) BY <1>i, <3>1
      <4> QED BY <2>4, <2>5, <3>2, <3>5, <4>1, <4>2 DEF Told, Listed
    <3> QED BY <3>3, <3>4, <3>5
  <2> QED BY <1>g, <2>4, <2>7
<1>6. ASSUME NEW p \in Peer, SendHello(p) PROVE NobodyMissed'
  <2>1. PICK m \in Msg : m = Hello(p) BY DEF TypeOK, Hello, Msg, Kinds, Listing
  <2>2. Send(p, m) /\ \A q \in Peer : Listed(hello[p], q) => Announces(m, q)
    BY <1>6, <2>1 DEF SendHello, Hello, Announces
  <2>3. UNCHANGED <<members, view, fan, sock>> /\ fan[p] = <<>>
    BY <1>6 DEF SendHello, roomVars
  <2>4. stask[p] = "off" /\ ~ Dropped(p) BY <1>6 DEF SendHello, Life, Dropped
  <2>5. \A q \in Peer \ {p} : pc'[q] = pc[q] /\ hello'[q] = hello[q] /\ stask'[q] = stask[q]
    BY <1>6 DEF SendHello, TypeOK
  <2>6. ASSUME NEW r \in members, NEW q \in members, Due(r, q)' PROVE Told(r, q)'
    <3>1. Due(r, q) /\ r # q /\ r \in Peer /\ q \in Peer
      BY <1>m, <2>3, <2>4, <2>5, <2>6 DEF Due, Dropped
    <3>2. Announced(r, q) => Announced(r, q)' BY <2>2, <3>1, SendAnnounced
    <3>3. Told(r, q) BY <1>i, <3>1
    <3>4. CASE r = p
      <4>1. Listed(hello[p], q) => Announced(r, q)'
        BY <2>2, <2>4, <3>1, <3>4, SendAnnounced
      <4> QED BY <2>3, <2>5, <3>1, <3>2, <3>3, <3>4, <4>1 DEF Told, Listed
    <3>5. CASE r # p /\ q = p
      BY <2>3, <2>5, <3>1, <3>2, <3>3, <3>5 DEF Told, Listed
    <3>6. CASE r # p /\ q # p
      BY <2>3, <2>5, <3>1, <3>2, <3>3, <3>6, StillTold
    <3> QED BY <3>4, <3>5, <3>6
  <2> QED BY <1>g, <2>3, <2>6
<1>7. ASSUME NEW p \in Peer, ClientCloses(p) \/ SendTaskEnds(p) PROVE NobodyMissed'
  <2>1. UNCHANGED <<members, fan, pc, hello>>
    BY <1>7 DEF ClientCloses, SendTaskEnds, roomVars, mainVars
  <2>2. ~ sock'[p] \/ Dropped(p)'
    BY <1>7 DEF ClientCloses, SendTaskEnds, Dropped, TypeOK
  <2>3. \A r \in Peer \ {p} : /\ view'[r] = view[r] /\ chan'[r] = chan[r]
                              /\ sock'[r] = sock[r] /\ stask'[r] = stask[r]
    BY <1>7 DEF ClientCloses, SendTaskEnds, TypeOK
  <2>4. ASSUME NEW r \in members, NEW q \in members, Due(r, q)' PROVE Told(r, q)'
    <3>1. r # p BY <2>2, <2>4 DEF Due
    <3>2. Due(r, q) /\ r \in Peer BY <1>m, <2>3, <2>4, <3>1 DEF Due, Dropped
    <3>3. Announced(r, q) => Announced(r, q)'
      BY <2>3, <3>1, <3>2 DEF Announced, Announces, Listed
    <3> QED BY <1>i, <2>1, <2>3, <3>1, <3>2, <3>3, StillTold
  <2> QED BY <1>g, <2>1, <2>4
<1>8. ASSUME NEW p \in Peer, Deliver(p) PROVE NobodyMissed'
  <2>1. UNCHANGED <<members, fan, pc, hello, sock, stask>>
    BY <1>8 DEF Deliver, roomVars, mainVars
  <2>2. PICK m \in Msg : m = Head(chan[p]) BY <1>8, HeadTailProperties DEF Deliver, TypeOK
  <2>3. chan[p] \in Seq(Msg) /\ chan[p] # <<>> BY <1>8 DEF Deliver, TypeOK
  <2>4. /\ view'[p] = Apply(view[p], m) /\ chan'[p] = Tail(chan[p])
        /\ \A r \in Peer \ {p} : view'[r] = view[r] /\ chan'[r] = chan[r]
    BY <1>8, <2>2 DEF Deliver, TypeOK
  <2>5. Truthful(m) BY <2>2, <2>3, TailElems DEF LeftIsLast
  <2>6. ASSUME NEW r \in members, NEW q \in members, Due(r, q)' PROVE Told(r, q)'
    <3>1. Due(r, q) /\ r \in Peer /\ q \in Peer BY <1>m, <2>1, <2>6 DEF Due, Dropped
    <3>2. Told(r, q) BY <1>i, <3>1
    <3>3. CASE r # p
      <4>1. Announced(r, q) => Announced(r, q)'
        BY <2>4, <3>1, <3>3 DEF Announced, Announces, Listed
      <4> QED BY <2>1, <2>4, <3>1, <3>2, <3>3, <4>1, StillTold
    <3>4. CASE r = p
      <4>1. view'[p][q] = Apply(view[p], m)[q] BY <2>4
      <4>2. Listed(view[p], q) => Listed(view'[p], q)
        <5>1. m.type = "left" => q # m.peer BY <2>5, <3>1 DEF Truthful, Life
        <5> QED BY <3>1, <4>1, <5>1, <2>5 DEF Apply, Listed, Truthful
      <4>3. Announces(m, q) => Listed(view'[p], q)
        BY <2>5, <3>1, <4>1 DEF Apply, Listed, Announces, Truthful
      <4>4. Announced(p, q) => Announces(m, q) \/ Announced(p, q)'
        <5> SUFFICES ASSUME NEW k \in DOMAIN chan[p], Announces(chan[p][k], q),
                            ~ Announces(m, q)
                     PROVE  Announced(p, q)'
          BY DEF Announced
        <5>1. PICK x : x = chan[p][k] OBVIOUS
        <5>2. x # m BY <5>1
        <5>3. \E j \in DOMAIN Tail(chan[p]) : Tail(chan[p])[j] = x
          BY <2>2, <2>3, <5>1, <5>2, TailElems
        <5>4. PICK j \in DOMAIN chan'[p] : chan'[p][j] = x BY <2>4, <5>3
        <5> QED BY <5>1, <5>4 DEF Announced, Announces, Listed
      <4>5. Listed(view'[p], q) => Told(r, q)' BY <3>4 DEF Told, Listed
      <4> QED BY <2>1, <3>2, <3>4, <4>2, <4>3, <4>4, <4>5 DEF Told, Listed
    <3> QED BY <3>3, <3>4
  <2> QED BY <1>g, <2>1, <2>6
<1>9. ASSUME NEW p \in Peer, Select(p) \/ Leave(p) \/ Finish(p) PROVE NobodyMissed'
  <2>1. UNCHANGED <<view, chan, hello, sock>> /\ members' \subseteq members
    BY <1>9 DEF Select, Leave, Finish, roomVars
  <2>2. /\ \A q \in Peer : pc[q] = "join" => pc'[q] = "join" /\ fan'[q] = fan[q]
        /\ \A q \in Peer : stask[q] = "done" => stask'[q] = "done"
    BY <1>9 DEF Select, Leave, Finish, TypeOK
  <2>3. ASSUME NEW r \in members', NEW q \in members', Due(r, q)' PROVE Told(r, q)'
    <3>1. Due(r, q) /\ r \in members /\ q \in members
      BY <1>m, <2>1, <2>2, <2>3 DEF Due, Dropped
    <3>2. Announced(r, q) => Announced(r, q)' BY <2>1 DEF Announced, Announces, Listed
    <3> QED BY <1>i, <1>m, <2>1, <2>2, <3>1, <3>2, StillTold
  <2> QED BY <1>g, <2>3
<1>10. ASSUME NEW p \in Peer, SendLeft(p) PROVE NobodyMissed'
  <2>1. PICK t \in Peer : t = Head(fan[p])
    BY <1>10, HeadTailProperties DEF SendLeft, TypeOK
  <2>2. PICK m \in Msg : m = About("left", p, NoInfo) BY AboutType DEF Kinds
  <2>3. Send(t, m) BY <1>10, <2>1, <2>2 DEF SendLeft
  <2>4. UNCHANGED <<members, view, pc, hello, sock, stask>>
    BY <1>10 DEF SendLeft, roomVars
  <2>5. \A q \in Peer : pc[q] = "join" => fan'[q] = fan[q]
    BY <1>10 DEF SendLeft, TypeOK
  <2>6. ASSUME NEW r \in members, NEW q \in members, Due(r, q)' PROVE Told(r, q)'
    <3>1. Due(r, q) /\ r \in Peer /\ q \in Peer BY <1>m, <2>4, <2>6 DEF Due, Dropped
    <3>2. Announced(r, q) => Announced(r, q)' BY <2>3, <3>1, SendAnnounced
    <3> QED BY <1>i, <2>4, <2>5, <3>1, <3>2, StillTold
  <2> QED BY <1>g, <2>4, <2>6
<1>11. ASSUME NEW p \in Peer, SendRecv(p) \/ SendLimited(p) PROVE NobodyMissed'
  <2>1. UNCHANGED <<members, view, mainVars, sock, stask>>
    BY <1>11 DEF SendRecv, SendLimited, roomVars
  <2>2. CASE SendLimited(p)
    <3>1. About("error", p, NoInfo) \in Msg BY AboutType DEF Kinds
    <3> QED BY <1>2, <2>1, <2>2, <3>1 DEF SendLimited
  <2>3. CASE SendRecv(p)
    <3>1. Head(rfan[p]) \in Sending BY <2>3, HeadTailProperties DEF TypeOK, SendRecv
    <3>2. Head(rfan[p]).to \in Peer /\ Head(rfan[p]).msg \in Msg BY <3>1 DEF Sending
    <3> QED BY <1>2, <2>1, <2>3, <3>2 DEF SendRecv
  <2> QED BY <1>11, <2>2, <2>3
<1> QED
  <2>1. CASE UNCHANGED vars \/ ResetCounts
    BY <1>1, <2>1 DEF vars, roomVars, ResetCounts
  <2>2. ASSUME NEW p \in Peer, ClientSends(p) \/ RecvTaskEnds(p) PROVE NobodyMissed'
    BY <1>1, <2>2 DEF ClientSends, RecvTaskEnds, RecvUpdate, RecvSdp, RecvLimited, roomVars
  <2> QED BY <1>3, <1>4, <1>5, <1>6, <1>7, <1>8, <1>9, <1>10, <1>11, <2>1, <2>2
          DEF Next, Arrive, Main, SendTask, RecvTask

(* NobodyMissed for every instance: the snapshot for Hello, the targets of *)
(* Join and the insert are one lock section of handle_socket, so of two    *)
(* members of a room each lists the other, or is going to, whatever is     *)
(* still queued, half sent or blocked on a full channel.                   *)
THEOREM EverybodyTold == Spec => []NobodyMissed
<1>1. Init => OwnSends /\ Named /\ LeftIsLast /\ NobodyMissed
  BY EmptySeqs DEF Init, OwnSends, Named, LeftIsLast, NobodyMissed
<1> QED BY <1>1, OwnSendsStep, NamedStep, LeftIsLastStep, MissedStep, Lifecycle, PTL
        DEF Spec
=============================================================================

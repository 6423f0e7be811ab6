------------------------- MODULE MCSignalingServer -------------------------
(* TLC instances of SignalingServer.                                       *)
EXTENDS SignalingServer, TLC

CONSTANTS a, b, c, d, g1, g2, i1, i2

OneRoom == [p \in Peer |-> g1]
TwoRooms == [p \in Peer |-> IF p = d THEN g2 ELSE g1]

Symmetric == Permutations(Peer \ {d})

(* One hour: no reset of the request counts, so MaxRequests bounds what    *)
(* can be queued.                                                          *)
HourNext ==
  \E p \in Peer : Arrive(p) \/ Main(p) \/ SendTask(p) \/ RecvTask(p)
                  \/ ClientSends(p) \/ ClientCloses(p)
HourSpec == Init /\ [][HourNext]_vars
FairHourSpec == HourSpec /\ Fairness

(* Arrivals and departures in one room; the peer d stays alone in another  *)
(* and addresses offers to everybody; the hour ends when d is alone.       *)
ChurnNext ==
  \/ \E p \in Peer : Arrive(p) \/ Main(p) \/ SendTask(p) \/ RecvTask(p)
  \/ \E p \in Peer \ {d} : ClientCloses(p)
  \/ \E t \in Peer \ {d} : RecvSdp(d, "offer", t)
  \/ members \subseteq {d} /\ ResetCounts
ChurnSpec == Init /\ [][ChurnNext]_vars
=============================================================================

----------------------------- MODULE MCTransfer -----------------------------
(* TLC instances of Transfer.                                              *)
EXTENDS Transfer, TLC

CONSTANTS r1, r2, f1, f2, f3, u1, u2, u3, ipA, ipB

Order == <<f1, f2>>
(* r1 is the sender's request; r2 comes from another device and offers f3. *)
Addresses == [r \in Req |-> IF r = r1 THEN ipA ELSE ipB]
Offers == [r \in Req |-> IF r = r1 THEN {f1, f2} ELSE {f3}]

Symmetric == Permutations(Upload)

(* The last upload is only used while the second device is silent and the  *)
(* server is up.                                                           *)
Sized == (\A u \in Upload : up[u].pc # "idle") => prep[r2] = "idle" /\ running
=============================================================================

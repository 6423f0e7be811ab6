----------------------------- MODULE MCWebSend -----------------------------
(* TLC instance of WebSend.                                                *)
EXTENDS WebSend, TLC

CONSTANTS r1, r2, r3, r4, r5, ipA, ipB

(* All requests but one come from one address: enough to use up its PIN    *)
(* attempts, and to replace a request that waits by a later one.           *)
TwoBrowsers == [r \in Req |-> IF r = r3 THEN ipB ELSE ipA]
Symmetric == Permutations(Req \ {r3}) \cup Permutations(Pin)
=============================================================================

--------------------------- MODULE MCPeerTransfer ---------------------------
(* TLC instances of PeerTransfer.                                          *)
EXTENDS PeerTransfer, TLC

CONSTANTS f1, f2, stray, p1, p2

(* The PINs or the expected keys vary, not both: they are independent.     *)
NoPins == pin = [s \in Side |-> NoPin]
NoKeys == expecting = [s \in Side |-> NoKey]
OneFeature == Init /\ (NoPins \/ NoKeys)

(* A PIN of p1 on either or both sides (p2 is a wrong guess), or a key     *)
(* expected by one side; a file that was not offered is only named in      *)
(* transfers without such guards.                                          *)
Guarded == OneFeature /\ (\A s \in Side : pin[s] # p2)
                      /\ \E s \in Side : expecting[s] = NoKey
GuardedNext ==
  Next /\ (stray \in selected'.files \cup errs'["S"] => NoPins /\ NoKeys)
GuardedSpec == Guarded /\ [][GuardedNext]_vars
FairGuardedSpec == GuardedSpec /\ Fairness
=============================================================================

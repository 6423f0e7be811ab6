-------------------------- MODULE MCReceiveServer --------------------------
(* TLC instances of ReceiveServer.                                         *)
EXTENDS ReceiveServer, TLC

CONSTANTS r1, r2, r3, r4, r5, f1, f2, f3, u1, u2, ipA, ipB

(* r1 offers two files, r2 one; they come from different senders.  Every   *)
(* sender makes up new Uuids for its files, so no id is offered twice.     *)
TwoSenders == [r \in Req |-> IF r = r1 THEN ipA ELSE ipB]
Offers == [r \in Req |-> IF r = r1 THEN {f1, f2} ELSE IF r = r2 THEN {f3} ELSE {}]

Symmetric == Permutations(Upload) \cup Permutations({r3, r4, r5})

(* The requests r3, r4 and r5, from the address of r2, only guess the PIN. *)
GuessNext == Next /\ \A r \in {r3, r4, r5} : prep'[r] \in {"idle", "done"}
GuessSpec == Init /\ [][GuessNext]_vars
=============================================================================

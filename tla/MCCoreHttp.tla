----------------------------- MODULE MCCoreHttp -----------------------------
(* TLC instances of CoreHttp.                                              *)
EXTENDS CoreHttp, TLC

CONSTANTS c1, c2, c3, q1, q2, q3, q4, ipA, ipB, ipS

(* c1 and c2 share an address.                                             *)
Addresses == [p \in Party |-> IF p = Server THEN ipS
                              ELSE IF p = c3 THEN ipB ELSE ipA]

(* With plain HTTP certificates play no role; with TLS one may be bad.     *)
MCInit ==
  /\ Init /\ legacy = tls
  /\ \A p \in Party : cert[p] = "good" \/ (tls /\ p \in {c3, Server})
  /\ cert[c3] # "forged" /\ cert[Server] # "expired"
  /\ "good" \in {cert[c3], cert[Server]}

(* Only the nonce exchange touches the maps: q1 is a call of any kind, the *)
(* others exchange nonces.  The listeners come and go while q1 is alone;   *)
(* the others find an IPv4 listener only.                                  *)
MCNext ==
  /\ Next
  /\ \A q \in Call \ {q1} : op'[q] \in {"none", "nonce"}
  /\ \A q \in Call \ {q1} :
       st'[q] # "new" => listeners' = <<"up", "failed", "on">>
MCSpec == MCInit /\ [][MCNext]_vars

Symmetric == Permutations({c1, c2}) \cup Permutations(Call \ {q1})
=============================================================================

------------------------------ MODULE CoreHttp ------------------------------
(***************************************************************************)
(* The HTTP server of the core library (core/src/http/server) and the      *)
(* clients that call it (core/src/http/client): listeners, TLS, routes,    *)
(* and the nonce exchange, after which each end remembers the nonce it     *)
(* received and the one it generated in two LRU maps keyed by the          *)
(* identifier of the other end.                                            *)
(*                                                                         *)
(* A nonce is the name of the call it was drawn for: the client's nonce in *)
(* the generated map of the client and the received map of the server, the *)
(* server's nonce the other way round.  A public key is the name of its    *)
(* owner.  Alias, version and the other fields of a register answer are    *)
(* left out.                                                               *)
(***************************************************************************)
EXTENDS Naturals, Sequences, FiniteSets

CONSTANTS
  Client,    \* devices that call the server
  Server,
  Call,      \* calls, in all
  IpOf,      \* the address of each party
  Cap,       \* capacity of the LRU maps (200 in the code)
  NoCall

Party == Client \cup {Server}
Elems(q) == {q[i] : i \in 1..Len(q)}

ASSUME HttpAssumption ==
  /\ Server \notin Client /\ NoCall \notin Call
  /\ DOMAIN IpOf = Party
  /\ Cap \in Nat \ {0}

VARIABLES
  tls, legacy,   \* TlsConfig is given; v2 routes are enabled
  cert,          \* the certificate of each party: "good", "expired", "forged"
  v4, v6,        \* the listeners: "binding", "up", "failed"
  task,          \* the task of start_with_port: "on", "off"
  by, op, st,    \* caller, kind and progress of each call
  code,          \* status code of its answer
  received,      \* received_nonce_map of each party, least recent first
  generated,     \* generated_nonce_map of each party, least recent first
  lock,          \* the call that holds the lock of a received_nonce_map
  hist,          \* history: nonce exchanges each party has stored
  clean          \* history: clients whose exchanges never overlapped nor
                 \* broke off after the server had stored its part

config == <<tls, legacy, cert>>
listeners == <<v4, v6, task>>
maps == <<received, generated, lock, hist>>
vars == <<config, listeners, by, op, st, code, maps, clean>>

(* "badnonce" and "v2" stand for other implementations that call the       *)
(* server: an invalid nonce or body, and any path of the v2 API.           *)
Op == {"nonce", "register", "prepare-upload", "upload", "cancel", "badnonce",
       "v2"}
Open(q) == st[q] \in {"sent", "connected", "locked", "answered", "storing"}

Init ==
  /\ tls \in BOOLEAN /\ legacy \in BOOLEAN
  /\ cert \in [Party -> {"good", "expired", "forged"}]
  /\ v4 = "binding" /\ v6 = "binding" /\ task = "on"
  /\ by = [q \in Call |-> Server] /\ op = [q \in Call |-> "none"]
  /\ st = [q \in Call |-> "new"] /\ code = [q \in Call |-> 0]
  /\ received = [p \in Party |-> <<>>] /\ generated = [p \in Party |-> <<>>]
  /\ lock = [p \in Party |-> NoCall] /\ hist = [p \in Party |-> <<>>]
  /\ clean = Client

-----------------------------------------------------------------------------
(* Listeners: start_with_port selects over the two accept loops and the    *)
(* stop signal.                                                            *)

Listeners(w4, w6, t) ==
  /\ v4' = w4 /\ v6' = w6 /\ task' = t
  /\ UNCHANGED <<config, by, op, st, code, maps, clean>>

Bind4 == task = "on" /\ v4 = "binding" /\ Listeners("up", v6, "on")
Bind6 == task = "on" /\ v6 = "binding" /\ Listeners(v4, "up", "on")

(* bind, the TLS configuration or accept failed: IPv4 takes the whole task *)
(* along, IPv6 sleeps.                                                     *)
Ends4 == task = "on" /\ v4 # "failed" /\ Listeners("failed", "failed", "off")
Ends6 == task = "on" /\ v6 # "failed" /\ Listeners(v4, "failed", "on")
Stop == task = "on" /\ Listeners("failed", "failed", "off")

-----------------------------------------------------------------------------
(* verify_cert_from_cert: time validity, the expected key, the signature.  *)
VerifyCert(p, public_key) == cert[p] = "good" /\ public_key = p

(* Who the other end of call q is: RequestClientInfo::identifier at the    *)
(* server, to_identifier at a client.                                      *)
Identifier_NoFallback(p, q) ==                              \* mutant
  IF ~tls THEN NoCall ELSE IF p = Server THEN by[q] ELSE Server
Identifier_Caller(p, q) == IF tls THEN by[q] ELSE IpOf[by[q]]   \* mutant
Identifier(p, q) ==
  LET other == IF p = Server THEN by[q] ELSE Server
  IN  IF tls THEN other ELSE IpOf[other]

(* LruCache::put: the key becomes the most recent one, in the place of its *)
(* old entry, or of the least recent one where a full map has no entry.    *)
Put_InPlace(lru, k, v) ==                                   \* mutant
  IF \E e \in Elems(lru) : e.id = k
  THEN [i \in 1..Len(lru) |-> IF lru[i].id = k THEN [id |-> k, nonce |-> v]
                              ELSE lru[i]]
  ELSE Append(IF Len(lru) = Cap THEN Tail(lru) ELSE lru, [id |-> k, nonce |-> v])
Without(lru, i) == SubSeq(lru, 1, i - 1) \o SubSeq(lru, i + 1, Len(lru))
Leaves(lru, k) ==   \* 0: nothing leaves
  IF \E i \in 1..Len(lru) : lru[i].id = k
  THEN CHOOSE i \in 1..Len(lru) : lru[i].id = k
  ELSE IF Len(lru) = Cap THEN 1 ELSE 0
Put(lru, k, v) == Append(Without(lru, Leaves(lru, k)), [id |-> k, nonce |-> v])

(* The two halves of a nonce exchange at p, under the lock of the received *)
(* map, which is held over both.                                           *)
PutReceived_Unlocked(p, q) ==                               \* mutant
  /\ received' = [received EXCEPT ![p] = Put(@, Identifier(p, q), q)]
  /\ UNCHANGED <<generated, lock, hist>>
PutReceived(p, q) ==
  /\ lock[p] = NoCall
  /\ lock' = [lock EXCEPT ![p] = q]
  /\ received' = [received EXCEPT ![p] = Put(@, Identifier(p, q), q)]
  /\ UNCHANGED <<generated, hist>>
PutGenerated(p, q) ==
  /\ lock[p] = q
  /\ lock' = [lock EXCEPT ![p] = NoCall]
  /\ generated' = [generated EXCEPT ![p] = Put(@, Identifier(p, q), q)]
  /\ hist' = [hist EXCEPT ![p] = Append(@, [id |-> Identifier(p, q), nonce |-> q])]
  /\ UNCHANGED received

Goes(q, s) == st' = [st EXCEPT ![q] = s]
Answers(q, c) == Goes(q, "answered") /\ code' = [code EXCEPT ![q] = c]

-----------------------------------------------------------------------------
(* The calls of a client.                                                  *)

(* Two clients of one identifier are one client to the server.             *)
Alike(c, d) == c = d \/ (~tls /\ IpOf[c] = IpOf[d])

CallServer(q, c, o) ==
  /\ st[q] = "new" /\ Goes(q, "sent")
  /\ by' = [by EXCEPT ![q] = c] /\ op' = [op EXCEPT ![q] = o]
  /\ clean' = IF o = "nonce" /\ \E r \in Call : Open(r) /\ op[r] = "nonce"
                                                /\ Alike(by[r], c)
              THEN clean \ {d \in Client : Alike(d, c)} ELSE clean
  /\ UNCHANGED <<config, listeners, code, maps>>

(* send().await? fails: no listener, no handshake, or a lost connection,   *)
(* before or after the server has done its part.                           *)
SendFails(q) ==
  /\ st[q] \in {"sent", "connected", "answered"}
  /\ Goes(q, "err")
  /\ clean' = IF op[q] = "nonce" /\ st[q] = "answered"
              THEN clean \ {by[q]} ELSE clean
  /\ UNCHANGED <<config, listeners, by, op, code, maps>>

(* accept, and the TLS handshake with its mandatory client certificate.    *)
Connect(q) ==
  /\ st[q] = "sent" /\ "up" \in {v4, v6}
  /\ Goes(q, IF tls /\ cert[by[q]] # "good" THEN "err" ELSE "connected")
  /\ UNCHANGED <<config, listeners, by, op, code, maps, clean>>

(* handle_request: every route but the nonce exchange answers at once.  A  *)
(* connection is a task of its own and outlives the listener.              *)
Route(o) == CASE o = "register" -> 200
              [] o = "badnonce" -> 400
              [] o = "v2" -> IF legacy THEN 200 ELSE 404
              [] OTHER -> 404
HandleRequest(q) ==
  /\ st[q] = "connected" /\ op[q] # "nonce"
  /\ Answers(q, Route(op[q]))
  /\ UNCHANGED <<config, listeners, by, op, maps, clean>>

NonceExchange(q) ==
  /\ st[q] = "connected" /\ op[q] = "nonce"
  /\ PutReceived(Server, q) /\ Goes(q, "locked")
  /\ UNCHANGED <<config, listeners, by, op, code, clean>>
NonceExchanged(q) ==
  /\ st[q] = "locked"
  /\ PutGenerated(Server, q) /\ Answers(q, 200)
  /\ UNCHANGED <<config, listeners, by, op, clean>>

(* The client looks at the answer.                                         *)
Outcome(q, ok) ==
  /\ st[q] = "answered" /\ Goes(q, IF ok THEN "ok" ELSE "err")
  /\ UNCHANGED <<config, listeners, by, op, code, maps>>

Register(q) ==
  /\ op[q] = "register"
  /\ Outcome(q, (tls => VerifyCert(Server, Server)) /\ code[q] = 200)
  /\ UNCHANGED clean
(* With a public key the caller expects, or without.                       *)
PrepareUpload(q) ==
  /\ op[q] = "prepare-upload"
  /\ \E expected \in {Server, by[q]} : \E pinned \in BOOLEAN :
       Outcome(q, (pinned => tls /\ VerifyCert(Server, expected)) /\ code[q] = 200)
  /\ UNCHANGED clean
Upload(q) == op[q] = "upload" /\ Outcome(q, code[q] = 200) /\ UNCHANGED clean
(* Any answer will do.                                                     *)
Cancel(q) == op[q] = "cancel" /\ Outcome(q, TRUE) /\ UNCHANGED clean
Foreign(q) == op[q] \in {"badnonce", "v2"} /\ Outcome(q, code[q] = 200)
              /\ UNCHANGED clean

(* nonce: the certificate of the server is checked before anything is      *)
(* stored.                                                                 *)
NonceRejected(q) ==
  /\ op[q] = "nonce" /\ tls /\ ~VerifyCert(Server, Server)
  /\ Outcome(q, FALSE)
  /\ clean' = clean \ {by[q]}
Nonce(q) ==
  /\ st[q] = "answered" /\ op[q] = "nonce" /\ (tls => VerifyCert(Server, Server))
  /\ PutReceived(by[q], q) /\ Goes(q, "storing")
  /\ UNCHANGED <<config, listeners, by, op, code, clean>>
NonceStored(q) ==
  /\ st[q] = "storing"
  /\ PutGenerated(by[q], q) /\ Goes(q, "ok")
  /\ UNCHANGED <<config, listeners, by, op, code, clean>>

-----------------------------------------------------------------------------
Handle(q) == Connect(q) \/ HandleRequest(q) \/ NonceExchange(q)
             \/ NonceExchanged(q)
Return(q) == Register(q) \/ PrepareUpload(q) \/ Upload(q) \/ Cancel(q)
             \/ Foreign(q) \/ NonceRejected(q) \/ Nonce(q) \/ NonceStored(q)

Next ==
  \/ Bind4 \/ Bind6 \/ Ends4 \/ Ends6 \/ Stop
  \/ \E q \in Call : Handle(q) \/ Return(q) \/ SendFails(q)
  \/ \E q \in Call, c \in Client, o \in Op : CallServer(q, c, o)

Spec == Init /\ [][Next]_vars

-----------------------------------------------------------------------------
(* Properties.                                                             *)

Lru == Seq([id : Party \cup {IpOf[p] : p \in Party}, nonce : Call])

(* Type correctness.                                                       *)
HTypeOK ==
  /\ tls \in BOOLEAN /\ legacy \in BOOLEAN
  /\ {v4, v6} \subseteq {"binding", "up", "failed"} /\ task \in {"on", "off"}
  /\ by \in [Call -> Party] /\ op \in [Call -> Op \cup {"none"}]
  /\ st \in [Call -> {"new", "sent", "connected", "locked", "answered",
                      "storing", "ok", "err"}]
  /\ code \in [Call -> {0, 200, 400, 404}]
  /\ received \in [Party -> Lru] /\ generated \in [Party -> Lru]
  /\ lock \in [Party -> Call \cup {NoCall}] /\ hist \in [Party -> Lru]
  /\ clean \in SUBSET Client

(* Whenever nobody is storing, the two maps of a party hold the two nonces *)
(* of one and the same exchange for every identifier, and neither map has  *)
(* an entry the other one evicted: the lock of the received map, held to   *)
(* the end of nonce_exchange and nonce, covers both.                       *)
OneExchange == \A p \in Party : lock[p] = NoCall => received[p] = generated[p]

(* A party still holds the nonces of its latest exchange with an           *)
(* identifier unless Cap other identifiers came since; so a map never      *)
(* forgets early, never serves an old nonce and never outgrows Cap.        *)
Since(p, i) == {hist[p][j].id : j \in i + 1..Len(hist[p])}
Latest(p) == {i \in 1..Len(hist[p]) : hist[p][i].id \notin Since(p, i)}
KeepsRecent ==
  \A p \in Party : lock[p] = NoCall =>
    Elems(received[p]) = {hist[p][i] : i \in {j \in Latest(p) :
                                       Cardinality(Since(p, j)) < Cap}}

(* A client whose exchanges never overlapped nor broke off half-way, and   *)
(* whose identifier is its own, agrees with the server on both nonces as   *)
(* long as the server remembers it.                                        *)
IdOf(p) == IF tls THEN p ELSE IpOf[p]
AtRest(c) == lock[Server] = NoCall
  /\ \A q \in Call : Open(q) /\ op[q] = "nonce" => ~Alike(by[q], c)
AgreeOnNonces ==
  \A c \in clean :
    AtRest(c) /\ (\A d \in Client : Alike(c, d) => d = c) =>
      \A e \in Elems(received[Server]) : e.id = IdOf(c) =>
        [id |-> IdOf(Server), nonce |-> e.nonce]
          \in Elems(generated[c]) \cap Elems(received[c])
=============================================================================

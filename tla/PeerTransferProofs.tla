------------------------- MODULE PeerTransferProofs -------------------------
(***************************************************************************)
(* Theorems about PeerTransfer, for any files, PINs, number of tries and   *)
(* length of the files.                                                    *)
(***************************************************************************)
EXTENDS PeerTransfer, SequenceTheorems, TLAPS

-----------------------------------------------------------------------------
(* The inductive invariant.                                                *)

Nonce == <<"S", "R">>
PinOk(o) == pin[o] = NoPin \/ pin[o] \in typed[Other(o)]
KeyOk(s) == expecting[s] \in {NoKey, Other(s)}
(* What must hold before the file list leaves the sender.                  *)
Cleared == PinOk("S") /\ PinOk("R") /\ nonce["S"] = Nonce

Shape ==
  /\ pc = [s \in Side |-> pc[s]] /\ status = [s \in Side |-> status[s]]
  /\ typed \in [Side -> SUBSET Pin]
  /\ nonce = [s \in Side |-> nonce[s]]
  /\ \E M : wire \in [Side -> Seq(M)]

(* What every message under way vouches for.                               *)
Elems(q) == {q[i] : i \in 1..Len(q)}
ForR(m) ==
  /\ m.t = "nonce" => m.v = "S"
  /\ m.t = "token" => m.v = Token("S", Nonce)
  /\ m.t = "pin" => m.v \in typed["S"]
  /\ m.t = "bin" => \/ m.v \in {[st |-> "PinRequired"], [st |-> "TooManyAttempts"]}
                    \/ Cleared
ForS(m) ==
  /\ m.t = "nonce" => m.v = "R"
  /\ m.t = "tokenres" => /\ m.v \in {Token("R", Nonce), Token("R", <<>>)}
                         /\ m.st \notin {"PinRequired", "InvalidSignature"} => PinOk("R")
  /\ m.t = "pinres" => (m.v = "Ok" => PinOk("R"))
  /\ m.t = "pin" => m.v \in typed["R"]
Vouched == /\ \A m \in Elems(wire["R"]) : ForR(m)
           /\ \A m \in Elems(wire["S"]) : ForS(m)

(* What each task has made sure of when it gets to p.                      *)
SenderAt(p) ==
  /\ p \in {"token", "askpin", "pinwait", "verify"} => nonce["S"] = Nonce
  /\ p \in {"askpin", "pinwait", "verify"} => KeyOk("S")
  /\ p = "verify" => PinOk("R")
  /\ p \in {"list", "sending", "confirm"} => Cleared
ReceiverAt(p) ==
  /\ p \in {"token", "verify", "list", "askpin", "pinwait"} => nonce["R"] = Nonce
  /\ p \in {"verify", "list", "askpin", "pinwait"} => KeyOk("R")
  /\ p \in {"list", "askpin", "pinwait"} => PinOk("R")
Made == /\ SenderAt(pc["S"])
        /\ Listed("S") => Cleared /\ KeyOk("S")
        /\ ReceiverAt(pc["R"])
        /\ Listed("R") => Cleared /\ KeyOk("R") /\ nonce["R"] = Nonce

IInv == Shape /\ Vouched /\ Made

USE PeerAssumption

LEMMA InitIInv == Init => IInv
<1> SUFFICES ASSUME Init PROVE IInv OBVIOUS
<1>1. Shape
  <2>1. wire \in [Side -> Seq({})] BY DEF Init
  <2>2. pc = [s \in Side |-> pc[s]] BY DEF Init
  <2>3. status = [s \in Side |-> status[s]] BY DEF Init
  <2>4. typed \in [Side -> SUBSET Pin] BY DEF Init
  <2>5. nonce = [s \in Side |-> nonce[s]] BY DEF Init
  <2> QED BY <2>1, <2>2, <2>3, <2>4, <2>5 DEF Shape
<1>2. Vouched BY DEF Init, Vouched, Elems, Side
<1>3. Made BY DEF Init, Made, SenderAt, ReceiverAt, Listed, Side
<1> QED BY <1>1, <1>2, <1>3 DEF IInv

-----------------------------------------------------------------------------
(* One turn of a task, seen from the channel.                              *)

(* A part of a sequence contains nothing new.                              *)
LEMMA PartOf ==
  ASSUME NEW M, NEW q \in Seq(M), NEW m \in Nat, NEW n \in Nat, n <= Len(q)
  PROVE  SubSeq(q, m + 1, n) \in Seq(M) /\ Elems(SubSeq(q, m + 1, n)) \subseteq Elems(q)
<1>1. SubSeq(q, m + 1, n) \in Seq(M) OBVIOUS
<1>2. /\ Len(SubSeq(q, m + 1, n)) = IF m + 1 <= n THEN n - m ELSE 0
      /\ \A i \in 1..Len(SubSeq(q, m + 1, n)) : SubSeq(q, m + 1, n)[i] = q[m + i]
  OBVIOUS
<1>3. Len(q) \in Nat OBVIOUS
<1> QED BY <1>1, <1>2, <1>3 DEF Elems

LEMMA ElemsConcat ==
  ASSUME NEW M, NEW q \in Seq(M), NEW r \in Seq(M)
  PROVE  q \o r \in Seq(M) /\ Elems(q \o r) \subseteq Elems(q) \cup Elems(r)
<1>1. q \o r \in Seq(M) /\ Len(q \o r) = Len(q) + Len(r) OBVIOUS
<1>2. \A i \in 1..Len(q) + Len(r) :
        (q \o r)[i] = IF i <= Len(q) THEN q[i] ELSE r[i - Len(q)]
  OBVIOUS
<1>3. Len(q) \in Nat /\ Len(r) \in Nat OBVIOUS
<1>4. ASSUME NEW i \in 1..Len(q) + Len(r)
      PROVE  (q \o r)[i] \in Elems(q) \cup Elems(r)
  <2>1. CASE i <= Len(q) BY <1>2, <1>3, <2>1 DEF Elems
  <2>2. CASE ~(i <= Len(q))
    <3>1. i - Len(q) \in 1..Len(r) BY <1>3, <2>2
    <3> QED BY <1>2, <2>2, <3>1 DEF Elems
  <2> QED BY <2>1, <2>2
<1> QED BY <1>1, <1>4 DEF Elems

LEMMA SeqGrows ==
  ASSUME NEW M, NEW N, NEW q \in Seq(M) PROVE q \in Seq(M \cup N)
OBVIOUS

(* Do keeps the shape, and what arrives was under way or has been sent.    *)
LEMMA DoShape ==
  ASSUME IInv, NEW s \in Side, NEW n \in Nat, NEW ms, NEW N, ms \in Seq(N),
         NEW sts, NEW p, Do(s, n, ms, sts, p),
         typed' \in [Side -> SUBSET Pin], nonce' = [t \in Side |-> nonce'[t]]
  PROVE  /\ Shape'
         /\ Elems(wire'[s]) \subseteq Elems(wire[s])
         /\ Elems(wire'[Other(s)]) \subseteq Elems(wire[Other(s)]) \cup Elems(ms)
<1>1. PICK M : wire \in [Side -> Seq(M)] BY DEF IInv, Shape
<1> DEFINE L == M \cup N
<1>2. Other(s) \in Side /\ Other(s) # s BY DEF Side, Other
<1>3. wire[s] \in Seq(L) /\ wire[Other(s)] \in Seq(L) /\ ms \in Seq(L)
  BY <1>1, <1>2, SeqGrows
<1>4. /\ wire'[s] = SubSeq(wire[s], n + 1, Len(wire[s]))
      /\ wire'[Other(s)] = IF link = "open" THEN wire[Other(s)] \o ms ELSE wire[Other(s)]
      /\ wire' = [t \in Side |-> wire'[t]]
  BY <1>1, <1>2 DEF Do
<1>5. wire'[s] \in Seq(L) /\ Elems(wire'[s]) \subseteq Elems(wire[s])
  <2> HIDE DEF L
  <2>1. Len(wire[s]) \in Nat /\ Len(wire[s]) <= Len(wire[s]) BY <1>3
  <2>2. /\ SubSeq(wire[s], n + 1, Len(wire[s])) \in Seq(L)
        /\ Elems(SubSeq(wire[s], n + 1, Len(wire[s]))) \subseteq Elems(wire[s])
    BY <1>3, <2>1, PartOf, Zenon
  <2> QED BY <1>4, <2>2
<1>6. /\ wire'[Other(s)] \in Seq(L)
      /\ Elems(wire'[Other(s)]) \subseteq Elems(wire[Other(s)]) \cup Elems(ms)
  <2> HIDE DEF L
  <2>1. CASE link = "open"
    <3>1. wire'[Other(s)] = wire[Other(s)] \o ms BY <1>4, <2>1
    <3>2. /\ wire[Other(s)] \o ms \in Seq(L)
          /\ Elems(wire[Other(s)] \o ms) \subseteq Elems(wire[Other(s)]) \cup Elems(ms)
      BY <1>3, ElemsConcat, Zenon
    <3> QED BY <3>1, <3>2
  <2>2. CASE link # "open" BY <1>3, <1>4, <2>2
  <2> QED BY <2>1, <2>2
<1>7. \A t \in Side : t = s \/ t = Other(s) BY DEF Side, Other
<1>8. wire' \in [Side -> Seq(L)] BY <1>4, <1>5, <1>6, <1>7
<1>9. (pc = [t \in Side |-> pc[t]] /\ status = [t \in Side |-> status[t]])'
  BY DEF Do, IInv, Shape
<1> QED BY <1>5, <1>6, <1>8, <1>9 DEF Shape

-----------------------------------------------------------------------------
(* What was vouched for stays so: typed PINs and final nonces are kept.    *)

Steady == /\ UNCHANGED <<pin, expecting>>
          /\ \A s \in Side : typed[s] \subseteq typed'[s]
          /\ \A s \in Side : nonce[s] = Nonce => nonce'[s] = Nonce

LEMMA Kept ==
  ASSUME Steady
  PROVE  /\ \A s \in Side : PinOk(s) => PinOk(s)'
         /\ \A s \in Side : KeyOk(s) => KeyOk(s)'
         /\ Cleared => Cleared'
<1>1. ASSUME NEW s \in Side PROVE PinOk(s) => PinOk(s)'
  BY DEF Steady, PinOk, Other, Side
<1>2. ASSUME NEW s \in Side PROVE KeyOk(s) => KeyOk(s)'
  BY DEF Steady, KeyOk
<1>3. Cleared => Cleared' BY <1>1 DEF Steady, Cleared, Side
<1> QED BY <1>1, <1>2, <1>3

LEMMA VouchedKept ==
  ASSUME Steady, NEW m
  PROVE  (ForR(m) => ForR(m)') /\ (ForS(m) => ForS(m)')
<1>1. /\ (PinOk("R") => PinOk("R")') /\ (Cleared => Cleared')
  BY Kept DEF Side
<1>2. typed["S"] \subseteq typed'["S"] /\ typed["R"] \subseteq typed'["R"]
  BY DEF Steady, Side
<1>3. ForR(m) => ForR(m)' BY <1>1, <1>2 DEF ForR
<1>4. ForS(m) => ForS(m)' BY <1>1, <1>2 DEF ForS
<1> QED BY <1>3, <1>4

LEMMA AtKept ==
  ASSUME Steady, NEW p
  PROVE  (SenderAt(p) => SenderAt(p)') /\ (ReceiverAt(p) => ReceiverAt(p)')
<1>1. /\ (PinOk("R") => PinOk("R")') /\ (Cleared => Cleared')
      /\ (KeyOk("S") => KeyOk("S")') /\ (KeyOk("R") => KeyOk("R")')
  BY Kept DEF Side
<1>2. (nonce["S"] = Nonce => nonce'["S"] = Nonce) /\ (nonce["R"] = Nonce => nonce'["R"] = Nonce)
  BY DEF Steady, Side
<1> QED BY <1>1, <1>2 DEF SenderAt, ReceiverAt

(* A turn of the sending task.                                             *)
LEMMA TurnS ==
  ASSUME IInv, Steady, NEW n \in Nat, NEW ms, NEW sts, NEW p,
         Do("S", n, ms, sts, p), \E N : ms \in Seq(N),
         typed' \in [Side -> SUBSET Pin], nonce' = [t \in Side |-> nonce'[t]],
         \A m \in Elems(ms) : ForR(m)', SenderAt(p)',
         "Connected" \in sts => (Cleared /\ KeyOk("S"))'
  PROVE  IInv'
<1>1. PICK N : ms \in Seq(N) OBVIOUS
<1>2. /\ Shape' /\ Elems(wire'["S"]) \subseteq Elems(wire["S"])
      /\ Elems(wire'["R"]) \subseteq Elems(wire["R"]) \cup Elems(ms)
  <2>1. "S" \in Side /\ Other("S") = "R" BY DEF Side, Other
  <2>2. /\ Shape' /\ Elems(wire'["S"]) \subseteq Elems(wire["S"])
        /\ Elems(wire'[Other("S")]) \subseteq Elems(wire[Other("S")]) \cup Elems(ms)
    BY <1>1, <2>1, DoShape
  <2> QED BY <2>1, <2>2
<1>3. Vouched'
  <2>1. \A m \in Elems(wire'["R"]) : ForR(m)' BY <1>2, VouchedKept DEF IInv, Vouched
  <2>2. \A m \in Elems(wire'["S"]) : ForS(m)' BY <1>2, VouchedKept DEF IInv, Vouched
  <2>3. (Elems(wire["R"]))' = Elems(wire'["R"]) /\ (Elems(wire["S"]))' = Elems(wire'["S"])
    BY DEF Elems
  <2> QED BY <2>1, <2>2, <2>3 DEF Vouched
<1>4. Made'
  <2>1. /\ pc'["S"] = p /\ pc'["R"] = pc["R"]
        /\ status'["S"] = status["S"] \cup sts /\ status'["R"] = status["R"]
    BY DEF Do, IInv, Shape, Side
  <2>2. Listed("R") => (Cleared /\ KeyOk("R"))' /\ nonce'["R"] = Nonce
    BY Kept DEF IInv, Made, Steady, Side
  <2>3. Listed("S") => (Cleared /\ KeyOk("S"))' BY Kept DEF IInv, Made, Side
  <2>4. ReceiverAt(pc["R"])' BY <2>1, AtKept DEF IInv, Made, ReceiverAt
  <2> QED BY <2>1, <2>2, <2>3, <2>4 DEF Made, Listed, SenderAt
<1> QED BY <1>2, <1>3, <1>4 DEF IInv

(* A turn of the receiving task.                                           *)
LEMMA TurnR ==
  ASSUME IInv, Steady, NEW n \in Nat, NEW ms, NEW sts, NEW p,
         Do("R", n, ms, sts, p), \E N : ms \in Seq(N),
         typed' \in [Side -> SUBSET Pin], nonce' = [t \in Side |-> nonce'[t]],
         \A m \in Elems(ms) : ForS(m)', ReceiverAt(p)',
         "Connected" \in sts => (Cleared /\ KeyOk("R"))' /\ nonce'["R"] = Nonce
  PROVE  IInv'
<1>1. PICK N : ms \in Seq(N) OBVIOUS
<1>2. /\ Shape' /\ Elems(wire'["R"]) \subseteq Elems(wire["R"])
      /\ Elems(wire'["S"]) \subseteq Elems(wire["S"]) \cup Elems(ms)
  <2>1. "R" \in Side /\ Other("R") = "S" BY DEF Side, Other
  <2>2. /\ Shape' /\ Elems(wire'["R"]) \subseteq Elems(wire["R"])
        /\ Elems(wire'[Other("R")]) \subseteq Elems(wire[Other("R")]) \cup Elems(ms)
    BY <1>1, <2>1, DoShape
  <2> QED BY <2>1, <2>2
<1>3. Vouched'
  <2>1. \A m \in Elems(wire'["R"]) : ForR(m)' BY <1>2, VouchedKept DEF IInv, Vouched
  <2>2. \A m \in Elems(wire'["S"]) : ForS(m)' BY <1>2, VouchedKept DEF IInv, Vouched
  <2>3. (Elems(wire["R"]))' = Elems(wire'["R"]) /\ (Elems(wire["S"]))' = Elems(wire'["S"])
    BY DEF Elems
  <2> QED BY <2>1, <2>2, <2>3 DEF Vouched
<1>4. Made'
  <2>1. /\ pc'["R"] = p /\ pc'["S"] = pc["S"]
        /\ status'["R"] = status["R"] \cup sts /\ status'["S"] = status["S"]
    BY DEF Do, IInv, Shape, Side
  <2>2. Listed("R") => (Cleared /\ KeyOk("R"))' /\ nonce'["R"] = Nonce
    BY Kept DEF IInv, Made, Steady, Side
  <2>3. Listed("S") => (Cleared /\ KeyOk("S"))' BY Kept DEF IInv, Made, Side
  <2>4. SenderAt(pc["S"])' BY <2>1, AtKept DEF IInv, Made, SenderAt
  <2> QED BY <2>1, <2>2, <2>3, <2>4 DEF Made, Listed, ReceiverAt
<1> QED BY <1>2, <1>3, <1>4 DEF IInv

(* Messages are lost, statuses other than Connected reported.              *)
LEMMA Aside ==
  ASSUME IInv, UNCHANGED <<pin, expecting, pc, nonce, typed>>,
         \E M : wire' \in [Side -> Seq(M)],
         \A s \in Side : Elems(wire'[s]) \subseteq Elems(wire[s]),
         status' = [s \in Side |-> status'[s]],
         \A s \in Side : "Connected" \in status'[s] => "Connected" \in status[s]
  PROVE  IInv'
<1>1. Steady BY DEF Steady
<1>2. Shape' BY DEF IInv, Shape
<1>3. Vouched'
  <2>1. \A m \in Elems(wire'["R"]) : ForR(m)'
    BY <1>1, VouchedKept DEF IInv, Vouched, Side
  <2>2. \A m \in Elems(wire'["S"]) : ForS(m)'
    BY <1>1, VouchedKept DEF IInv, Vouched, Side
  <2>3. (Elems(wire["R"]))' = Elems(wire'["R"]) /\ (Elems(wire["S"]))' = Elems(wire'["S"])
    BY DEF Elems
  <2> QED BY <2>1, <2>2, <2>3 DEF Vouched
<1>4. Made'
  <2>1. (Listed("S")' => Listed("S")) /\ (Listed("R")' => Listed("R"))
    BY DEF Listed, Side
  <2>2. /\ Cleared => Cleared'
        /\ (KeyOk("S") => KeyOk("S")') /\ (KeyOk("R") => KeyOk("R")')
    BY <1>1, Kept DEF Side
  <2>3. SenderAt(pc["S"])' /\ ReceiverAt(pc["R"])'
    BY <1>1, AtKept DEF IInv, Made, SenderAt, ReceiverAt
  <2> QED BY <2>1, <2>2, <2>3 DEF IInv, Made
<1> QED BY <1>2, <1>3, <1>4 DEF IInv

-----------------------------------------------------------------------------
(* The actions.                                                            *)

LEMMA Sent ==
  /\ (\E N : <<>> \in Seq(N)) /\ Elems(<<>>) = {}
  /\ \A a : (\E N : <<a>> \in Seq(N)) /\ Elems(<<a>>) = {a}
  /\ \A a, b : (\E N : <<a, b>> \in Seq(N)) /\ Elems(<<a, b>>) = {a, b}
<1>1. <<>> \in Seq({}) /\ Elems(<<>>) = {} BY DEF Elems
<1>2. ASSUME NEW a PROVE <<a>> \in Seq({a}) /\ Elems(<<a>>) = {a} BY DEF Elems
<1>3. ASSUME NEW a, NEW b
      PROVE  <<a, b>> \in Seq({a, b}) /\ Elems(<<a, b>>) = {a, b}
  BY DEF Elems
<1> QED BY <1>1, <1>2, <1>3

LEMMA HeadUnderWay ==
  ASSUME IInv, NEW s \in Side, wire[s] # <<>>
  PROVE  wire[s][1] \in Elems(wire[s])
<1>1. PICK M : wire \in [Side -> Seq(M)] BY DEF IInv, Shape
<1>2. Len(wire[s]) \in Nat /\ Len(wire[s]) # 0 BY <1>1
<1> QED BY <1>2 DEF Elems

LEMMA HeadVouched ==
  ASSUME IInv
  PROVE  /\ wire["R"] # <<>> => ForR(wire["R"][1])
         /\ wire["S"] # <<>> => ForS(wire["S"][1])
BY HeadUnderWay DEF IInv, Vouched, Side

LEMMA BodyVouched ==
  ASSUME IInv, NextBody("R")
  PROVE  ForR(wire["R"][1])
<1>1. PICK M : wire \in [Side -> Seq(M)] BY DEF IInv, Shape
<1>2. wire["R"] # <<>> BY <1>1 DEF NextBody, Side
<1> QED BY <1>2, HeadVouched

(* Nothing about PINs and nonces changes.                                  *)
LEMMA Calm ==
  ASSUME IInv, UNCHANGED <<conf, nonce, typed>>
  PROVE  /\ Steady /\ typed' \in [Side -> SUBSET Pin]
         /\ nonce' = [t \in Side |-> nonce'[t]]
         /\ UNCHANGED <<pin, expecting>>
BY DEF IInv, Shape, Steady, conf

LEMMA SendListKeeps ==
  ASSUME IInv, UNCHANGED <<conf, nonce, typed>>, NEW n \in Nat, SendList(n),
         Cleared, KeyOk("S")
  PROVE  IInv'
<1> DEFINE body == [st |-> "Ok", files |-> Offered]
           ms == RTCPinSendingResponse(body)
<1>1. Cleared' /\ KeyOk("S")' BY Calm, Kept DEF Side
<1>2. SenderAt("list")' BY <1>1 DEF SenderAt
<1>3. \A m \in Elems(ms) : ForR(m)'
  BY <1>1, Sent DEF RTCPinSendingResponse, InChunks, Delimiter, ForR
<1>4. \E N : ms \in Seq(N) BY Sent DEF RTCPinSendingResponse, InChunks
<1>5. Do("S", n, ms, {"Connected"}, "list") BY DEF SendList
<1> HIDE DEF ms
<1> QED BY <1>1, <1>2, <1>3, <1>4, <1>5, Calm, TurnS

LEMMA ChallengeOrListKeeps ==
  ASSUME IInv, UNCHANGED <<conf, nonce, typed>>, NEW n \in Nat, ChallengeOrList(n),
         nonce["S"] = Nonce, KeyOk("S"), PinOk("R")
  PROVE  IInv'
<1>1. CASE pin["S"] = NoPin
  <2>1. Cleared BY <1>1 DEF Cleared, PinOk
  <2> QED BY <1>1, <2>1, SendListKeeps DEF ChallengeOrList
<1>2. CASE pin["S"] # NoPin
  <2> DEFINE ms == RTCPinSendingResponse([st |-> "PinRequired"])
  <2>1. SenderAt("verify")' BY Calm, Kept DEF SenderAt, Side
  <2>2. \A m \in Elems(ms) : ForR(m)'
    BY Sent DEF RTCPinSendingResponse, InChunks, Delimiter, ForR
  <2>3. \E N : ms \in Seq(N) BY Sent DEF RTCPinSendingResponse, InChunks
  <2>4. Do("S", n, ms, {"PinRequired"}, "verify") BY <1>2 DEF ChallengeOrList
  <2> HIDE DEF ms
  <2> QED BY <2>1, <2>2, <2>3, <2>4, Calm, TurnS
<1> QED BY <1>1, <1>2

(* A task gives up, or ends, and says nothing more.                        *)
LEMMA QuietS ==
  ASSUME IInv, UNCHANGED <<conf, nonce, typed>>, NEW n \in Nat, NEW sts, NEW p,
         Do("S", n, <<>>, sts, p), "Connected" \notin sts, SenderAt(p)
  PROVE  IInv'
<1>1. SenderAt(p)' BY Calm, AtKept
<1>2. \A m \in Elems(<<>>) : ForR(m)' BY Sent
<1> QED BY <1>1, <1>2, Calm, TurnS, Sent

LEMMA QuietR ==
  ASSUME IInv, UNCHANGED <<conf, nonce, typed>>, NEW n \in Nat, NEW sts, NEW p,
         Do("R", n, <<>>, sts, p), "Connected" \notin sts, ReceiverAt(p)
  PROVE  IInv'
<1>1. ReceiverAt(p)' BY Calm, AtKept
<1>2. \A m \in Elems(<<>>) : ForS(m)' BY Sent
<1> QED BY <1>1, <1>2, Calm, TurnR, Sent

(* A turn that sends one message.                                          *)
LEMMA SayS ==
  ASSUME IInv, UNCHANGED <<conf, nonce, typed>>, NEW n \in Nat, NEW sts, NEW p,
         NEW m, Do("S", n, <<m>>, sts, p), "Connected" \notin sts, SenderAt(p), ForR(m)
  PROVE  IInv'
<1>1. SenderAt(p)' /\ ForR(m)' BY Calm, AtKept, VouchedKept
<1>2. \A x \in Elems(<<m>>) : ForR(x)' BY <1>1, Sent
<1> QED BY <1>1, <1>2, Calm, TurnS, Sent

LEMMA SayR ==
  ASSUME IInv, UNCHANGED <<conf, nonce, typed>>, NEW n \in Nat, NEW sts, NEW p,
         NEW m, Do("R", n, <<m>>, sts, p), "Connected" \notin sts, ReceiverAt(p), ForS(m)
  PROVE  IInv'
<1>1. ReceiverAt(p)' /\ ForS(m)' BY Calm, AtKept, VouchedKept
<1>2. \A x \in Elems(<<m>>) : ForS(x)' BY <1>1, Sent
<1> QED BY <1>1, <1>2, Calm, TurnR, Sent

(* Nonces and tokens.                                                      *)
LEMMA NonceStep ==
  ASSUME IInv, DataChannelOpens \/ ReceiveNonceR \/ ReceiveNonceS
  PROVE  IInv'
<1>1. CASE DataChannelOpens
  <2>1. UNCHANGED <<conf, nonce, typed>> BY <1>1 DEF DataChannelOpens, BeforeFiles
  <2>2. Do("S", 0, <<RTCNonceMessage("S")>>, {}, "nonce") BY <1>1 DEF DataChannelOpens
  <2>3. ForR(RTCNonceMessage("S")) BY DEF ForR, RTCNonceMessage
  <2>4. SenderAt("nonce") BY DEF SenderAt
  <2> QED BY <2>1, <2>2, <2>3, <2>4, SayS
<1>2. CASE ReceiveNonceR
  <2>1. UNCHANGED <<conf, typed>> BY <1>2 DEF ReceiveNonceR, BeforeFiles
  <2>2. ForR(wire["R"][1]) BY <1>2, HeadVouched DEF ReceiveNonceR, Next1
  <2>3. nonce' = [nonce EXCEPT !["R"] = Nonce]
    BY <1>2, <2>2 DEF ReceiveNonceR, Next1, ForR, Nonce
  <2>4. nonce'["R"] = Nonce /\ nonce'["S"] = nonce["S"] /\ nonce' = [t \in Side |-> nonce'[t]]
    BY <2>3 DEF IInv, Shape, Side
  <2>5. Steady BY <2>1, <2>4 DEF Steady, conf, Side
  <2>6. typed' \in [Side -> SUBSET Pin] BY <2>1 DEF IInv, Shape
  <2> DEFINE ms == <<RTCNonceMessage("R")>>
  <2>7. \A m \in Elems(ms) : ForS(m)'
    BY Sent DEF ForS, RTCNonceMessage
  <2>8. \E N : ms \in Seq(N) BY Sent
  <2>9. Do("R", 1, ms, {}, "token") BY <1>2 DEF ReceiveNonceR
  <2>10. ReceiverAt("token")' BY <2>4 DEF ReceiverAt
  <2> HIDE DEF ms
  <2> QED BY <2>4, <2>5, <2>6, <2>7, <2>8, <2>9, <2>10, TurnR
<1>3. CASE ReceiveNonceS
  <2>1. UNCHANGED <<conf, typed>> BY <1>3 DEF ReceiveNonceS, BeforeFiles
  <2>2. ForS(wire["S"][1]) BY <1>3, HeadVouched DEF ReceiveNonceS, Next1
  <2>3. nonce' = [nonce EXCEPT !["S"] = Nonce]
    BY <1>3, <2>2 DEF ReceiveNonceS, Next1, ForS, Nonce
  <2>4. nonce'["S"] = Nonce /\ nonce'["R"] = nonce["R"] /\ nonce' = [t \in Side |-> nonce'[t]]
    BY <2>3 DEF IInv, Shape, Side
  <2>5. Steady BY <2>1, <2>4 DEF Steady, conf, Side
  <2>6. typed' \in [Side -> SUBSET Pin] BY <2>1 DEF IInv, Shape
  <2> DEFINE ms == <<RTCTokenRequest(nonce'["S"])>>
  <2>7. \A m \in Elems(ms) : ForR(m)'
    <3>1. ForR(RTCTokenRequest(Nonce))' BY DEF ForR, RTCTokenRequest
    <3> QED BY <3>1, <2>4, Sent
  <2>8. \E N : ms \in Seq(N) BY Sent
  <2>9. Do("S", 1, ms, {}, "token") BY <1>3 DEF ReceiveNonceS
  <2>10. SenderAt("token")' BY <2>4 DEF SenderAt
  <2> HIDE DEF ms
  <2> QED BY <2>4, <2>5, <2>6, <2>7, <2>8, <2>9, <2>10, TurnS
<1> QED BY <1>1, <1>2, <1>3

(* A token that verifies is that of the expected key.                      *)
LEMMA VerifiedKey ==
  ASSUME NEW s \in Side, NEW n, VerifyToken(s, Token(Other(s), n))
  PROVE  KeyOk(s)
<1>1. CASE expecting[s] = NoKey BY <1>1 DEF KeyOk
<1>2. CASE VerifyTokenNonce(expecting[s], Token(Other(s), n), nonce[s])
  <2>1. Token(Other(s), n).hash = <<Other(s), n>> BY DEF Token
  <2>2. Token(Other(s), n).hash = <<expecting[s], Token(Other(s), n).salt>>
    BY <1>2 DEF VerifyTokenNonce
  <2>3. expecting[s] = Other(s) BY <2>1, <2>2
  <2> QED BY <2>3 DEF KeyOk
<1> QED BY <1>1, <1>2 DEF VerifyToken

LEMMA TokenStep ==
  ASSUME IInv, ReceiveToken \/ ReceiveTokenResponse
  PROVE  IInv'
<1>1. CASE ReceiveToken
  <2>1. UNCHANGED <<conf, nonce, typed>> BY <1>1 DEF ReceiveToken, BeforeFiles
  <2>2. wire["R"][1].v = Token("S", Nonce)
    BY <1>1, HeadVouched DEF ReceiveToken, Next1, ForR
  <2>3. nonce["R"] = Nonce BY <1>1 DEF ReceiveToken, IInv, Made, ReceiverAt
  <2>4. CASE ~VerifyToken("R", wire["R"][1].v)
    <3> DEFINE m == RTCTokenResponse("InvalidSignature", <<>>)
    <3>1. ForS(m) BY DEF ForS, RTCTokenResponse
    <3>2. Do("R", 1, <<m>>, {}, "failed") BY <1>1, <2>4 DEF ReceiveToken
    <3>3. ReceiverAt("failed") BY DEF ReceiverAt
    <3> HIDE DEF m
    <3> QED BY <2>1, <3>1, <3>2, <3>3, SayR
  <2>5. CASE VerifyToken("R", wire["R"][1].v)
    <3>1. KeyOk("R")
      <4>1. "R" \in Side /\ Other("R") = "S" BY DEF Side, Other
      <4> QED BY <2>2, <2>5, <4>1, VerifiedKey
    <3>2. CASE pin["R"] = NoPin
      <4> DEFINE m == RTCTokenResponse("Ok", nonce["R"])
      <4>1. PinOk("R") BY <3>2 DEF PinOk
      <4>2. ForS(m) BY <2>3, <4>1 DEF ForS, RTCTokenResponse
      <4>3. Do("R", 1, <<m>>, {}, "list") BY <1>1, <2>5, <3>2 DEF ReceiveToken
      <4>4. ReceiverAt("list") BY <2>3, <3>1, <4>1 DEF ReceiverAt
      <4> HIDE DEF m
      <4> QED BY <2>1, <4>2, <4>3, <4>4, SayR
    <3>3. CASE pin["R"] # NoPin
      <4> DEFINE m == RTCTokenResponse("PinRequired", nonce["R"])
      <4>1. ForS(m) BY <2>3 DEF ForS, RTCTokenResponse
      <4>2. Do("R", 1, <<m>>, {"PinRequired"}, "verify")
        BY <1>1, <2>5, <3>3 DEF ReceiveToken
      <4>3. ReceiverAt("verify") BY <2>3, <3>1 DEF ReceiverAt
      <4> HIDE DEF m
      <4> QED BY <2>1, <4>1, <4>2, <4>3, SayR
    <3> QED BY <3>2, <3>3
  <2> QED BY <2>4, <2>5
<1>2. CASE ReceiveTokenResponse
  <2> DEFINE res == wire["S"][1]
  <2>1. UNCHANGED <<conf, nonce, typed>> BY <1>2 DEF ReceiveTokenResponse, BeforeFiles
  <2>2. /\ res.v \in {Token("R", Nonce), Token("R", <<>>)}
        /\ res.st \notin {"PinRequired", "InvalidSignature"} => PinOk("R")
    BY <1>2, HeadVouched DEF ReceiveTokenResponse, Next1, ForS
  <2>3. nonce["S"] = Nonce BY <1>2 DEF ReceiveTokenResponse, IInv, Made, SenderAt
  <2>4. CASE res.st = "InvalidSignature" \/ ~VerifyToken("S", res.v)
    <3>1. Do("S", 1, <<>>, {}, "failed") BY <1>2, <2>4 DEF ReceiveTokenResponse
    <3>2. SenderAt("failed") BY DEF SenderAt
    <3> QED BY <2>1, <3>1, <3>2, QuietS
  <2>5. CASE res.st # "InvalidSignature" /\ VerifyToken("S", res.v)
    <3>1. KeyOk("S")
      <4>1. "S" \in Side /\ Other("S") = "R" BY DEF Side, Other
      <4> QED BY <2>2, <2>5, <4>1, VerifiedKey
    <3>2. CASE res.st = "PinRequired"
      <4>1. Do("S", 1, <<>>, {"PinRequired"}, "askpin")
        BY <1>2, <2>5, <3>2 DEF ReceiveTokenResponse
      <4>2. SenderAt("askpin") BY <2>3, <3>1 DEF SenderAt
      <4> QED BY <2>1, <4>1, <4>2, QuietS
    <3>3. CASE res.st # "PinRequired"
      <4>1. ChallengeOrList(1) BY <1>2, <2>5, <3>3 DEF ReceiveTokenResponse
      <4>2. PinOk("R") BY <2>2, <2>5, <3>3
      <4> QED BY <2>1, <2>3, <3>1, <4>1, <4>2, ChallengeOrListKeeps
    <3> QED BY <3>2, <3>3
  <2> QED BY <2>4, <2>5
<1> QED BY <1>1, <1>2

(* PIN challenges.                                                         *)
LEMMA TypedStep ==
  ASSUME IInv, NEW s \in Side, NEW p \in Pin, SendPin(s, p)
  PROVE  IInv'
<1> DEFINE ms == <<RTCPinMessage(p)>>
<1>1. UNCHANGED <<conf, nonce>> /\ typed' = [typed EXCEPT ![s] = @ \cup {p}]
  BY DEF SendPin, BeforeFiles
<1>2. /\ typed' \in [Side -> SUBSET Pin] /\ p \in typed'[s]
      /\ \A t \in Side : typed[t] \subseteq typed'[t]
  BY <1>1 DEF IInv, Shape
<1>3. Steady BY <1>1, <1>2 DEF Steady, conf
<1>4. nonce' = [t \in Side |-> nonce'[t]] BY <1>1 DEF IInv, Shape
<1>5. Do(s, 0, ms, {}, "pinwait") BY DEF SendPin
<1>6. \E N : ms \in Seq(N) BY Sent
<1>7. CASE s = "S"
  <2>1. ForR(RTCPinMessage(p))' BY <1>2, <1>7 DEF ForR, RTCPinMessage
  <2>2. \A m \in Elems(ms) : ForR(m)' BY <2>1, Sent
  <2>3. SenderAt("askpin") BY <1>7 DEF SendPin, IInv, Made
  <2>4. SenderAt("pinwait")' BY <2>3, <1>3, AtKept DEF SenderAt
  <2> HIDE DEF ms
  <2> QED BY <1>2, <1>3, <1>4, <1>5, <1>6, <1>7, <2>2, <2>4, TurnS
<1>8. CASE s = "R"
  <2>1. ForS(RTCPinMessage(p))' BY <1>2, <1>8 DEF ForS, RTCPinMessage
  <2>2. \A m \in Elems(ms) : ForS(m)' BY <2>1, Sent
  <2>3. ReceiverAt("askpin") BY <1>8 DEF SendPin, IInv, Made
  <2>4. ReceiverAt("pinwait")' BY <2>3, <1>3, AtKept DEF ReceiverAt
  <2> HIDE DEF ms
  <2> QED BY <1>2, <1>3, <1>4, <1>5, <1>6, <1>8, <2>2, <2>4, TurnR
<1> QED BY <1>7, <1>8 DEF Side

LEMMA VerifyStepS ==
  ASSUME IInv, VerifyPin("S")
  PROVE  IInv'
<1>1. UNCHANGED <<conf, nonce, typed>> BY DEF VerifyPin, BeforeFiles
<1>2. wire["S"][1].v \in typed["R"] BY HeadVouched DEF VerifyPin, Next1, ForS
<1>3. nonce["S"] = Nonce /\ KeyOk("S") /\ PinOk("R")
  BY DEF VerifyPin, IInv, Made, SenderAt
<1>4. CASE PinMatches("S", wire["S"][1].v)
  <2>1. PinOk("S") BY <1>2, <1>4 DEF PinMatches, PinOk, Other
  <2>2. Cleared BY <1>3, <2>1 DEF Cleared
  <2>3. SendList(1) BY <1>4 DEF VerifyPin
  <2> QED BY <1>1, <1>3, <2>2, <2>3, SendListKeeps
<1>5. CASE ~PinMatches("S", wire["S"][1].v)
  <2>1. PICK st \in {"TooManyAttempts", "PinRequired"}, sts \in SUBSET {"TooManyAttempts"},
             p \in {"failed", "verify"} : Do("S", 1, VerifyPinResult("S", st), sts, p)
    BY <1>5 DEF VerifyPin
  <2> DEFINE ms == VerifyPinResult("S", st)
  <2>2. ms = <<[t |-> "bin", v |-> [st |-> st]], Delimiter>>
    BY DEF VerifyPinResult, RTCPinSendingResponse, InChunks
  <2>3. \A m \in Elems(ms) : ForR(m)'
    <3>1. ForR([t |-> "bin", v |-> [st |-> st]])' BY DEF ForR
    <3>2. ForR(Delimiter)' BY DEF ForR, Delimiter
    <3> QED BY <2>2, <3>1, <3>2, Sent
  <2>4. \E N : ms \in Seq(N)
    BY Sent DEF VerifyPinResult, RTCPinSendingResponse, InChunks
  <2>5. SenderAt(p) BY <1>3 DEF SenderAt
  <2>6. SenderAt(p)' BY <1>1, <2>5, Calm, AtKept
  <2>7. Do("S", 1, ms, sts, p) BY <2>1
  <2>8. "Connected" \notin sts OBVIOUS
  <2> HIDE DEF ms
  <2> QED BY <1>1, <2>3, <2>4, <2>6, <2>7, <2>8, Calm, TurnS
<1> QED BY <1>4, <1>5

LEMMA VerifyStepR ==
  ASSUME IInv, VerifyPin("R")
  PROVE  IInv'
<1>1. UNCHANGED <<conf, nonce, typed>> BY DEF VerifyPin, BeforeFiles
<1>2. wire["R"][1].v \in typed["S"] BY HeadVouched DEF VerifyPin, Next1, ForR
<1>3. nonce["R"] = Nonce /\ KeyOk("R")
  BY DEF VerifyPin, IInv, Made, ReceiverAt
<1>4. CASE PinMatches("R", wire["R"][1].v)
  <2>1. PinOk("R") BY <1>2, <1>4 DEF PinMatches, PinOk, Other
  <2>2. ForS(RTCPinReceivingResponse("Ok")) BY <2>1 DEF ForS, RTCPinReceivingResponse
  <2>3. ReceiverAt("list") BY <1>3, <2>1 DEF ReceiverAt
  <2>4. Do("R", 1, <<RTCPinReceivingResponse("Ok")>>, {}, "list") BY <1>4 DEF VerifyPin
  <2> QED BY <1>1, <2>2, <2>3, <2>4, SayR
<1>5. CASE ~PinMatches("R", wire["R"][1].v)
  <2>1. PICK st \in {"TooManyAttempts", "PinRequired"}, sts \in SUBSET {"TooManyAttempts"},
             p \in {"failed", "verify"} : Do("R", 1, <<RTCPinReceivingResponse(st)>>, sts, p)
    BY <1>5 DEF VerifyPin, VerifyPinResult
  <2>2. ForS(RTCPinReceivingResponse(st)) BY DEF ForS, RTCPinReceivingResponse
  <2>3. ReceiverAt(p) BY <1>3 DEF ReceiverAt
  <2>4. "Connected" \notin sts OBVIOUS
  <2> QED BY <1>1, <2>1, <2>2, <2>3, <2>4, SayR
<1> QED BY <1>4, <1>5

LEMMA PinStep ==
  ASSUME IInv, PinResponseS \/ PinResponseR \/ (\E s \in Side : PinNotProvided(s))
  PROVE  IInv'
<1>1. CASE PinResponseS
  <2> DEFINE res == wire["S"][1].v
  <2>1. UNCHANGED <<conf, nonce, typed>> BY <1>1 DEF PinResponseS, BeforeFiles
  <2>2. nonce["S"] = Nonce /\ KeyOk("S") BY <1>1 DEF PinResponseS, IInv, Made, SenderAt
  <2>3. CASE res = "Ok"
    <3>1. PinOk("R") BY <1>1, <2>3, HeadVouched DEF PinResponseS, Next1, ForS
    <3>2. ChallengeOrList(1) BY <1>1, <2>3 DEF PinResponseS
    <3> QED BY <2>1, <2>2, <3>1, <3>2, ChallengeOrListKeeps
  <2>4. CASE res # "Ok"
    <3>1. PICK sts \in {{"PinRequired"}, {"TooManyAttempts"}}, p \in {"askpin", "failed"} :
               Do("S", 1, <<>>, sts, p)
      BY <1>1, <2>4 DEF PinResponseS
    <3>2. SenderAt(p) BY <2>2 DEF SenderAt
    <3>3. "Connected" \notin sts OBVIOUS
    <3> QED BY <2>1, <3>1, <3>2, <3>3, QuietS
  <2> QED BY <2>3, <2>4
<1>2. CASE PinResponseR
  <2> DEFINE res == wire["R"][1].v.st
  <2>1. UNCHANGED <<conf, nonce, typed>> BY <1>2 DEF PinResponseR, BeforeFiles
  <2>2. nonce["R"] = Nonce /\ KeyOk("R") /\ PinOk("R")
    BY <1>2 DEF PinResponseR, IInv, Made, ReceiverAt
  <2>3. CASE res \in {"PinRequired", "TooManyAttempts"}
    <3>1. PICK sts \in {{"PinRequired"}, {"Error"}, {"TooManyAttempts"}},
               p \in {"askpin", "failed"} : Do("R", 2, <<>>, sts, p)
      BY <1>2, <2>3 DEF PinResponseR
    <3>2. ReceiverAt(p) BY <2>2 DEF ReceiverAt
    <3>3. "Connected" \notin sts OBVIOUS
    <3> QED BY <2>1, <3>1, <3>2, <3>3, QuietR
  <2>4. CASE res \notin {"PinRequired", "TooManyAttempts"}
    <3>1. Cleared BY <1>2, <2>4, BodyVouched DEF PinResponseR, NextBody, ForR
    <3>2. (Cleared /\ KeyOk("R"))' /\ nonce'["R"] = Nonce
      BY <2>1, <2>2, <3>1, Calm, Kept DEF Side
    <3>3. Do("R", 2, <<>>, {"Connected"}, "selecting") BY <1>2, <2>4 DEF PinResponseR
    <3>4. ReceiverAt("selecting")' BY DEF ReceiverAt
    <3>5. \A m \in Elems(<<>>) : ForS(m)' BY Sent
    <3> QED BY <2>1, <3>2, <3>3, <3>4, <3>5, Calm, Sent, TurnR
  <2> QED BY <2>3, <2>4
<1>3. ASSUME NEW s \in Side, PinNotProvided(s) PROVE IInv'
  <2>1. UNCHANGED <<conf, nonce, typed>> /\ Do(s, 0, <<>>, {}, "failed")
    BY <1>3 DEF PinNotProvided, BeforeFiles
  <2>2. SenderAt("failed") /\ ReceiverAt("failed") BY DEF SenderAt, ReceiverAt
  <2>3. CASE s = "S" BY <2>1, <2>2, <2>3, QuietS
  <2>4. CASE s = "R" BY <2>1, <2>2, <2>4, QuietR
  <2> QED BY <2>3, <2>4 DEF Side
<1> QED BY <1>1, <1>2, <1>3


(* Selection and files.                                                    *)
LEMMA SelectionStep ==
  ASSUME IInv, (\E sel \in SUBSET Id : SendSelection(sel)) \/ Decline \/ DropSelection
  PROVE  IInv'
<1>1. UNCHANGED <<conf, nonce, typed>>
  BY DEF SendSelection, Decline, DropSelection, BeforeFiles
<1>2. ASSUME NEW body, NEW p \in {"receiving", "done"},
             Do("R", 0, RTCFileListResponse(body), {}, p)
      PROVE  IInv'
  <2> DEFINE ms == RTCFileListResponse(body)
  <2>1. \A m \in Elems(ms) : ForS(m)'
    BY Sent DEF RTCFileListResponse, InChunks, Delimiter, ForS
  <2>2. \E N : ms \in Seq(N) BY Sent DEF RTCFileListResponse, InChunks
  <2>3. ReceiverAt(p)' BY DEF ReceiverAt
  <2>4. Do("R", 0, ms, {}, p) BY <1>2
  <2> HIDE DEF ms
  <2> QED BY <1>1, <2>1, <2>2, <2>3, <2>4, Calm, TurnR
<1>3. ASSUME Do("R", 0, <<>>, {}, "done") PROVE IInv'
  <2>1. ReceiverAt("done") BY DEF ReceiverAt
  <2> QED BY <1>1, <1>3, <2>1, QuietR
<1> QED BY <1>2, <1>3 DEF SendSelection, Decline, DropSelection

LEMMA SendingStep ==
  ASSUME IInv, ReceiveSelection \/ SelectionNotPublished \/ (\E f \in Id : SendFile(f))
               \/ SendChunk \/ EndSending \/ Confirm
  PROVE  IInv'
<1>1. UNCHANGED <<conf, nonce, typed>>
  BY DEF ReceiveSelection, SelectionNotPublished, SendFile, SendChunk, EndSending, Confirm,
         BeforeFiles, Sending
<1>2. CASE ReceiveSelection \/ SelectionNotPublished \/ Confirm
  <2>1. SenderAt("sending") \/ Confirm
    BY <1>2 DEF ReceiveSelection, SelectionNotPublished, IInv, Made, SenderAt
  <2>2. PICK n \in {1, 2}, sts \in {{}, {"Declined"}, {"Error"}},
             p \in {"done", "sending", "failed"} :
             Do("S", n, <<>>, sts, p) /\ (Confirm => p # "sending")
    <3>1. CASE ReceiveSelection /\ pc["S"] = "list"
      <4>1. ~Confirm BY <3>1 DEF Confirm
      <4> QED BY <3>1, <4>1 DEF ReceiveSelection
    <3>2. CASE SelectionNotPublished BY <3>2 DEF SelectionNotPublished
    <3>3. CASE Confirm BY <3>3 DEF Confirm
    <3> QED BY <1>2, <3>1, <3>2, <3>3 DEF ReceiveSelection
  <2>3. SenderAt(p) BY <2>1, <2>2 DEF SenderAt
  <2>4. "Connected" \notin sts OBVIOUS
  <2> QED BY <1>1, <2>2, <2>3, <2>4, QuietS
<1>3. ASSUME NEW m, m.t = "bin" => Cleared, m.t \notin {"nonce", "token", "pin"},
             NEW p \in {"sending", "confirm"}, pc["S"] = "sending",
             Do("S", 0, <<m>>, {}, p)
      PROVE  IInv'
  <2>1. Cleared BY <1>3 DEF IInv, Made, SenderAt
  <2>2. ForR(m) /\ SenderAt(p) BY <1>3, <2>1 DEF ForR, SenderAt
  <2> QED BY <1>1, <1>3, <2>2, SayS
<1>4. ASSUME NEW f \in Id, SendFile(f) PROVE IInv'
  <2>1. CASE f \in file_map
    <3> DEFINE m == RTCSendFileHeaderRequest(f)
    <3>1. m.t = "header" BY DEF RTCSendFileHeaderRequest
    <3>2. pc["S"] = "sending" /\ Do("S", 0, <<m>>, {}, "sending") BY <1>4, <2>1 DEF SendFile
    <3> HIDE DEF m
    <3> QED BY <1>3, <3>1, <3>2
  <2>2. CASE f \notin file_map
    <3>1. UNCHANGED <<pc, wire, status>> BY <1>4, <2>2 DEF SendFile
    <3> QED BY <1>1, <3>1, Calm, Aside DEF IInv, Shape
  <2> QED BY <2>1, <2>2
<1>5. CASE SendChunk
  <2> DEFINE m == [t |-> "bin", v |-> <<cur, sent'[cur]>>]
  <2>1. m.t = "bin" OBVIOUS
  <2>2. pc["S"] = "sending" /\ Do("S", 0, <<m>>, {}, "sending") BY <1>5 DEF SendChunk
  <2>3. Cleared BY <2>2 DEF IInv, Made, SenderAt
  <2> HIDE DEF m
  <2> QED BY <1>3, <2>1, <2>2, <2>3
<1>6. CASE EndSending
  <2>1. Delimiter.t = "delim" BY DEF Delimiter
  <2>2. pc["S"] = "sending" /\ Do("S", 0, <<Delimiter>>, {}, "confirm")
    BY <1>6 DEF EndSending, AfterDelimiter
  <2> QED BY <1>3, <2>1, <2>2
<1> QED BY <1>2, <1>4, <1>5, <1>6

LEMMA ReceivingStep ==
  ASSUME IInv, EndOfFile \/ ReceiveHeader \/ HeaderUnparsable \/ ReceiveBinary
               \/ FileReceiverDropped \/ SendFileStatus
  PROVE  IInv'
<1>1. UNCHANGED <<conf, nonce, typed>>
  BY DEF EndOfFile, ReceiveHeader, HeaderUnparsable, ReceiveBinary, FileReceiverDropped,
         SendFileStatus, Receiving
<1>2. \A p \in {"receiving", "result", "failed", "done"} : ReceiverAt(p) BY DEF ReceiverAt
<1>3. CASE SendFileStatus
  <2>1. PICK p \in {"done", "receiving"} : Do("R", 0, <<RTCSendFileResponse(last)>>, {}, p)
    BY <1>3 DEF SendFileStatus
  <2>2. ForS(RTCSendFileResponse(last)) BY DEF ForS, RTCSendFileResponse
  <2> QED BY <1>1, <1>2, <2>1, <2>2, SayR
<1>4. CASE ~SendFileStatus
  <2>1. PICK p \in {"receiving", "result", "failed"} : Do("R", 1, <<>>, {}, p)
    BY <1>4 DEF EndOfFile, ReceiveHeader, HeaderUnparsable, ReceiveBinary, FileReceiverDropped
  <2> QED BY <1>1, <1>2, <2>1, QuietR
<1> QED BY <1>3, <1>4

(* The main parts, the network, and what changes nothing on the channel.   *)
LEMMA MainStep ==
  ASSUME IInv, NEW s \in Side, Main(s)
  PROVE  IInv'
<1>1. UNCHANGED <<conf, pc, nonce, typed>>
  BY DEF Main, TaskDone, TaskFailed, Disconnected, Close, SendOffer, GotAnswer, SendAnswer,
         SdpExchanged
<1>2. PICK t \in Side, st \in {{}, {"Finished"}, {"Error"}, {"SdpExchanged"}} :
        status' = [status EXCEPT ![t] = @ \cup st]
  <2>1. CASE UNCHANGED status
    <3>1. status' = [status EXCEPT ![s] = @ \cup {}] BY <2>1 DEF IInv, Shape
    <3> QED BY <3>1
  <2>2. CASE ~UNCHANGED status
    BY <2>2 DEF Main, TaskDone, TaskFailed, Disconnected, Close, SendOffer, GotAnswer,
       SendAnswer, SdpExchanged, Side
  <2> QED BY <2>1, <2>2
<1>3. /\ status' = [u \in Side |-> status'[u]]
      /\ \A u \in Side : "Connected" \in status'[u] => "Connected" \in status[u]
  BY <1>2 DEF IInv, Shape
<1>4. PICK M : wire \in [Side -> Seq(M)] BY DEF IInv, Shape
<1>5. wire' \in [Side -> Seq(M)] /\ \A u \in Side : Elems(wire'[u]) \subseteq Elems(wire[u])
  <2>1. CASE UNCHANGED wire BY <1>4, <2>1
  <2>2. CASE Close(s)
    <3> DEFINE o == Other(s)
    <3>1. PICK n \in 0..Len(wire[o]) : wire' = [wire EXCEPT ![o] = SubSeq(@, 1, n)]
      BY <2>2 DEF Close
    <3>2. o \in Side BY DEF Side, Other
    <3>3. wire[o] \in Seq(M) /\ Len(wire[o]) \in Nat BY <1>4, <3>2
    <3>4. n \in Nat /\ n <= Len(wire[o]) /\ 0 \in Nat BY <3>3
    <3>5. SubSeq(wire[o], 0 + 1, n) \in Seq(M) /\ Elems(SubSeq(wire[o], 0 + 1, n)) \subseteq Elems(wire[o])
      BY <3>3, <3>4, PartOf
    <3>6. SubSeq(wire[o], 1, n) \in Seq(M) /\ Elems(SubSeq(wire[o], 1, n)) \subseteq Elems(wire[o])
      BY <3>5
    <3>7. \A u \in Side : wire'[u] = IF u = o THEN SubSeq(wire[o], 1, n) ELSE wire[u]
      BY <1>4, <3>1
    <3> HIDE DEF o
    <3>8. wire' \in [Side -> Seq(M)] BY <1>4, <3>1, <3>6
    <3> QED BY <3>6, <3>7, <3>8
  <2> QED BY <2>1, <2>2 DEF Main, TaskDone, TaskFailed, Disconnected, SendOffer, GotAnswer,
             SendAnswer, SdpExchanged
<1> QED BY <1>1, <1>3, <1>5, Aside DEF conf

LEMMA NetworkStep ==
  ASSUME IInv, NetworkLost
  PROVE  IInv'
<1>1. UNCHANGED <<conf, pc, nonce, typed, status>> BY DEF NetworkLost
<1>2. PICK M : wire \in [Side -> Seq(M)] BY DEF IInv, Shape
<1>3. PICK n \in 0..Len(wire["S"]), m \in 0..Len(wire["R"]) :
        wire' = [s \in Side |-> SubSeq(wire[s], 1, IF s = "S" THEN n ELSE m)]
  BY DEF NetworkLost
<1>4. ASSUME NEW s \in Side
      PROVE  wire'[s] \in Seq(M) /\ Elems(wire'[s]) \subseteq Elems(wire[s])
  <2> DEFINE k == IF s = "S" THEN n ELSE m
  <2>1. wire[s] \in Seq(M) BY <1>2
  <2>2. Len(wire["S"]) \in Nat /\ Len(wire["R"]) \in Nat BY <1>2 DEF Side
  <2>3. k \in Nat /\ k <= Len(wire[s]) BY <2>2 DEF Side
  <2>4. wire'[s] = SubSeq(wire[s], 0 + 1, k) BY <1>3
  <2> HIDE DEF k
  <2>5. SubSeq(wire[s], 0 + 1, k) \in Seq(M) /\ Elems(SubSeq(wire[s], 0 + 1, k)) \subseteq Elems(wire[s])
    BY <2>1, <2>3, PartOf
  <2> QED BY <2>4, <2>5
<1>5. wire' \in [Side -> Seq(M)] BY <1>3, <1>4
<1>6. status' = [s \in Side |-> status'[s]] BY <1>1 DEF IInv, Shape
<1> QED BY <1>1, <1>4, <1>5, <1>6, Aside DEF conf

LEMMA StillStep ==
  ASSUME IInv, UNCHANGED <<conf, pc, nonce, typed, wire, status>>
  PROVE  IInv'
<1>1. \E M : wire' \in [Side -> Seq(M)] BY DEF IInv, Shape
<1>2. status' = [s \in Side |-> status'[s]] BY DEF IInv, Shape
<1> QED BY <1>1, <1>2, Aside DEF conf

LEMMA SendFailsStep ==
  ASSUME IInv, NEW s \in Side, SendFails(s)
  PROVE  IInv'
<1>1. UNCHANGED <<conf, nonce, typed>> /\ Do(s, 0, <<>>, {}, "failed") BY DEF SendFails
<1>2. SenderAt("failed") /\ ReceiverAt("failed") BY DEF SenderAt, ReceiverAt
<1>3. CASE s = "S" BY <1>1, <1>2, <1>3, QuietS
<1>4. CASE s = "R" BY <1>1, <1>2, <1>4, QuietR
<1> QED BY <1>3, <1>4 DEF Side

LEMMA NextIInv == IInv /\ [Next]_vars => IInv'
<1> SUFFICES ASSUME IInv, [Next]_vars PROVE IInv' OBVIOUS
<1>1. ASSUME NEW s \in Side, Task(s) PROVE IInv'
  BY <1>1, NonceStep, TokenStep, VerifyStepS, VerifyStepR, PinStep, SendingStep, ReceivingStep
  DEF Task, Side
<1>2. ASSUME NEW s \in Side, Main(s) PROVE IInv' BY <1>2, MainStep
<1>3. ASSUME NEW s \in Side, App(s) PROVE IInv'
  <2>1. CASE EndFile
    <3>1. UNCHANGED <<conf, pc, nonce, typed, wire, status>> BY <2>1 DEF EndFile, Sending
    <3> QED BY <3>1, StillStep
  <2> QED BY <1>3, <2>1, TypedStep, SendingStep, SelectionStep, ReceivingStep
      DEF App, SenderApp, ReceiverApp, Side
<1>4. ASSUME NEW s \in Side, SendFails(s) PROVE IInv' BY <1>4, SendFailsStep
<1>5. CASE AppMay
  <2>1. ASSUME NEW f \in Id, SendFileFails(f) PROVE IInv'
    <3>1. UNCHANGED <<conf, pc, nonce, typed, wire, status>> BY <2>1 DEF SendFileFails, Sending
    <3> QED BY <3>1, StillStep
  <2> QED BY <1>5, <2>1, SendingStep, PinStep, SelectionStep, ReceivingStep DEF AppMay
<1>6. CASE NetworkLost BY <1>6, NetworkStep
<1>7. CASE UNCHANGED vars
  <2>1. UNCHANGED <<conf, pc, nonce, typed, wire, status>> BY <1>7 DEF vars, conf
  <2> QED BY <2>1, StillStep
<1> QED BY <1>1, <1>2, <1>3, <1>4, <1>5, <1>6, <1>7 DEF Next

-----------------------------------------------------------------------------
(* No file list leaves the sender or is shown by the receiver before each  *)
(* user has typed the PIN that guards the other side (verify_pin and       *)
(* handle_pin of peer.rs), for any PINs and any number of tries.           *)
THEOREM PinsFirst == Spec => []PinGate
<1>1. IInv => PinGate
  BY DEF IInv, Made, Cleared, PinOk, PinGate, Side
<1> QED BY <1>1, InitIInv, NextIInv, PTL DEF Spec

(* A side that expects a public key lists files only with its owner, and   *)
(* once the receiver has listed both hold the same nonce                   *)
(* (verify_token_nonce as peer.rs uses it).                                *)
THEOREM KeysVerified == Spec => []Authenticated
<1>1. IInv => Authenticated
  BY DEF IInv, Made, Cleared, KeyOk, Authenticated, Side
<1> QED BY <1>1, InitIInv, NextIInv, PTL DEF Spec

-----------------------------------------------------------------------------
(* The two programs in step, and the stream of files between them.         *)

(* What is left on the way of one message, and of a string in chunks.      *)
None(w) == w = <<>>
One(w, t) == Len(w) <= 1 /\ (w # <<>> => w[1].t = t)
Body(w) == /\ Len(w) <= 2 /\ (w # <<>> => w[1].t = "bin")
           /\ Len(w) = 2 => w[2] = Delimiter

(* Where the two tasks can be together, and what can be on its way between *)
(* them: before the files the two take turns, so that one direction is     *)
(* always empty and the other holds at most the answer awaited there.      *)
Row(ps, pr, ws, wr, sel) ==
  \/ ps = "init" /\ pr = "init" /\ None(ws) /\ None(wr)
  \/ ps = "nonce" /\ pr = "init" /\ None(ws) /\ One(wr, "nonce")
  \/ ps = "nonce" /\ pr = "token" /\ One(ws, "nonce") /\ None(wr)
  \/ ps = "token" /\ pr = "token" /\ None(ws) /\ One(wr, "token")
  \/ /\ ps = "token" /\ pr \in {"verify", "list"} /\ One(ws, "tokenres") /\ None(wr)
     /\ ws # <<>> => \/ pr = "list" /\ ws[1].st = "Ok"
                     \/ pr = "verify" /\ ws[1].st \in {"PinRequired", "InvalidSignature"}
  \/ ps = "askpin" /\ pr = "verify" /\ None(ws) /\ None(wr)
  \/ ps = "pinwait" /\ pr = "verify" /\ None(ws) /\ One(wr, "pin")
  \/ /\ ps = "pinwait" /\ pr \in {"verify", "list"} /\ One(ws, "pinres") /\ None(wr)
     /\ ws # <<>> => (ws[1].v = "Ok" <=> pr = "list")
  \/ /\ ps = "verify" /\ pr \in {"list", "pinwait"} /\ None(ws) /\ Body(wr)
     /\ wr # <<>> => wr[1].v.st \in {"PinRequired", "TooManyAttempts"}
  \/ ps = "verify" /\ pr = "askpin" /\ None(ws) /\ None(wr)
  \/ ps = "verify" /\ pr = "pinwait" /\ One(ws, "pin") /\ None(wr)
  \/ /\ ps = "list" /\ pr \in {"list", "pinwait"} /\ None(ws) /\ Body(wr)
     /\ wr # <<>> => wr[1].v.st = "Ok"
  \/ ps = "list" /\ pr = "selecting" /\ None(ws) /\ None(wr)
  \/ /\ ps = "list" /\ pr \in {"receiving", "done"} /\ Body(ws) /\ None(wr)
     /\ ws # <<>> => ws[1].v = sel /\ sel # NoAnswer
  \/ /\ ps \in {"sending", "confirm", "done"} /\ pr \in {"receiving", "result", "done"}
     /\ \A i \in 1..Len(ws) : ws[i].t = "fileres"
     /\ pr = "done" /\ sel.st # "Ok" => ps = "done"

(* A task that has failed counts as being where it failed.                 *)
Talk == \E ps, pr \in Waiting \cup {"done"} :
          /\ pc["S"] \in {ps, "failed"} /\ pc["R"] \in {pr, "failed"}
          /\ Row(ps, pr, wire["S"], wire["R"], selected)

Early == pc["R"] \notin {"receiving", "result", "done", "failed"}
OnFiles == pc["R"] \in {"receiving", "result"}
Over == pc["S"] \in {"confirm", "done", "failed"}
Begun(f) == sent[f] # NotSent

(* How far into which file a message of the stream is.                     *)
Nowhere == [f |-> NoId, k |-> 0]
Place(m) == CASE m.t = "header" -> [f |-> m.v, k |-> 0]
              [] m.t = "bin" -> [f |-> m.v[1], k |-> m.v[2]]
              [] OTHER -> Nowhere
Front == IF pc["R"] = "result" THEN Place(msg)
         ELSE IF file_state = NoId THEN Nowhere
         ELSE [f |-> file_state, k |-> Len(got[file_state])]

(* m is a message of the stream: sn is sent, c is cur.                     *)
Item(m, sn) ==
  \/ m.t = "header" /\ m = RTCSendFileHeaderRequest(m.v) /\ m.v \in Id /\ sn[m.v] # NotSent
  \/ m.t = "bin" /\ \E f \in Id : sn[f] # NotSent /\ \E k \in 1..sn[f] : m.v = <<f, k>>
  \/ m = Delimiter
(* The file at place p is complete in the stream.                          *)
Closed(p, sn, c) == p.f # NoId => sn[p.f] = p.k /\ c # p.f
Follows(p, m, sn, c) ==
  p.f # NoId => IF m.t = "bin" THEN m.v = <<p.f, p.k + 1>> ELSE Closed(p, sn, c)
Prior(w, p, i) == IF i = 1 THEN p ELSE Place(w[i - 1])
Chain(w, p, sn, c) ==
  \A i \in 1..Len(w) : /\ Item(w[i], sn) /\ (w[i] = Delimiter => i = Len(w))
                       /\ Follows(Prior(w, p, i), w[i], sn, c)
(* The sender is at place p.                                               *)
Tip(p, sn, c) == p.f # NoId => sn[p.f] = p.k /\ c \in {NoId, p.f}
(* Each header once, and only of files in U.                               *)
Heads(w, U) ==
  /\ \A i \in 1..Len(w) : w[i].t = "header" => w[i].v \in U
  /\ \A i, j \in 1..Len(w) : w[i].t = "header" /\ w[j] = w[i] => i = j

Untouched(f) == got[f] = <<>> /\ f \notin ended /\ file_state # f
Unseen == {f \in Id : Untouched(f) /\ ~(pc["R"] = "result" /\ msg = RTCSendFileHeaderRequest(f))}

Stream == OnFiles =>
  /\ Chain(wire["R"], Front, sent, cur)
  /\ link = "open" => Tip(Prior(wire["R"], Front, Len(wire["R"]) + 1), sent, cur)
  /\ Heads(wire["R"], Unseen)
  /\ Delimiter \in Elems(wire["R"]) => Over

(* The string that ended a file: the delimiter, or the header of the next. *)
Result == pc["R"] = "result" =>
  /\ file_state = NoId /\ ended # {}
  /\ \/ msg = Delimiter /\ Over /\ wire["R"] = <<>>
     \/ \E f \in Id : msg = RTCSendFileHeaderRequest(f) /\ Begun(f) /\ Untouched(f)

(* What the receiver holds of each file.                                   *)
HeldOf(f) ==
  /\ ~Begun(f) => Untouched(f)
  /\ got[f] # <<>> => Len(got[f]) <= sent[f]
  /\ \A i \in 1..Len(got[f]) : got[f][i] = <<f, i>>
  /\ f \in ended => /\ Begun(f) /\ f \in selected.files \cap Offered
                    /\ cur # f /\ Len(got[f]) = sent[f] /\ file_state # f
Held ==
  /\ pc["S"] # "sending" => cur = NoId
  /\ cur # NoId => Begun(cur)
  /\ \A f \in Id : HeldOf(f)
  /\ Early => /\ file_state = NoId /\ ended = {} /\ errs["R"] = {} /\ selected = NoAnswer
              /\ \A f \in Id : got[f] = <<>>
  /\ OnFiles => selected.st = "Ok"
  /\ file_state # NoId => file_state \in selected.files \cap Offered
  /\ Early \/ pc["S"] \in Waiting \ {"sending", "confirm"} => \A f \in Id : ~Begun(f)

(* The files begun have reached the receiver or are on their way, as far   *)
(* as the delimiter has.                                                   *)
DelimTaken == (pc["R"] = "result" /\ msg = Delimiter) \/ (pc["R"] = "done" /\ selected.st = "Ok")
Known(f) ==
  \/ f \in ended \cup errs["R"]
  \/ pc["R"] = "receiving" /\ f = file_state
  \/ pc["R"] = "result" /\ msg = RTCSendFileHeaderRequest(f)
Accounts ==
  /\ OnFiles /\ (link = "open" \/ Delimiter \in Elems(wire["R"])) =>
       \A f \in Id : Begun(f) => Known(f) \/ RTCSendFileHeaderRequest(f) \in Elems(wire["R"])
  /\ DelimTaken => Over /\ \A f \in Id : Begun(f) => Known(f)
  /\ pc["R"] = "done" => wire["R"] = <<>>
  /\ pc["R"] = "receiving" /\ file_state = NoId /\ ended # {} => errs["R"] # {}

Learn ==
  /\ selected \in {NoAnswer, Declined} \/ selected.st = "Ok"
  /\ "Declined" \in status["S"] => selected = Declined
  /\ (\E m \in Elems(wire["S"]) : m.t = "fileres") => ended # {}
  /\ pc["S"] = "done" => ended # {} \/ selected = Declined

FTypes ==
  /\ pc \in [Side -> Waiting \cup {"done", "failed"}]
  /\ main = [s \in Side |-> main[s]] /\ errs = [s \in Side |-> errs[s]]
  /\ cur \in Id \cup {NoId} /\ sent \in [Id -> 0..NotSent]
  /\ file_state \in Id \cup {NoId} /\ ended \in SUBSET Id
  /\ got \in [Id -> Seq(Id \X Nat)]
  /\ main["S"] \in {"start", "offered"} => link = "new"
  /\ link = "new" => pc["S"] = "init"

FInv == Shape /\ FTypes /\ Talk /\ Stream /\ Result /\ Held /\ Accounts /\ Learn

-----------------------------------------------------------------------------
(* Turns of the two tasks before the files.                                *)

(* What Do leaves.                                                         *)
After(s, n, ms, sts, p) ==
  /\ pc'[s] = p /\ pc'[Other(s)] = pc[Other(s)]
  /\ status'[s] = status[s] \cup sts /\ status'[Other(s)] = status[Other(s)]
  /\ wire'[s] = SubSeq(wire[s], n + 1, Len(wire[s]))
  /\ \/ wire'[Other(s)] = wire[Other(s)] /\ link # "open"
     \/ wire'[Other(s)] = wire[Other(s)] \o ms /\ link = "open"

LEMMA DoAfter ==
  ASSUME Shape, NEW s \in Side, NEW n, NEW ms, NEW sts, NEW p, Do(s, n, ms, sts, p)
  PROVE  After(s, n, ms, sts, p)
<1>1. PICK M : wire \in [Side -> Seq(M)] BY DEF Shape
<1>2. Other(s) \in Side /\ Other(s) # s BY DEF Side, Other
<1> QED BY <1>1, <1>2 DEF Do, Shape, After

LEMMA DoWires ==
  ASSUME Shape, NEW s \in Side, NEW n, NEW ms, NEW sts, NEW p, Do(s, n, ms, sts, p)
  PROVE  /\ pc'[s] = p /\ pc'[Other(s)] = pc[Other(s)]
         /\ status'[s] = status[s] \cup sts /\ status'[Other(s)] = status[Other(s)]
         /\ wire'[s] = SubSeq(wire[s], n + 1, Len(wire[s]))
         /\ \/ wire'[Other(s)] = wire[Other(s)] /\ link # "open"
            \/ wire'[Other(s)] = wire[Other(s)] \o ms /\ link = "open"
BY DoAfter, Zenon DEF After

LEMMA WireSeq ==
  ASSUME Shape, NEW s \in Side
  PROVE  /\ Len(wire[s]) \in Nat /\ (wire[s] = <<>> <=> Len(wire[s]) = 0)
         /\ SubSeq(wire[s], 1, Len(wire[s])) = wire[s]
         /\ wire[s] \o <<>> = wire[s]
         /\ SubSeq(wire[s], Len(wire[s]) + 1, Len(wire[s])) = <<>>
<1>1. PICK M : wire \in [Side -> Seq(M)] BY DEF Shape
<1>2. PICK w \in Seq(M) : w = wire[s] BY <1>1
<1>3. Len(w) \in Nat /\ (w = <<>> <=> Len(w) = 0) OBVIOUS
<1>4. SubSeq(w, 1, Len(w)) = w OBVIOUS
<1>5. w \o <<>> = w OBVIOUS
<1>6. SubSeq(w, Len(w) + 1, Len(w)) = <<>> OBVIOUS
<1> QED BY <1>2, <1>3, <1>4, <1>5, <1>6

(* Side s takes all that is there for it and answers with one message or   *)
(* one body, nothing being on its way to the other side.                   *)
LEMMA TakeTurn ==
  ASSUME Shape, NEW s \in Side, NEW n, NEW ms, NEW sts, NEW p, Do(s, n, ms, sts, p),
         n = Len(wire[s]), wire[Other(s)] = <<>>, <<>> \o ms = ms
  PROVE  wire'[s] = <<>> /\ wire'[Other(s)] \in {<<>>, ms}
<1>1. /\ wire'[s] = SubSeq(wire[s], n + 1, Len(wire[s]))
      /\ \/ wire'[Other(s)] = wire[Other(s)] /\ link # "open"
         \/ wire'[Other(s)] = wire[Other(s)] \o ms /\ link = "open"
  <2>1. After(s, n, ms, sts, p) BY DoAfter, Zenon
  <2> QED BY <2>1, Zenon DEF After
<1>2. wire'[s] = <<>> BY <1>1, WireSeq, Zenon
<1> QED BY <1>1, <1>2, Zenon

(* What there is then for the other side.                                  *)
LEMMA Sents ==
  ASSUME NEW m, NEW b
  PROVE  /\ <<>> \o <<>> = <<>> /\ <<>> \o <<m>> = <<m>> /\ <<>> \o InChunks(b) = InChunks(b)
         /\ \A v \in {<<>>, <<m>>} : One(v, m.t) /\ (v # <<>> => v[1] = m)
         /\ \A v \in {<<>>, InChunks(b)} : Body(v) /\ (v # <<>> => v[1].v = b)
<1>1. <<>> \o <<>> = <<>> /\ <<>> \o <<m>> = <<m>> OBVIOUS
<1>2. <<>> \o InChunks(b) = InChunks(b) BY DEF InChunks
<1>3. Len(<<m>>) = 1 /\ <<m>>[1] = m /\ Len(<<>>) = 0 OBVIOUS
<1>4. \A v \in {<<>>, <<m>>} : One(v, m.t) /\ (v # <<>> => v[1] = m)
  <2>1. Len(<<>>) <= 1 /\ Len(<<m>>) <= 1 BY <1>3
  <2>2. One(<<>>, m.t) /\ One(<<m>>, m.t) BY <1>3, <2>1, Zenon DEF One
  <2> QED BY <1>3, <2>2, Zenon
<1>5. /\ Len(InChunks(b)) = 2 /\ InChunks(b)[1] = [t |-> "bin", v |-> b]
      /\ InChunks(b)[2] = Delimiter
  BY DEF InChunks
<1>6. \A v \in {<<>>, InChunks(b)} : Body(v) /\ (v # <<>> => v[1].v = b)
  <2>1. Len(<<>>) <= 2 /\ Len(InChunks(b)) <= 2 /\ Len(<<>>) # 2 BY <1>3, <1>5
  <2>2. InChunks(b)[1].t = "bin" /\ InChunks(b)[1].v = b BY <1>5
  <2>3. Body(<<>>) BY <2>1, Zenon DEF Body
  <2>4. Body(InChunks(b)) BY <1>5, <2>1, <2>2, Zenon DEF Body
  <2> QED BY <2>2, <2>3, <2>4, Zenon
<1> QED BY <1>1, <1>2, <1>4, <1>6

LEMMA RowOne ==
  ASSUME NEW m, NEW v \in {<<>>, <<m>>}, NEW sel
  PROVE  /\ m.t = "nonce" => Row("nonce", "init", <<>>, v, sel) /\ Row("nonce", "token", v, <<>>, sel)
         /\ m.t = "token" => Row("token", "token", <<>>, v, sel)
         /\ m.t = "pin" => Row("pinwait", "verify", <<>>, v, sel) /\ Row("verify", "pinwait", v, <<>>, sel)
<1>1. One(v, m.t) BY Sents, Zenon
<1>2. None(<<>>) BY Zenon DEF None
<1>3. m.t = "nonce" => Row("nonce", "init", <<>>, v, sel) BY <1>1, <1>2, Zenon DEF Row
<1>4. m.t = "nonce" => Row("nonce", "token", v, <<>>, sel) BY <1>1, <1>2, Zenon DEF Row
<1>5. m.t = "token" => Row("token", "token", <<>>, v, sel) BY <1>1, <1>2, Zenon DEF Row
<1>6. m.t = "pin" => Row("pinwait", "verify", <<>>, v, sel) BY <1>1, <1>2, Zenon DEF Row
<1>7. m.t = "pin" => Row("verify", "pinwait", v, <<>>, sel) BY <1>1, <1>2, Zenon DEF Row
<1> QED BY <1>3, <1>4, <1>5, <1>6, <1>7

(* Where Talk leads.                                                       *)
LEMMA TalkAt ==
  ASSUME NEW ps \in Waiting \cup {"done"}, NEW pr \in Waiting \cup {"done"},
         pc'["S"] \in {ps, "failed"}, pc'["R"] \in {pr, "failed"},
         Row(ps, pr, wire'["S"], wire'["R"], selected')
  PROVE  Talk'
<1>1. Row(ps, pr, wire["S"], wire["R"], selected)' BY DEF Row, None, One, Body, NoAnswer, Delimiter
<1> QED BY <1>1 DEF Talk

(* What the next message tells.                                            *)
LEMMA RowIs ==
  ASSUME NEW ps, NEW pr, NEW ws, NEW wr, NEW sel, Row(ps, pr, ws, wr, sel)
  PROVE  /\ ps = "init" => pr = "init" /\ ws = <<>> /\ wr = <<>>
         /\ pr = "init" /\ wr # <<>> => ps = "nonce" /\ ws = <<>> /\ One(wr, "nonce")
         /\ ps = "nonce" /\ ws # <<>> => pr = "token" /\ wr = <<>> /\ One(ws, "nonce")
         /\ pr = "token" /\ wr # <<>> => ps = "token" /\ ws = <<>> /\ One(wr, "token")
         /\ ps = "token" /\ ws # <<>> =>
              /\ wr = <<>> /\ One(ws, "tokenres")
              /\ \/ pr = "list" /\ ws[1].st = "Ok"
                 \/ pr = "verify" /\ ws[1].st \in {"PinRequired", "InvalidSignature"}
         /\ ps = "askpin" => pr = "verify" /\ ws = <<>> /\ wr = <<>>
         /\ pr = "askpin" => ps = "verify" /\ ws = <<>> /\ wr = <<>>
         /\ ps = "verify" /\ ws # <<>> => pr = "pinwait" /\ wr = <<>> /\ One(ws, "pin")
         /\ pr = "verify" /\ wr # <<>> => ps = "pinwait" /\ ws = <<>> /\ One(wr, "pin")
         /\ ps = "pinwait" /\ ws # <<>> =>
              /\ pr \in {"verify", "list"} /\ wr = <<>> /\ One(ws, "pinres")
              /\ ws[1].v = "Ok" <=> pr = "list"
         /\ pr \in {"list", "pinwait"} /\ wr # <<>> =>
              /\ ws = <<>> /\ Body(wr)
              /\ \/ ps = "verify" /\ wr[1].v.st \in {"PinRequired", "TooManyAttempts"}
                 \/ ps = "list" /\ wr[1].v.st = "Ok"
         /\ pr = "selecting" => ps = "list" /\ ws = <<>> /\ wr = <<>>
         /\ ps = "list" /\ ws # <<>> =>
              /\ pr \in {"receiving", "done"} /\ Body(ws) /\ wr = <<>>
              /\ ws[1].v = sel /\ sel # NoAnswer
         /\ ps \in {"sending", "confirm", "done"} =>
              /\ pr \in {"receiving", "result", "done"} /\ \A i \in 1..Len(ws) : ws[i].t = "fileres"
              /\ pr = "done" /\ sel.st # "Ok" => ps = "done"
         /\ pr \in {"receiving", "result", "done"} =>
              \/ ps \in {"sending", "confirm", "done"}
              \/ ps = "list" /\ pr # "result" /\ wr = <<>>
<1>1. ps = "init" => pr = "init" /\ ws = <<>> /\ wr = <<>>
  BY DEF Row, None
<1>2. pr = "init" /\ wr # <<>> => ps = "nonce" /\ ws = <<>> /\ One(wr, "nonce")
  BY DEF Row, None
<1>3. ps = "nonce" /\ ws # <<>> => pr = "token" /\ wr = <<>> /\ One(ws, "nonce")
  BY DEF Row, None
<1>4. pr = "token" /\ wr # <<>> => ps = "token" /\ ws = <<>> /\ One(wr, "token")
  BY DEF Row, None
<1>5. ps = "token" /\ ws # <<>> =>
        /\ wr = <<>> /\ One(ws, "tokenres")
        /\ \/ pr = "list" /\ ws[1].st = "Ok"
           \/ pr = "verify" /\ ws[1].st \in {"PinRequired", "InvalidSignature"}
  BY DEF Row, None
<1>6. ps = "askpin" => pr = "verify" /\ ws = <<>> /\ wr = <<>>
  BY DEF Row, None
<1>7. pr = "askpin" => ps = "verify" /\ ws = <<>> /\ wr = <<>>
  BY DEF Row, None
<1>8. ps = "verify" /\ ws # <<>> => pr = "pinwait" /\ wr = <<>> /\ One(ws, "pin")
  BY DEF Row, None
<1>9. pr = "verify" /\ wr # <<>> => ps = "pinwait" /\ ws = <<>> /\ One(wr, "pin")
  BY DEF Row, None
<1>10. ps = "pinwait" /\ ws # <<>> =>
        /\ pr \in {"verify", "list"} /\ wr = <<>> /\ One(ws, "pinres")
        /\ ws[1].v = "Ok" <=> pr = "list"
  BY DEF Row, None
<1>11. pr \in {"list", "pinwait"} /\ wr # <<>> =>
        /\ ws = <<>> /\ Body(wr)
        /\ \/ ps = "verify" /\ wr[1].v.st \in {"PinRequired", "TooManyAttempts"}
           \/ ps = "list" /\ wr[1].v.st = "Ok"
  BY DEF Row, None
<1>12. pr = "selecting" => ps = "list" /\ ws = <<>> /\ wr = <<>>
  BY DEF Row, None
<1>13. ps = "list" /\ ws # <<>> =>
        /\ pr \in {"receiving", "done"} /\ Body(ws) /\ wr = <<>>
        /\ ws[1].v = sel /\ sel # NoAnswer
  BY DEF Row, None
<1>14. ps \in {"sending", "confirm", "done"} =>
        /\ pr \in {"receiving", "result", "done"} /\ \A i \in 1..Len(ws) : ws[i].t = "fileres"
        /\ pr = "done" /\ sel.st # "Ok" => ps = "done"
  BY DEF Row, None
<1>15. pr \in {"receiving", "result", "done"} =>
        \/ ps \in {"sending", "confirm", "done"}
        \/ ps = "list" /\ pr # "result" /\ wr = <<>>
  BY DEF Row, None
<1> QED BY <1>1, <1>2, <1>3, <1>4, <1>5, <1>6, <1>7, <1>8, <1>9, <1>10, <1>11, <1>12, <1>13, <1>14, <1>15, Zenon

(* Losing the end of what is on its way leads nowhere else.                *)
Cut(v, w) == /\ Len(v) \in Nat /\ Len(v) <= Len(w) /\ (v = <<>> <=> Len(v) = 0)
             /\ \A i \in 1..Len(v) : v[i] = w[i]
LEMMA CutIs ==
  ASSUME NEW M, NEW w \in Seq(M), NEW n \in 0..Len(w)
  PROVE  Cut(SubSeq(w, 1, n), w) /\ Cut(w, w) /\ Cut(<<>>, w)
<1>1. Len(w) \in Nat /\ (w = <<>> <=> Len(w) = 0) OBVIOUS
<1>2. /\ Len(SubSeq(w, 1, n)) = n /\ SubSeq(w, 1, n) \in Seq(M)
      /\ \A i \in 1..n : SubSeq(w, 1, n)[i] = w[i]
  BY <1>1
<1>3. SubSeq(w, 1, n) = <<>> <=> Len(SubSeq(w, 1, n)) = 0 BY <1>2
<1>4. Len(<<>>) = 0 OBVIOUS
<1>5. Cut(SubSeq(w, 1, n), w) BY <1>1, <1>2, <1>3 DEF Cut
<1> QED BY <1>1, <1>4, <1>5 DEF Cut

LEMMA RowCut ==
  ASSUME NEW ps, NEW pr, NEW ws, NEW wr, NEW sel, Row(ps, pr, ws, wr, sel),
         NEW vs, NEW vr, Cut(vs, ws), Cut(vr, wr), Len(ws) \in Nat, Len(wr) \in Nat
  PROVE  Row(ps, pr, vs, vr, sel)
<1>1. ASSUME NEW v, NEW w, Cut(v, w), Len(w) \in Nat
      PROVE  /\ None(w) => None(v)
             /\ \A t : One(w, t) => One(v, t)
             /\ Body(w) => Body(v)
             /\ v # <<>> => w # <<>> /\ v[1] = w[1]
  <2>0. Len(<<>>) = 0 OBVIOUS
  <2>1. Len(v) \in Nat /\ Len(v) <= Len(w) /\ (v = <<>> <=> Len(v) = 0)
        /\ \A i \in 1..Len(v) : v[i] = w[i]
    BY <1>1 DEF Cut
  <2>2. None(w) => None(v) BY <1>1, <2>0, <2>1 DEF None
  <2>3. v # <<>> => w # <<>> /\ v[1] = w[1] BY <1>1, <2>0, <2>1
  <2>4. ASSUME NEW t, One(w, t) PROVE One(v, t) BY <1>1, <2>1, <2>3, <2>4 DEF One
  <2>5. Body(w) => Body(v)
    <3>1. Len(v) = 2 /\ Len(w) <= 2 => Len(w) = 2 /\ v[2] = w[2]
      <4>1. \A k, j \in Nat : k <= j /\ k = 2 /\ j <= 2 => j = 2 OBVIOUS
      <4>2. 2 \in 1..2 OBVIOUS
      <4> QED BY <1>1, <2>1, <4>1, <4>2, Zenon
    <3>2. Len(w) <= 2 => Len(v) <= 2 BY <1>1, <2>1
    <3> QED BY <2>3, <3>1, <3>2 DEF Body
  <2> QED BY <2>2, <2>3, <2>4, <2>5
<1>2. \A i \in 1..Len(vs) : i \in 1..Len(ws) /\ vs[i] = ws[i] BY DEF Cut
<1> QED BY <1>1, <1>2 DEF Row

LEMMA OneIs ==
  ASSUME Shape, NEW s \in Side, wire[s] # <<>>, NEW t, One(wire[s], t)
  PROVE  Len(wire[s]) = 1 /\ wire[s][1].t = t
<1>1. Len(wire[s]) \in Nat /\ Len(wire[s]) # 0 BY WireSeq
<1>2. Len(wire[s]) <= 1 /\ wire[s][1].t = t BY Zenon DEF One
<1>3. \A k \in Nat : k # 0 /\ k <= 1 => k = 1 OBVIOUS
<1> QED BY <1>1, <1>2, <1>3, Zenon

LEMMA Sides == "S" \in Side /\ "R" \in Side /\ Other("S") = "R" /\ Other("R") = "S"
BY DEF Side, Other

(* What Do does, side by side.                                             *)
LEMMA DoS ==
  ASSUME Shape, NEW n, NEW ms, NEW sts, NEW p, Do("S", n, ms, sts, p)
  PROVE  /\ pc'["S"] = p /\ pc'["R"] = pc["R"]
         /\ status'["S"] = status["S"] \cup sts /\ status'["R"] = status["R"]
         /\ wire'["S"] = SubSeq(wire["S"], n + 1, Len(wire["S"]))
         /\ link = "open" => wire'["R"] = wire["R"] \o ms
         /\ link # "open" => wire'["R"] = wire["R"]
<1>1. PICK M : wire \in [Side -> Seq(M)] BY DEF Shape
<1> QED BY <1>1, Sides DEF Do, Shape, Side

LEMMA DoR ==
  ASSUME Shape, NEW n, NEW ms, NEW sts, NEW p, Do("R", n, ms, sts, p)
  PROVE  /\ pc'["R"] = p /\ pc'["S"] = pc["S"]
         /\ status'["R"] = status["R"] \cup sts /\ status'["S"] = status["S"]
         /\ wire'["R"] = SubSeq(wire["R"], n + 1, Len(wire["R"]))
         /\ link = "open" => wire'["S"] = wire["S"] \o ms
         /\ link # "open" => wire'["S"] = wire["S"]
<1>1. PICK M : wire \in [Side -> Seq(M)] BY DEF Shape
<1> QED BY <1>1, Sides DEF Do, Shape, Side

LEMMA BodyIs ==
  ASSUME Shape, NEW s \in Side, NextBody(s), Body(wire[s])
  PROVE  Len(wire[s]) = 2 /\ wire[s] # <<>>
<1>1. Len(wire[s]) \in Nat /\ (wire[s] = <<>> <=> Len(wire[s]) = 0) BY WireSeq
<1>2. Len(wire[s]) <= 2 /\ Len(wire[s]) >= 2 BY DEF Body, NextBody
<1>3. \A k \in Nat : k <= 2 /\ k >= 2 => k = 2 /\ k # 0 OBVIOUS
<1> QED BY <1>1, <1>2, <1>3, Zenon

(* Where both directions are empty.                                        *)
LEMMA RowEmpty ==
  ASSUME Shape, NEW ps, NEW pr, NEW sel, Row(ps, pr, wire["S"], wire["R"], sel)
  PROVE  Row(ps, pr, <<>>, <<>>, sel)
<1>1. PICK M : wire \in [Side -> Seq(M)] BY DEF Shape
<1>2. wire["S"] \in Seq(M) /\ wire["R"] \in Seq(M) BY <1>1, Sides
<1>3. Len(wire["S"]) \in Nat /\ Len(wire["R"]) \in Nat BY Sides, WireSeq
<1>4. 0 \in 0..Len(wire["S"]) /\ 0 \in 0..Len(wire["R"]) BY <1>3
<1>5. Cut(<<>>, wire["S"]) /\ Cut(<<>>, wire["R"]) BY <1>2, <1>4, CutIs, Zenon
<1> QED BY <1>3, <1>5, RowCut, Zenon

(* One side takes all that is there and answers, the other being still.    *)
LEMMA SpeakS ==
  ASSUME Shape, NEW n, NEW ms, NEW sts, NEW p, Do("S", n, ms, sts, p),
         n = Len(wire["S"]), wire["R"] = <<>>, <<>> \o ms = ms,
         NEW ps \in Waiting \cup {"done"}, NEW pr \in Waiting \cup {"done"},
         p \in {ps, "failed"}, pc["R"] \in {pr, "failed"},
         \A v \in {<<>>, ms} : Row(ps, pr, <<>>, v, selected')
  PROVE  Talk'
<1>1. wire'["S"] = <<>> /\ wire'["R"] \in {<<>>, ms} BY Sides, TakeTurn, Zenon
<1>2. pc'["S"] = p /\ pc'["R"] = pc["R"] BY Sides, DoWires
<1>3. Row(ps, pr, wire'["S"], wire'["R"], selected') BY <1>1, Zenon
<1> QED BY <1>2, <1>3, TalkAt, Zenon

LEMMA SpeakR ==
  ASSUME Shape, NEW n, NEW ms, NEW sts, NEW p, Do("R", n, ms, sts, p),
         n = Len(wire["R"]), wire["S"] = <<>>, <<>> \o ms = ms,
         NEW ps \in Waiting \cup {"done"}, NEW pr \in Waiting \cup {"done"},
         p \in {pr, "failed"}, pc["S"] \in {ps, "failed"},
         \A v \in {<<>>, ms} : Row(ps, pr, v, <<>>, selected')
  PROVE  Talk'
<1>1. wire'["R"] = <<>> /\ wire'["S"] \in {<<>>, ms} BY Sides, TakeTurn, Zenon
<1>2. pc'["R"] = p /\ pc'["S"] = pc["S"] BY Sides, DoWires
<1>3. Row(ps, pr, wire'["S"], wire'["R"], selected') BY <1>1, Zenon
<1> QED BY <1>2, <1>3, TalkAt, Zenon

LEMMA TalkNonce ==
  ASSUME Shape, Talk, DataChannelOpens \/ ReceiveNonceR \/ ReceiveNonceS
  PROVE  Talk'
<1>0. PICK ps, pr \in Waiting \cup {"done"} :
        /\ pc["S"] \in {ps, "failed"} /\ pc["R"] \in {pr, "failed"}
        /\ Row(ps, pr, wire["S"], wire["R"], selected)
  BY DEF Talk
<1>w. wire["S"] = <<>> => Len(wire["S"]) = 0 BY Sides, WireSeq
<1>t. {"nonce", "token", "init"} \subseteq Waiting \cup {"done"} BY DEF Waiting
<1>1. CASE DataChannelOpens
  <2>1. PICK m : m = RTCNonceMessage("S") OBVIOUS
  <2>2. Do("S", 0, <<m>>, {}, "nonce") /\ pc["S"] = "init" BY <1>1, <2>1 DEF DataChannelOpens
  <2>3. pr = "init" /\ wire["S"] = <<>> /\ wire["R"] = <<>> BY <1>0, <2>2, RowIs
  <2>4. m.t = "nonce" BY <2>1 DEF RTCNonceMessage
  <2>5. \A v \in {<<>>, <<m>>} : Row("nonce", "init", <<>>, v, selected')
    BY <2>4, RowOne, Zenon
  <2>6. <<>> \o <<m>> = <<m>> BY Sents, Zenon
  <2> QED BY <1>0, <1>w, <1>t, <2>2, <2>3, <2>5, <2>6, SpeakS
<1>2. CASE ReceiveNonceR
  <2>1. PICK m : m = RTCNonceMessage("R") OBVIOUS
  <2>2. Do("R", 1, <<m>>, {}, "token") /\ pc["R"] = "init" /\ wire["R"] # <<>>
    BY <1>2, <2>1 DEF ReceiveNonceR, Next1
  <2>3. ps = "nonce" /\ wire["S"] = <<>> /\ One(wire["R"], "nonce") BY <1>0, <2>2, RowIs
  <2>4. m.t = "nonce" BY <2>1 DEF RTCNonceMessage
  <2>5. \A v \in {<<>>, <<m>>} : Row("nonce", "token", v, <<>>, selected')
    BY <2>4, RowOne, Zenon
  <2>6. <<>> \o <<m>> = <<m>> /\ Len(wire["R"]) = 1 BY <2>2, <2>3, Sides, OneIs, Sents, Zenon
  <2> QED BY <1>0, <1>t, <2>2, <2>3, <2>5, <2>6, SpeakR
<1>3. CASE ReceiveNonceS
  <2>1. PICK m : m = RTCTokenRequest(nonce'["S"]) OBVIOUS
  <2>2. Do("S", 1, <<m>>, {}, "token") /\ pc["S"] = "nonce" /\ wire["S"] # <<>>
    BY <1>3, <2>1 DEF ReceiveNonceS, Next1
  <2>3. pr = "token" /\ wire["R"] = <<>> /\ One(wire["S"], "nonce") BY <1>0, <2>2, RowIs
  <2>4. m.t = "token" BY <2>1 DEF RTCTokenRequest
  <2>5. \A v \in {<<>>, <<m>>} : Row("token", "token", <<>>, v, selected')
    BY <2>4, RowOne, Zenon
  <2>6. <<>> \o <<m>> = <<m>> /\ Len(wire["S"]) = 1 BY <2>2, <2>3, Sides, OneIs, Sents, Zenon
  <2> QED BY <1>0, <1>t, <2>2, <2>3, <2>5, <2>6, SpeakS
<1> QED BY <1>1, <1>2, <1>3

(* Nothing is sent.                                                        *)
LEMMA DoQuiet ==
  ASSUME Shape, NEW s \in Side, NEW n, NEW sts, NEW p, Do(s, n, <<>>, sts, p)
  PROVE  /\ pc'[s] = p /\ pc'[Other(s)] = pc[Other(s)]
         /\ wire'[s] = SubSeq(wire[s], n + 1, Len(wire[s])) /\ wire'[Other(s)] = wire[Other(s)]
<1>1. Other(s) \in Side BY DEF Side, Other
<1>2. wire[Other(s)] \o <<>> = wire[Other(s)] BY <1>1, WireSeq, Zenon
<1>3. PICK ms : ms = <<>> OBVIOUS
<1>4. Do(s, n, ms, sts, p) BY <1>3
<1>5. /\ pc'[s] = p /\ pc'[Other(s)] = pc[Other(s)]
      /\ wire'[s] = SubSeq(wire[s], n + 1, Len(wire[s]))
      /\ wire'[Other(s)] = wire[Other(s)] \/ wire'[Other(s)] = wire[Other(s)] \o ms
  BY <1>4, DoWires
<1> QED BY <1>2, <1>3, <1>5, Zenon

(* A task fails or goes on where it is, or the end of what is on its way   *)
(* is lost.                                                                *)
LEMMA TalkCut ==
  ASSUME Shape, Talk, pc'["S"] \in {pc["S"], "failed"}, pc'["R"] \in {pc["R"], "failed"},
         Cut(wire'["S"], wire["S"]), Cut(wire'["R"], wire["R"]), UNCHANGED selected
  PROVE  Talk'
<1>0. PICK ps, pr \in Waiting \cup {"done"} :
        /\ pc["S"] \in {ps, "failed"} /\ pc["R"] \in {pr, "failed"}
        /\ Row(ps, pr, wire["S"], wire["R"], selected)
  BY DEF Talk
<1>1. Len(wire["S"]) \in Nat /\ Len(wire["R"]) \in Nat BY Sides, WireSeq
<1>2. Row(ps, pr, wire'["S"], wire'["R"], selected) BY <1>0, <1>1, RowCut, Zenon
<1>3. Row(ps, pr, wire'["S"], wire'["R"], selected') BY <1>2
<1> QED BY <1>0, <1>3, TalkAt

LEMMA CutWire ==
  ASSUME Shape, NEW s \in Side
  PROVE  /\ Cut(wire[s], wire[s]) /\ Cut(<<>>, wire[s])
         /\ \A n \in 0..Len(wire[s]) : Cut(SubSeq(wire[s], 1, n), wire[s])
<1>1. PICK M : wire \in [Side -> Seq(M)] BY DEF Shape
<1>2. wire[s] \in Seq(M) BY <1>1
<1>3. Len(wire[s]) \in Nat BY WireSeq
<1>4. 0 \in 0..Len(wire[s]) BY <1>3
<1> QED BY <1>2, <1>4, CutIs, Zenon

LEMMA TalkFails ==
  ASSUME Shape, Talk, NEW s \in Side, NEW n, NEW sts, Do(s, n, <<>>, sts, "failed"),
         n = 0 \/ n = Len(wire[s]), UNCHANGED selected
  PROVE  Talk'
<1>1. /\ pc'[s] = "failed" /\ pc'[Other(s)] = pc[Other(s)]
      /\ wire'[s] = SubSeq(wire[s], n + 1, Len(wire[s])) /\ wire'[Other(s)] = wire[Other(s)]
  BY DoQuiet, Zenon
<1>2. wire'[s] \in {wire[s], <<>>}
  <2>1. CASE n = 0
    <3>1. n + 1 = 1 BY <2>1
    <3> QED BY <1>1, <3>1, WireSeq
  <2>2. CASE n = Len(wire[s]) BY <1>1, <2>2, WireSeq
  <2> QED BY <2>1, <2>2
<1>3. Cut(wire'[s], wire[s]) /\ Cut(wire'[Other(s)], wire[Other(s)])
  BY <1>1, <1>2, CutWire DEF Side, Other
<1> QED BY <1>1, <1>3, Sides, TalkCut DEF Side

LEMMA TalkLost ==
  ASSUME Shape, Talk, UNCHANGED <<pc, selected>>,
         \/ UNCHANGED wire
         \/ \E s \in Side : \E n \in 0..Len(wire[s]) : wire' = [wire EXCEPT ![s] = SubSeq(@, 1, n)]
         \/ \E n \in 0..Len(wire["S"]), m \in 0..Len(wire["R"]) :
              wire' = [s \in Side |-> SubSeq(wire[s], 1, IF s = "S" THEN n ELSE m)]
  PROVE  Talk'
<1>1. PICK M : wire \in [Side -> Seq(M)] BY DEF Shape
<1>2. ASSUME NEW s \in Side, NEW n \in 0..Len(wire[s]), wire' = [wire EXCEPT ![s] = SubSeq(@, 1, n)]
      PROVE  Cut(wire'["S"], wire["S"]) /\ Cut(wire'["R"], wire["R"])
  <2>1. wire'[s] = SubSeq(wire[s], 1, n) /\ \A t \in Side : t # s => wire'[t] = wire[t]
    BY <1>1, <1>2
  <2>2. \A t \in Side : Cut(wire'[t], wire[t]) BY <2>1, <1>2, CutWire
  <2> QED BY <2>2, Sides
<1>3. ASSUME NEW n \in 0..Len(wire["S"]), NEW m \in 0..Len(wire["R"]),
             wire' = [s \in Side |-> SubSeq(wire[s], 1, IF s = "S" THEN n ELSE m)]
      PROVE  Cut(wire'["S"], wire["S"]) /\ Cut(wire'["R"], wire["R"])
  <2>1. wire'["S"] = SubSeq(wire["S"], 1, n) /\ wire'["R"] = SubSeq(wire["R"], 1, m) BY <1>3, Sides
  <2> QED BY <2>1, Sides, CutWire
<1>4. UNCHANGED wire => Cut(wire'["S"], wire["S"]) /\ Cut(wire'["R"], wire["R"])
  BY Sides, CutWire
<1>5. Cut(wire'["S"], wire["S"]) /\ Cut(wire'["R"], wire["R"]) BY <1>2, <1>3, <1>4
<1> QED BY <1>5, TalkCut

LEMMA HearS ==
  ASSUME Shape, NEW n, NEW sts, NEW p \in Waiting \cup {"done"}, Do("S", n, <<>>, sts, p),
         n = Len(wire["S"]), wire["R"] = <<>>,
         NEW pr \in Waiting \cup {"done"}, pc["R"] \in {pr, "failed"},
         Row(p, pr, <<>>, <<>>, selected')
  PROVE  Talk'
<1>0. PICK ms : ms = <<>> OBVIOUS
<1>1. /\ pc'["S"] = p /\ pc'["R"] = pc["R"]
      /\ wire'["S"] = SubSeq(wire["S"], n + 1, Len(wire["S"])) /\ wire'["R"] = wire["R"]
  <2>1. Do("S", n, ms, sts, p) BY <1>0
  <2>2. /\ pc'["S"] = p /\ pc'["R"] = pc["R"] /\ wire'["S"] = SubSeq(wire["S"], n + 1, Len(wire["S"]))
        /\ wire'["R"] = wire["R"] \/ wire'["R"] = wire["R"] \o ms
    <3>1. After("S", n, ms, sts, p) BY <2>1, Sides, DoAfter, Zenon
    <3> QED BY <3>1, Sides, Zenon DEF After
  <2>3. wire["R"] \o <<>> = wire["R"] BY Sides, WireSeq
  <2> QED BY <1>0, <2>2, <2>3, Zenon
<1>2. wire'["S"] = <<>> /\ wire'["R"] = <<>> BY <1>1, Sides, WireSeq
<1>3. Row(p, pr, wire'["S"], wire'["R"], selected') BY <1>2, Zenon
<1> QED BY <1>1, <1>3, TalkAt

(* The sender's challenge or its file list, the receiver being past its    *)
(* own challenge.                                                          *)
LEMMA TalkList ==
  ASSUME Shape, NEW n, n = Len(wire["S"]), wire["R"] = <<>>, UNCHANGED selected,
         NEW pr \in {"list", "pinwait"}, pc["R"] \in {pr, "failed"},
         SendList(n) \/ (pr = "list" /\ ChallengeOrList(n))
  PROVE  Talk'
<1>t. {"list", "pinwait", "verify"} \subseteq Waiting \cup {"done"} BY DEF Waiting
<1>1. CASE SendList(n)
  <2>1. PICK b : b = [st |-> "Ok", files |-> Offered] OBVIOUS
  <2>2. PICK ms : ms = InChunks(b) OBVIOUS
  <2>3. Do("S", n, ms, {"Connected"}, "list")
    BY <1>1, <2>1, <2>2 DEF SendList, RTCPinSendingResponse
  <2>4. b.st = "Ok" BY <2>1
  <2>5. <<>> \o ms = ms /\ \A v \in {<<>>, ms} : Body(v) /\ (v # <<>> => v[1].v = b)
    BY <2>2, Sents, Zenon
  <2>6. \A v \in {<<>>, ms} : Row("list", pr, <<>>, v, selected') BY <2>4, <2>5 DEF Row, None
  <2> QED BY <1>t, <2>3, <2>5, <2>6, SpeakS
<1>2. CASE pr = "list" /\ ChallengeOrList(n) /\ ~SendList(n)
  <2>1. PICK b : b = [st |-> "PinRequired"] OBVIOUS
  <2>2. PICK ms : ms = InChunks(b) OBVIOUS
  <2>3. Do("S", n, ms, {"PinRequired"}, "verify")
    BY <1>2, <2>1, <2>2 DEF ChallengeOrList, RTCPinSendingResponse
  <2>4. b.st = "PinRequired" BY <2>1
  <2>5. <<>> \o ms = ms /\ \A v \in {<<>>, ms} : Body(v) /\ (v # <<>> => v[1].v = b)
    BY <2>2, Sents, Zenon
  <2>6. \A v \in {<<>>, ms} : Row("verify", pr, <<>>, v, selected') BY <2>4, <2>5 DEF Row, None
  <2> QED BY <1>t, <2>3, <2>5, <2>6, SpeakS
<1> QED BY <1>1, <1>2

LEMMA TalkToken ==
  ASSUME Shape, Talk, ReceiveToken \/ ReceiveTokenResponse
  PROVE  Talk'
<1>0. PICK ps, pr \in Waiting \cup {"done"} :
        /\ pc["S"] \in {ps, "failed"} /\ pc["R"] \in {pr, "failed"}
        /\ Row(ps, pr, wire["S"], wire["R"], selected)
  BY DEF Talk
<1>t. {"token", "list", "verify", "askpin"} \subseteq Waiting \cup {"done"} BY DEF Waiting
<1>1. CASE ReceiveToken
  <2>1. pc["R"] = "token" /\ wire["R"] # <<>> BY <1>1 DEF ReceiveToken, Next1
  <2>2. ps = "token" /\ wire["S"] = <<>> /\ One(wire["R"], "token") BY <1>0, <2>1, RowIs
  <2>3. Len(wire["R"]) = 1 BY <2>1, <2>2, Sides, OneIs, Zenon
  <2>4. ASSUME NEW st, NEW n, NEW sts, NEW p, NEW q \in {"verify", "list"}, p \in {q, "failed"},
               Do("R", 1, <<RTCTokenResponse(st, n)>>, sts, p),
               (st = "Ok" /\ q = "list") \/ (st \in {"PinRequired", "InvalidSignature"} /\ q = "verify")
        PROVE  Talk'
    <3>1. PICK m : m = RTCTokenResponse(st, n) OBVIOUS
    <3>2. m.t = "tokenres" /\ m.st = st BY <3>1 DEF RTCTokenResponse
    <3>3. <<>> \o <<m>> = <<m>> /\ \A v \in {<<>>, <<m>>} : One(v, "tokenres") /\ (v # <<>> => v[1] = m)
      BY <3>2, Sents
    <3>4. \A v \in {<<>>, <<m>>} : Row("token", q, v, <<>>, selected')
      BY <2>4, <3>2, <3>3 DEF Row, None
    <3>5. Do("R", 1, <<m>>, sts, p) BY <2>4, <3>1
    <3>6. q \in Waiting \cup {"done"} BY <1>t
    <3> QED BY <1>0, <1>t, <2>2, <2>3, <2>4, <3>3, <3>4, <3>5, <3>6, SpeakR
  <2>5. \/ Do("R", 1, <<RTCTokenResponse("InvalidSignature", <<>>)>>, {}, "failed")
        \/ Do("R", 1, <<RTCTokenResponse("Ok", nonce["R"])>>, {}, "list")
        \/ Do("R", 1, <<RTCTokenResponse("PinRequired", nonce["R"])>>, {"PinRequired"}, "verify")
    BY <1>1 DEF ReceiveToken
  <2> QED BY <2>4, <2>5, Zenon
<1>2. CASE ReceiveTokenResponse
  <2>1. pc["S"] = "token" /\ wire["S"] # <<>> /\ UNCHANGED selected
    BY <1>2 DEF ReceiveTokenResponse, Next1, BeforeFiles
  <2>2. /\ wire["R"] = <<>> /\ One(wire["S"], "tokenres")
        /\ \/ pr = "list" /\ wire["S"][1].st = "Ok"
           \/ pr = "verify" /\ wire["S"][1].st \in {"PinRequired", "InvalidSignature"}
    BY <1>0, <2>1, RowIs
  <2>3. Len(wire["S"]) = 1 BY <2>1, <2>2, Sides, OneIs, Zenon
  <2>4. CASE Do("S", 1, <<>>, {}, "failed") BY <2>1, <2>3, <2>4, Sides, TalkFails
  <2>5. CASE wire["S"][1].st = "PinRequired" /\ Do("S", 1, <<>>, {"PinRequired"}, "askpin")
    <3>1. pr = "verify" BY <2>2, <2>5
    <3>2. Row("askpin", "verify", <<>>, <<>>, selected') BY DEF Row, None
    <3>3. <<>> \o <<>> = <<>> OBVIOUS
    <3> QED BY <1>0, <1>t, <2>2, <2>3, <2>5, <3>1, <3>2, <3>3, SpeakS
  <2>6. CASE wire["S"][1].st \notin {"PinRequired", "InvalidSignature"} /\ ChallengeOrList(1)
    <3>1. pr = "list" BY <2>2, <2>6
    <3> QED BY <1>0, <2>1, <2>2, <2>3, <2>6, <3>1, TalkList
  <2> QED BY <1>2, <2>4, <2>5, <2>6 DEF ReceiveTokenResponse
<1> QED BY <1>1, <1>2

LEMMA TalkPinSent ==
  ASSUME Shape, Talk, NEW s \in Side, NEW p, SendPin(s, p) \/ PinNotProvided(s)
  PROVE  Talk'
<1>0. PICK ps, pr \in Waiting \cup {"done"} :
        /\ pc["S"] \in {ps, "failed"} /\ pc["R"] \in {pr, "failed"}
        /\ Row(ps, pr, wire["S"], wire["R"], selected)
  BY DEF Talk
<1>t. {"verify", "pinwait"} \subseteq Waiting \cup {"done"} BY DEF Waiting
<1>w. \A q \in Side : wire[q] = <<>> => Len(wire[q]) = 0 BY WireSeq
<1>1. CASE SendPin(s, p)
  <2>1. PICK m : m = RTCPinMessage(p) OBVIOUS
  <2>2. Do(s, 0, <<m>>, {}, "pinwait") /\ pc[s] = "askpin" BY <1>1, <2>1 DEF SendPin
  <2>3. wire["S"] = <<>> /\ wire["R"] = <<>> /\ (s = "S" => pr = "verify") /\ (s = "R" => ps = "verify")
    BY <1>0, <2>2, RowIs DEF Side
  <2>4. m.t = "pin" BY <2>1 DEF RTCPinMessage
  <2>5. \A v \in {<<>>, <<m>>} : /\ Row("pinwait", "verify", <<>>, v, selected')
                                 /\ Row("verify", "pinwait", v, <<>>, selected')
    BY <2>4, RowOne, Zenon
  <2>6. <<>> \o <<m>> = <<m>> BY Sents, Zenon
  <2>7. Len(wire["S"]) = 0 /\ Len(wire["R"]) = 0 BY <1>w, <2>3, Sides
  <2>8. CASE s = "S" BY <1>0, <1>t, <2>2, <2>3, <2>5, <2>6, <2>7, <2>8, SpeakS
  <2>9. CASE s = "R" BY <1>0, <1>t, <2>2, <2>3, <2>5, <2>6, <2>7, <2>9, SpeakR
  <2> QED BY <2>8, <2>9 DEF Side
<1>2. CASE PinNotProvided(s)
  <2>1. Do(s, 0, <<>>, {}, "failed") /\ UNCHANGED selected BY <1>2 DEF PinNotProvided, BeforeFiles
  <2> QED BY <2>1, TalkFails
<1> QED BY <1>1, <1>2

LEMMA TalkVerify ==
  ASSUME Shape, Talk, NEW s \in Side, VerifyPin(s)
  PROVE  Talk'
<1>0. PICK ps, pr \in Waiting \cup {"done"} :
        /\ pc["S"] \in {ps, "failed"} /\ pc["R"] \in {pr, "failed"}
        /\ Row(ps, pr, wire["S"], wire["R"], selected)
  BY DEF Talk
<1>t. {"verify", "pinwait", "list"} \subseteq Waiting \cup {"done"} BY DEF Waiting
<1>n. pc[s] = "verify" /\ wire[s] # <<>> /\ UNCHANGED selected BY DEF VerifyPin, Next1, BeforeFiles
<1>1. CASE s = "S"
  <2>1. pr = "pinwait" /\ wire["R"] = <<>> /\ One(wire["S"], "pin") BY <1>0, <1>n, <1>1, RowIs
  <2>2. Len(wire["S"]) = 1 BY <1>n, <1>1, <2>1, Sides, OneIs, Zenon
  <2>3. CASE SendList(1) BY <1>0, <1>n, <2>1, <2>2, <2>3, TalkList
  <2>4. ASSUME NEW st \in {"PinRequired", "TooManyAttempts"}, NEW sts, NEW p \in {"verify", "failed"},
               Do("S", 1, VerifyPinResult("S", st), sts, p)
        PROVE  Talk'
    <3>1. PICK b : b = [st |-> st] OBVIOUS
    <3>2. PICK ms : ms = InChunks(b) OBVIOUS
    <3>3. Do("S", 1, ms, sts, p) BY <2>4, <3>1, <3>2 DEF VerifyPinResult, RTCPinSendingResponse
    <3>4. b.st = st BY <3>1
    <3>5. <<>> \o ms = ms /\ \A v \in {<<>>, ms} : Body(v) /\ (v # <<>> => v[1].v = b)
      BY <3>2, Sents, Zenon
    <3>6. \A v \in {<<>>, ms} : Row("verify", "pinwait", <<>>, v, selected')
      BY <3>4, <3>5 DEF Row, None
    <3> QED BY <1>0, <1>t, <2>1, <2>2, <3>3, <3>5, <3>6, SpeakS
  <2>5. \/ SendList(1)
        \/ Do("S", 1, VerifyPinResult("S", "TooManyAttempts"), {"TooManyAttempts"}, "failed")
        \/ Do("S", 1, VerifyPinResult("S", "PinRequired"), {}, "verify")
    BY <1>1 DEF VerifyPin
  <2> QED BY <2>3, <2>4, <2>5, Zenon
<1>2. CASE s = "R"
  <2>1. ps = "pinwait" /\ wire["S"] = <<>> /\ One(wire["R"], "pin") BY <1>0, <1>n, <1>2, RowIs
  <2>2. Len(wire["R"]) = 1 BY <1>n, <1>2, <2>1, Sides, OneIs, Zenon
  <2>3. ASSUME NEW st, NEW sts, NEW q \in {"verify", "list"}, NEW p \in {q, "failed"},
               Do("R", 1, <<RTCPinReceivingResponse(st)>>, sts, p), st = "Ok" <=> q = "list"
        PROVE  Talk'
    <3>1. PICK m : m = RTCPinReceivingResponse(st) OBVIOUS
    <3>2. m.t = "pinres" /\ m.v = st BY <3>1 DEF RTCPinReceivingResponse
    <3>3. <<>> \o <<m>> = <<m>> /\ \A v \in {<<>>, <<m>>} : One(v, "pinres") /\ (v # <<>> => v[1] = m)
      BY <3>2, Sents
    <3>4. \A v \in {<<>>, <<m>>} : Row("pinwait", q, v, <<>>, selected')
      BY <2>3, <3>2, <3>3 DEF Row, None
    <3>5. Do("R", 1, <<m>>, sts, p) BY <2>3, <3>1
    <3>6. q \in Waiting \cup {"done"} BY <1>t
    <3> QED BY <1>0, <1>t, <2>1, <2>2, <3>3, <3>4, <3>5, <3>6, SpeakR
  <2>4. \/ Do("R", 1, <<RTCPinReceivingResponse("Ok")>>, {}, "list")
        \/ Do("R", 1, <<RTCPinReceivingResponse("TooManyAttempts")>>, {"TooManyAttempts"}, "failed")
        \/ Do("R", 1, <<RTCPinReceivingResponse("PinRequired")>>, {}, "verify")
    BY <1>2 DEF VerifyPin, VerifyPinResult
  <2>5. ("Ok" = "Ok" <=> "list" = "list") /\ ("TooManyAttempts" = "Ok" <=> "verify" = "list")
        /\ ("PinRequired" = "Ok" <=> "verify" = "list")
    OBVIOUS
  <2> QED BY <2>3, <2>4, <2>5, Zenon
<1> QED BY <1>1, <1>2 DEF Side

LEMMA TalkPinHeard ==
  ASSUME Shape, Talk, PinResponseS \/ PinResponseR
  PROVE  Talk'
<1>0. PICK ps, pr \in Waiting \cup {"done"} :
        /\ pc["S"] \in {ps, "failed"} /\ pc["R"] \in {pr, "failed"}
        /\ Row(ps, pr, wire["S"], wire["R"], selected)
  BY DEF Talk
<1>t. {"verify", "askpin", "list", "selecting"} \subseteq Waiting \cup {"done"} BY DEF Waiting
<1>e. <<>> \o <<>> = <<>> OBVIOUS
<1>1. CASE PinResponseS
  <2>1. pc["S"] = "pinwait" /\ wire["S"] # <<>> /\ UNCHANGED selected
    BY <1>1 DEF PinResponseS, Next1, BeforeFiles
  <2>2. /\ pr \in {"verify", "list"} /\ wire["R"] = <<>> /\ One(wire["S"], "pinres")
        /\ wire["S"][1].v = "Ok" <=> pr = "list"
    BY <1>0, <2>1, RowIs
  <2>3. Len(wire["S"]) = 1 BY <2>1, <2>2, Sides, OneIs, Zenon
  <2>4. CASE Do("S", 1, <<>>, {"TooManyAttempts"}, "failed") BY <2>1, <2>3, <2>4, Sides, TalkFails
  <2>5. CASE wire["S"][1].v # "Ok" /\ Do("S", 1, <<>>, {"PinRequired"}, "askpin")
    <3>1. pr = "verify" BY <2>2, <2>5
    <3>2. Row("askpin", "verify", <<>>, <<>>, selected') BY DEF Row, None
    <3> QED BY <1>0, <1>t, <1>e, <2>2, <2>3, <2>5, <3>1, <3>2, SpeakS
  <2>6. CASE wire["S"][1].v = "Ok" /\ ChallengeOrList(1)
    <3>1. pr = "list" BY <2>2, <2>6
    <3> QED BY <1>0, <2>1, <2>2, <2>3, <2>6, <3>1, TalkList
  <2> QED BY <1>1, <2>4, <2>5, <2>6 DEF PinResponseS
<1>2. CASE PinResponseR
  <2>0. pc["R"] \in {"list", "pinwait"} /\ NextBody("R") /\ UNCHANGED selected
    BY <1>2 DEF PinResponseR, BeforeFiles
  <2>1. pr = pc["R"] BY <1>0, <2>0
  <2>2. Len(wire["R"]) \in Nat /\ Len(wire["R"]) >= 2 /\ (wire["R"] = <<>> <=> Len(wire["R"]) = 0)
    BY <2>0, Sides, WireSeq DEF NextBody
  <2>3. wire["R"] # <<>> BY <2>2
  <2>4. /\ wire["S"] = <<>> /\ Body(wire["R"])
        /\ \/ ps = "verify" /\ wire["R"][1].v.st \in {"PinRequired", "TooManyAttempts"}
           \/ ps = "list" /\ wire["R"][1].v.st = "Ok"
    BY <1>0, <2>0, <2>1, <2>3, RowIs
  <2>5. Len(wire["R"]) = 2 BY <2>0, <2>4, Sides, BodyIs, Zenon
  <2>6. ASSUME NEW sts, Do("R", 2, <<>>, sts, "failed") PROVE Talk' BY <2>0, <2>5, <2>6, Sides, TalkFails
  <2>7. CASE wire["R"][1].v.st = "PinRequired" /\ Do("R", 2, <<>>, {"PinRequired"}, "askpin")
    <3>1. ps = "verify" BY <2>4, <2>7
    <3>2. Row("verify", "askpin", <<>>, <<>>, selected') BY DEF Row, None
    <3> QED BY <1>0, <1>t, <1>e, <2>4, <2>5, <2>7, <3>1, <3>2, SpeakR
  <2>8. CASE wire["R"][1].v.st \notin {"PinRequired", "TooManyAttempts"}
             /\ Do("R", 2, <<>>, {"Connected"}, "selecting")
    <3>1. ps = "list" BY <2>4, <2>8
    <3>2. Row("list", "selecting", <<>>, <<>>, selected') BY DEF Row, None
    <3> QED BY <1>0, <1>t, <1>e, <2>4, <2>5, <2>8, <3>1, <3>2, SpeakR
  <2> QED BY <1>2, <2>6, <2>7, <2>8 DEF PinResponseR
<1> QED BY <1>1, <1>2

LEMMA TalkSelect ==
  ASSUME Shape, Talk, Learn,
         \/ \E sel \in SUBSET Id : SendSelection(sel)
         \/ Decline \/ DropSelection \/ ReceiveSelection \/ SelectionNotPublished
  PROVE  Talk'
<1>0. PICK ps, pr \in Waiting \cup {"done"} :
        /\ pc["S"] \in {ps, "failed"} /\ pc["R"] \in {pr, "failed"}
        /\ Row(ps, pr, wire["S"], wire["R"], selected)
  BY DEF Talk
<1>t. {"list", "selecting", "receiving", "sending"} \subseteq Waiting \cup {"done"} BY DEF Waiting
<1>e. <<>> \o <<>> = <<>> /\ Len(<<>>) = 0 OBVIOUS
<1>1. ASSUME pc["R"] = "selecting"
      PROVE  ps = "list" /\ wire["S"] = <<>> /\ wire["R"] = <<>> /\ Len(wire["R"]) = 0
  BY <1>0, <1>1, <1>e, RowIs
<1>2. ASSUME pc["R"] = "selecting", NEW b, b # NoAnswer, selected' = b,
             NEW p \in {"receiving", "done"}, Do("R", 0, RTCFileListResponse(b), {}, p)
      PROVE  Talk'
  <2>1. PICK ms : ms = InChunks(b) OBVIOUS
  <2>2. Do("R", 0, ms, {}, p) BY <1>2, <2>1 DEF RTCFileListResponse
  <2>3. <<>> \o ms = ms /\ \A v \in {<<>>, ms} : Body(v) /\ (v # <<>> => v[1].v = b)
    BY <2>1, Sents, Zenon
  <2>4. \A v \in {<<>>, ms} : Row("list", p, v, <<>>, b) BY <1>2, <2>3 DEF Row, None
  <2>5. \A v \in {<<>>, ms} : Row("list", p, v, <<>>, selected') BY <1>2, <2>4
  <2>6. p \in Waiting \cup {"done"} BY <1>t
  <2> QED BY <1>0, <1>t, <1>1, <1>2, <2>2, <2>3, <2>5, <2>6, SpeakR
<1>3. ASSUME NEW sel, SendSelection(sel) PROVE Talk'
  <2>1. Accepted(sel) # NoAnswer BY DEF Accepted, NoAnswer
  <2>2. pc["R"] = "selecting" /\ selected' = Accepted(sel)
        /\ Do("R", 0, RTCFileListResponse(Accepted(sel)), {}, "receiving")
    BY <1>3 DEF SendSelection
  <2> QED BY <1>2, <2>1, <2>2, Zenon
<1>4. CASE Decline
  <2>1. Declined # NoAnswer BY DEF Declined, NoAnswer
  <2>2. pc["R"] = "selecting" /\ selected' = Declined
        /\ Do("R", 0, RTCFileListResponse(Declined), {}, "done")
    BY <1>4 DEF Decline
  <2> QED BY <1>2, <2>1, <2>2, Zenon
<1>5. CASE DropSelection
  <2>1. pc["R"] = "selecting" /\ Do("R", 0, <<>>, {}, "done") BY <1>5 DEF DropSelection
  <2>2. Row("list", "done", <<>>, <<>>, selected') BY <1>e DEF Row, None, Body
  <2> QED BY <1>0, <1>t, <1>e, <1>1, <2>1, <2>2, SpeakR
<1>6. ASSUME pc["S"] = "list", NextBody("S")
      PROVE  /\ pr \in {"receiving", "done"} /\ wire["R"] = <<>> /\ Len(wire["S"]) = 2
             /\ wire["S"][1].v = selected /\ selected # NoAnswer
  <2>1. Len(wire["S"]) \in Nat /\ Len(wire["S"]) >= 2 /\ (wire["S"] = <<>> <=> Len(wire["S"]) = 0)
    BY <1>6, Sides, WireSeq DEF NextBody
  <2>2. wire["S"] # <<>> BY <2>1
  <2>3. /\ pr \in {"receiving", "done"} /\ Body(wire["S"]) /\ wire["R"] = <<>>
        /\ wire["S"][1].v = selected /\ selected # NoAnswer
    BY <1>0, <1>6, <2>2, RowIs
  <2> QED BY <1>6, <2>3, Sides, BodyIs
<1>7. CASE ReceiveSelection
  <2>0. pc["S"] = "list" /\ NextBody("S") /\ UNCHANGED selected BY <1>7 DEF ReceiveSelection
  <2>1. /\ pr \in {"receiving", "done"} /\ wire["R"] = <<>> /\ 2 = Len(wire["S"])
        /\ wire["S"][1].v = selected /\ selected # NoAnswer
    BY <1>6, <2>0
  <2>2. CASE Do("S", 2, <<>>, {"Declined"}, "done")
    <3>1. Row("done", pr, <<>>, <<>>, selected') BY <1>e, <2>1 DEF Row
    <3> QED BY <1>0, <2>1, <2>2, <3>1, HearS
  <2>3. CASE wire["S"][1].v # Declined /\ Do("S", 2, <<>>, {}, "sending")
    <3>1. selected.st = "Ok" BY <2>1, <2>3 DEF Learn
    <3>2. Row("sending", pr, <<>>, <<>>, selected') BY <1>e, <2>0, <2>1, <3>1 DEF Row
    <3> QED BY <1>0, <1>t, <2>1, <2>3, <3>2, HearS
  <2> QED BY <1>7, <2>2, <2>3 DEF ReceiveSelection
<1>8. CASE SelectionNotPublished
  <2>1. pc["S"] = "list" /\ NextBody("S") /\ Do("S", 2, <<>>, {"Error"}, "failed") /\ UNCHANGED selected
    BY <1>8 DEF SelectionNotPublished, BeforeFiles
  <2> QED BY <1>6, <2>1, Sides, TalkFails
<1> QED BY <1>3, <1>4, <1>5, <1>7, <1>8

(* The sending and the receiving loop.                                     *)
LEMMA TalkFilesS ==
  ASSUME Shape, Talk, NEW n \in Nat, NEW ms, NEW sts, NEW p \in {"sending", "confirm", "done"},
         Do("S", n, ms, sts, p), pc["S"] \in {"sending", "confirm"}, UNCHANGED selected
  PROVE  Talk'
<1>0. PICK ps, pr \in Waiting \cup {"done"} :
        /\ pc["S"] \in {ps, "failed"} /\ pc["R"] \in {pr, "failed"}
        /\ Row(ps, pr, wire["S"], wire["R"], selected)
  BY DEF Talk
<1>1. ps = pc["S"] BY <1>0
<1>2. /\ pr \in {"receiving", "result", "done"}
      /\ \A i \in 1..Len(wire["S"]) : wire["S"][i].t = "fileres"
      /\ pr = "done" => selected.st = "Ok"
  BY <1>0, <1>1, RowIs
<1>3. wire'["S"] = SubSeq(wire["S"], n + 1, Len(wire["S"])) /\ pc'["S"] = p /\ pc'["R"] = pc["R"]
  <2>1. After("S", n, ms, sts, p) BY Sides, DoAfter, Zenon
  <2> QED BY <2>1, Sides, Zenon DEF After
<1>4. \A i \in 1..Len(wire'["S"]) : wire'["S"][i].t = "fileres"
  <2>1. PICK M : wire \in [Side -> Seq(M)] BY DEF Shape
  <2>2. wire["S"] \in Seq(M) BY <2>1, Sides
  <2>3. Len(wire["S"]) \in Nat /\ Len(wire["S"]) <= Len(wire["S"]) BY <2>2
  <2>5. Elems(SubSeq(wire["S"], n + 1, Len(wire["S"]))) \subseteq Elems(wire["S"])
    BY <2>2, <2>3, PartOf, Zenon
  <2>6. Elems(wire'["S"]) \subseteq Elems(wire["S"]) BY <1>3, <2>5
  <2>7. \A m \in Elems(wire["S"]) : m.t = "fileres" BY <1>2 DEF Elems
  <2>8. \A i \in 1..Len(wire'["S"]) : wire'["S"][i] \in Elems(wire'["S"]) BY DEF Elems
  <2> QED BY <2>6, <2>7, <2>8
<1>5. Row(p, pr, wire'["S"], wire'["R"], selected') BY <1>2, <1>4 DEF Row
<1>6. p \in Waiting \cup {"done"} BY DEF Waiting
<1> QED BY <1>0, <1>3, <1>5, <1>6, TalkAt

LEMMA TalkFilesR ==
  ASSUME Shape, Talk, NEW n, NEW N, NEW ms \in Seq(N), NEW p \in {"receiving", "result", "done", "failed"},
         Do("R", n, ms, {}, p), \A i \in 1..Len(ms) : ms[i].t = "fileres",
         pc["R"] = "result" \/ (pc["R"] = "receiving" /\ wire["R"] # <<>>),
         p = "done" => selected.st = "Ok", UNCHANGED selected
  PROVE  Talk'
<1>0. PICK ps, pr \in Waiting \cup {"done"} :
        /\ pc["S"] \in {ps, "failed"} /\ pc["R"] \in {pr, "failed"}
        /\ Row(ps, pr, wire["S"], wire["R"], selected)
  BY DEF Talk
<1>1. pr = pc["R"] BY <1>0
<1>2. ps \in {"sending", "confirm", "done"} BY <1>0, <1>1, RowIs
<1>3. \A i \in 1..Len(wire["S"]) : wire["S"][i].t = "fileres" BY <1>0, <1>2, RowIs
<1>4. wire'["S"] \in {wire["S"], wire["S"] \o ms} /\ pc'["R"] = p /\ pc'["S"] = pc["S"]
  BY DoR
<1>5. \A i \in 1..Len(wire'["S"]) : wire'["S"][i].t = "fileres"
  <2>1. PICK M : wire \in [Side -> Seq(M)] BY DEF Shape
  <2>2. wire["S"] \in Seq(M \cup N) /\ ms \in Seq(M \cup N) BY <2>1, Sides, SeqGrows
  <2>3. Elems(wire["S"] \o ms) \subseteq Elems(wire["S"]) \cup Elems(ms) BY <2>2, ElemsConcat, Zenon
  <2>4. Elems(wire'["S"]) \subseteq Elems(wire["S"]) \cup Elems(ms) BY <1>4, <2>3
  <2>5. \A m \in Elems(wire["S"]) \cup Elems(ms) : m.t = "fileres" BY <1>3 DEF Elems
  <2> QED BY <2>4, <2>5 DEF Elems
<1>6. PICK q \in {"receiving", "result", "done"} : p \in {q, "failed"} /\ (q = "done" => selected.st = "Ok")
  OBVIOUS
<1>7. Row(ps, q, wire'["S"], wire'["R"], selected') BY <1>2, <1>5, <1>6 DEF Row
<1>8. q \in Waiting \cup {"done"} BY DEF Waiting
<1> QED BY <1>0, <1>4, <1>6, <1>7, <1>8, TalkAt

-----------------------------------------------------------------------------
(* The stream of files: what becomes of a chain of messages when one is    *)
(* added, taken or lost, or when the sender goes on.                       *)

Pushed(v, w, m) == /\ Len(w) \in Nat /\ Len(v) = Len(w) + 1 /\ v[Len(w) + 1] = m
                   /\ \A i \in 1..Len(w) : v[i] = w[i]
Popped(v, w) == /\ Len(w) \in Nat /\ Len(v) \in Nat /\ Len(w) = Len(v) + 1
                /\ \A i \in 1..Len(v) : v[i] = w[i + 1]

LEMMA PushedIs ==
  ASSUME NEW M, NEW w \in Seq(M), NEW m PROVE Pushed(w \o <<m>>, w, m)
<1>1. Len(w) \in Nat OBVIOUS
<1>2. w \in Seq(M \cup {m}) /\ <<m>> \in Seq(M \cup {m}) OBVIOUS
<1>n. PICK N : N = M \cup {m} OBVIOUS
<1>3. PICK q, r \in Seq(N) : q = w /\ r = <<m>> /\ Len(r) = 1 /\ r[1] = m BY <1>2, <1>n
<1>4. Len(q \o r) = Len(q) + Len(r) /\ Len(q) \in Nat OBVIOUS
<1>5. \A i \in 1..Len(q) + Len(r) : (q \o r)[i] = IF i <= Len(q) THEN q[i] ELSE r[i - Len(q)] OBVIOUS
<1>6. Len(q) + 1 \in 1..Len(q) + Len(r) /\ ~(Len(q) + 1 <= Len(q)) /\ Len(q) + 1 - Len(q) = 1
  BY <1>3, <1>4
<1>7. (q \o r)[Len(q) + 1] = m BY <1>3, <1>5, <1>6
<1>8. \A i \in 1..Len(q) : (q \o r)[i] = q[i] BY <1>3, <1>4, <1>5
<1>9. Pushed(q \o r, q, m) BY <1>3, <1>4, <1>7, <1>8 DEF Pushed
<1> QED BY <1>3, <1>9

LEMMA PoppedIs ==
  ASSUME NEW M, NEW w \in Seq(M), w # <<>> PROVE Popped(SubSeq(w, 2, Len(w)), w)
<1>1. Len(w) \in Nat /\ Len(w) # 0 OBVIOUS
<1>2. PICK v : v = SubSeq(w, 2, Len(w)) OBVIOUS
<1>3. Len(v) = Len(w) - 1 /\ \A i \in 1..Len(w) - 1 : v[i] = w[i + 1]
  <2>1. PICK k \in Nat : k = 1 /\ k + 1 = 2 OBVIOUS
  <2>2. /\ Len(SubSeq(w, k + 1, Len(w))) = IF k + 1 <= Len(w) THEN Len(w) - k ELSE 0
        /\ \A i \in 1..Len(SubSeq(w, k + 1, Len(w))) : SubSeq(w, k + 1, Len(w))[i] = w[k + i]
    BY <1>1
  <2>3. v = SubSeq(w, k + 1, Len(w)) BY <1>2, <2>1, Zenon
  <2>4. Len(v) = Len(w) - 1
    <3>1. Len(v) = IF k + 1 <= Len(w) THEN Len(w) - k ELSE 0 BY <2>2, <2>3, Zenon
    <3>2. \A l \in Nat : l # 0 => (IF k + 1 <= l THEN l - k ELSE 0) = l - 1 BY <2>1
    <3> QED BY <1>1, <3>1, <3>2, Zenon
  <2>5. \A i \in 1..Len(v) : v[i] = w[k + i] BY <2>2, <2>3, Zenon
  <2>6. \A i \in 1..Len(v) : k + i = i + 1 BY <1>1, <2>1, <2>4
  <2> QED BY <2>4, <2>5, <2>6
<1>4. Len(v) \in Nat /\ Len(w) = Len(v) + 1 BY <1>1, <1>3
<1> QED BY <1>1, <1>2, <1>3, <1>4 DEF Popped

LEMMA ChainPush ==
  ASSUME NEW v, NEW w, NEW m, NEW p, NEW sn, NEW c, Pushed(v, w, m), Chain(w, p, sn, c),
         Delimiter \notin Elems(w), Item(m, sn), Follows(Prior(w, p, Len(w) + 1), m, sn, c)
  PROVE  Chain(v, p, sn, c) /\ Prior(v, p, Len(v) + 1) = Place(m)
<1>1. /\ Len(w) \in Nat /\ Len(v) = Len(w) + 1 /\ v[Len(w) + 1] = m
      /\ \A i \in 1..Len(w) : v[i] = w[i]
  BY DEF Pushed
<1>2. Len(v) + 1 # 1 /\ Len(v) + 1 - 1 = Len(w) + 1 BY <1>1
<1>3. Prior(v, p, Len(v) + 1) = Place(m) BY <1>1, <1>2 DEF Prior
<1>4. \A i \in 1..Len(v) : Prior(v, p, i) = Prior(w, p, i)
  <2>1. \A i \in 1..Len(v) : i # 1 => i - 1 \in 1..Len(w) BY <1>1
  <2> QED BY <1>1, <2>1 DEF Prior
<1>5. ASSUME NEW i \in 1..Len(v)
      PROVE  /\ Item(v[i], sn) /\ (v[i] = Delimiter => i = Len(v))
             /\ Follows(Prior(v, p, i), v[i], sn, c)
  <2>1. CASE i \in 1..Len(w)
    <3>1. v[i] = w[i] /\ w[i] \in Elems(w) BY <1>1, <2>1 DEF Elems
    <3>2. Item(w[i], sn) /\ Follows(Prior(w, p, i), w[i], sn, c) BY <2>1 DEF Chain
    <3> QED BY <1>4, <3>1, <3>2
  <2>2. CASE i = Len(w) + 1 BY <1>1, <1>4, <2>2
  <2>3. i \in 1..Len(w) \/ i = Len(w) + 1 BY <1>1
  <2> QED BY <2>1, <2>2, <2>3
<1> QED BY <1>3, <1>5 DEF Chain

LEMMA ChainPop ==
  ASSUME NEW v, NEW w, NEW p, NEW q, NEW sn, NEW c, Popped(v, w), Chain(w, p, sn, c),
         q \in {Place(w[1]), Nowhere}
  PROVE  /\ Chain(v, q, sn, c)
         /\ Tip(Prior(w, p, Len(w) + 1), sn, c) => Tip(Prior(v, q, Len(v) + 1), sn, c)
<1>1. /\ Len(w) \in Nat /\ Len(v) \in Nat /\ Len(w) = Len(v) + 1
      /\ \A i \in 1..Len(v) : v[i] = w[i + 1]
  BY DEF Popped
<1>2. Nowhere.f = NoId BY DEF Nowhere
<1>3. ASSUME NEW i \in 1..Len(v) + 1 PROVE Prior(v, q, i) \in {Prior(w, p, i + 1), Nowhere}
  <2>1. i + 1 # 1 /\ i + 1 - 1 = i BY <1>1
  <2>2. Prior(w, p, i + 1) = Place(w[i]) BY <2>1 DEF Prior
  <2>3. CASE i = 1 BY <2>2, <2>3 DEF Prior
  <2>4. CASE i # 1
    <3>1. i - 1 \in 1..Len(v) /\ i - 1 + 1 = i BY <1>1, <2>4
    <3>2. v[i - 1] = w[i] BY <1>1, <3>1
    <3> QED BY <2>2, <2>4, <3>2 DEF Prior
  <2> QED BY <2>3, <2>4
<1>4. ASSUME NEW i \in 1..Len(v)
      PROVE  /\ Item(v[i], sn) /\ (v[i] = Delimiter => i = Len(v))
             /\ Follows(Prior(v, q, i), v[i], sn, c)
  <2>1. v[i] = w[i + 1] /\ i + 1 \in 1..Len(w) /\ i \in 1..Len(v) + 1 BY <1>1
  <2>2. /\ Item(w[i + 1], sn) /\ (w[i + 1] = Delimiter => i + 1 = Len(w))
        /\ Follows(Prior(w, p, i + 1), w[i + 1], sn, c)
    BY <2>1 DEF Chain
  <2>3. i + 1 = Len(w) => i = Len(v) BY <1>1
  <2>4. Follows(Nowhere, v[i], sn, c) BY <1>2 DEF Follows
  <2>5. Follows(Prior(v, q, i), v[i], sn, c) BY <1>3, <2>1, <2>2, <2>4
  <2> QED BY <2>1, <2>2, <2>3, <2>5
<1>5. Tip(Nowhere, sn, c) BY <1>2 DEF Tip
<1>6. Prior(v, q, Len(v) + 1) \in {Prior(w, p, Len(w) + 1), Nowhere}
  <2>1. Len(v) + 1 \in 1..Len(v) + 1 BY <1>1
  <2> QED BY <1>1, <1>3, <2>1
<1> QED BY <1>4, <1>5, <1>6 DEF Chain

LEMMA ChainCut ==
  ASSUME NEW v, NEW w, NEW p, NEW sn, NEW c, Cut(v, w), Len(w) \in Nat, Chain(w, p, sn, c)
  PROVE  /\ Chain(v, p, sn, c) /\ Elems(v) \subseteq Elems(w)
         /\ Delimiter \in Elems(v) => Elems(v) = Elems(w)
<1>1. Len(v) \in Nat /\ Len(v) <= Len(w) /\ \A i \in 1..Len(v) : v[i] = w[i] BY DEF Cut
<1>2. \A i \in 1..Len(v) : i \in 1..Len(w) BY <1>1
<1>3. \A i \in 1..Len(v) : Prior(v, p, i) = Prior(w, p, i)
  <2>1. \A i \in 1..Len(v) : i # 1 => i - 1 \in 1..Len(v) BY <1>1
  <2> QED BY <1>1, <2>1 DEF Prior
<1>4. ASSUME NEW i \in 1..Len(v)
      PROVE  /\ Item(v[i], sn) /\ (v[i] = Delimiter => i = Len(v) /\ i = Len(w))
             /\ Follows(Prior(v, p, i), v[i], sn, c)
  <2>1. v[i] = w[i] /\ i \in 1..Len(w) BY <1>1, <1>2
  <2>2. /\ Item(w[i], sn) /\ (w[i] = Delimiter => i = Len(w))
        /\ Follows(Prior(w, p, i), w[i], sn, c)
    BY <2>1 DEF Chain
  <2>3. i = Len(w) => i = Len(v) BY <1>1
  <2> QED BY <1>3, <2>1, <2>2, <2>3
<1>5. Chain(v, p, sn, c) BY <1>4 DEF Chain
<1>6. Elems(v) \subseteq Elems(w) BY <1>1, <1>2 DEF Elems
<1>7. Delimiter \in Elems(v) => Elems(v) = Elems(w)
  <2>1. SUFFICES ASSUME Delimiter \in Elems(v) PROVE Elems(v) = Elems(w) OBVIOUS
  <2>2. PICK i \in 1..Len(v) : v[i] = Delimiter BY <2>1 DEF Elems
  <2>3. Len(v) = Len(w) BY <1>4, <2>2
  <2> QED BY <1>1, <2>3 DEF Elems
<1> QED BY <1>5, <1>6, <1>7

(* A place in the stream is in a file that was begun.                      *)
Sound(p, sn) == p.f # NoId => p.f \in Id /\ sn[p.f] # NotSent

LEMMA ItemPlace ==
  ASSUME NEW m, NEW sn, Item(m, sn) PROVE Sound(Place(m), sn)
<1>1. CASE m.t = "header" /\ m.v \in Id /\ sn[m.v] # NotSent
  <2>1. Place(m) = [f |-> m.v, k |-> 0] BY <1>1 DEF Place
  <2> QED BY <1>1, <2>1 DEF Sound
<1>2. CASE m.t = "bin" /\ \E f \in Id : sn[f] # NotSent /\ \E k \in 1..sn[f] : m.v = <<f, k>>
  <2>1. PICK f \in Id : sn[f] # NotSent /\ \E k \in 1..sn[f] : m.v = <<f, k>> BY <1>2
  <2>2. m.t # "header" BY <1>2
  <2>3. Place(m) = [f |-> m.v[1], k |-> m.v[2]] BY <1>2, <2>2 DEF Place
  <2>4. Place(m).f = f BY <2>1, <2>3
  <2> QED BY <2>1, <2>4 DEF Sound
<1>3. CASE m = Delimiter
  <2>1. m.t = "delim" BY <1>3 DEF Delimiter
  <2>2. Place(m) = Nowhere BY <2>1 DEF Place
  <2> QED BY <2>2 DEF Sound, Nowhere
<1> QED BY <1>1, <1>2, <1>3 DEF Item

LEMMA PriorSound ==
  ASSUME NEW w, NEW p, NEW sn, NEW c, Chain(w, p, sn, c), Sound(p, sn), Len(w) \in Nat
  PROVE  \A i \in 1..Len(w) + 1 : Sound(Prior(w, p, i), sn)
<1>1. ASSUME NEW i \in 1..Len(w) + 1, i # 1 PROVE Sound(Place(w[i - 1]), sn)
  <2>1. i - 1 \in 1..Len(w) BY <1>1
  <2>2. Item(w[i - 1], sn) BY <2>1 DEF Chain
  <2> QED BY <2>2, ItemPlace
<1> QED BY <1>1 DEF Prior

(* The sender goes on: another file, a message more of the current one, or *)
(* its end.                                                                *)
Moves(sn, c, sn1, c1) ==
  /\ \A f \in Id : sn[f] # NotSent => /\ sn1[f] # NotSent /\ sn[f] \in Nat /\ sn1[f] \in Nat
                                      /\ sn[f] <= sn1[f]
                                      /\ c # f => sn1[f] = sn[f] /\ c1 # f

LEMMA ChainMoves ==
  ASSUME NEW w, NEW p, NEW sn, NEW c, NEW sn1, NEW c1, Chain(w, p, sn, c), Sound(p, sn),
         Len(w) \in Nat, Moves(sn, c, sn1, c1)
  PROVE  Chain(w, p, sn1, c1)
<1>1. ASSUME NEW m, Item(m, sn) PROVE Item(m, sn1)
  <2>1. CASE m.t = "header" /\ m = RTCSendFileHeaderRequest(m.v) /\ m.v \in Id /\ sn[m.v] # NotSent
    BY <2>1 DEF Moves, Item
  <2>2. CASE m.t = "bin" /\ \E f \in Id : sn[f] # NotSent /\ \E k \in 1..sn[f] : m.v = <<f, k>>
    <3>1. PICK f \in Id : sn[f] # NotSent /\ \E k \in 1..sn[f] : m.v = <<f, k>> BY <2>2
    <3>2. PICK k \in 1..sn[f] : m.v = <<f, k>> BY <3>1
    <3>3. sn1[f] # NotSent /\ sn[f] \in Nat /\ sn1[f] \in Nat /\ sn[f] <= sn1[f] BY <3>1 DEF Moves
    <3>4. k \in 1..sn1[f] BY <3>3
    <3> QED BY <2>2, <3>2, <3>3, <3>4 DEF Item
  <2>3. CASE m = Delimiter BY <2>3 DEF Item
  <2> QED BY <1>1, <2>1, <2>2, <2>3 DEF Item
<1>2. ASSUME NEW q, NEW m, Sound(q, sn), Follows(q, m, sn, c) PROVE Follows(q, m, sn1, c1)
  BY <1>2 DEF Follows, Closed, Sound, Moves
<1>3. \A i \in 1..Len(w) : Sound(Prior(w, p, i), sn)
  <2>1. \A i \in 1..Len(w) : i \in 1..Len(w) + 1 OBVIOUS
  <2> QED BY <2>1, PriorSound
<1> QED BY <1>1, <1>2, <1>3 DEF Chain

LEMMA HeadsPush ==
  ASSUME NEW v, NEW w, NEW m, NEW U, NEW V, Pushed(v, w, m), Heads(w, U),
         \A i \in 1..Len(w) : w[i].t = "header" => w[i].v \in V,
         m.t = "header" => m.v \in V /\ m \notin Elems(w)
  PROVE  Heads(v, V)
<1>1. /\ Len(w) \in Nat /\ Len(v) = Len(w) + 1 /\ v[Len(w) + 1] = m
      /\ \A i \in 1..Len(w) : v[i] = w[i]
  BY DEF Pushed
<1>2. \A i \in 1..Len(v) : i \in 1..Len(w) \/ i = Len(v) BY <1>1
<1>3. \A i \in 1..Len(w) : w[i] \in Elems(w) BY DEF Elems
<1>4. \A i, j \in 1..Len(w) : w[i].t = "header" /\ w[j] = w[i] => i = j BY DEF Heads
<1>5. \A i \in 1..Len(v) : v[i].t = "header" => v[i].v \in V BY <1>1, <1>2
<1>6. ASSUME NEW i \in 1..Len(v), NEW j \in 1..Len(v), v[i].t = "header", v[j] = v[i] PROVE i = j
  BY <1>1, <1>2, <1>3, <1>4, <1>6
<1> QED BY <1>5, <1>6 DEF Heads

LEMMA HeadsPop ==
  ASSUME NEW v, NEW w, NEW U, NEW V, Popped(v, w), Heads(w, U),
         \A m : m \in Elems(w) /\ m.t = "header" /\ m.v \in U /\ m # w[1] => m.v \in V
  PROVE  Heads(v, V)
<1>1. /\ Len(w) \in Nat /\ Len(v) \in Nat /\ Len(w) = Len(v) + 1
      /\ \A i \in 1..Len(v) : v[i] = w[i + 1]
  BY DEF Popped
<1>2. \A i \in 1..Len(v) : i + 1 \in 1..Len(w) /\ i + 1 # 1 BY <1>1
<1>3. 1 \in 1..Len(w) BY <1>1
<1>4. ASSUME NEW i \in 1..Len(v), v[i].t = "header" PROVE v[i].v \in V
  <2>1. v[i] = w[i + 1] /\ v[i] \in Elems(w) BY <1>1, <1>2 DEF Elems
  <2>2. v[i].v \in U BY <1>2, <1>4, <2>1 DEF Heads
  <2>3. v[i] # w[1] BY <1>2, <1>3, <1>4, <2>1 DEF Heads
  <2> QED BY <1>4, <2>1, <2>2, <2>3
<1>5. ASSUME NEW i \in 1..Len(v), NEW j \in 1..Len(v), v[i].t = "header", v[j] = v[i] PROVE i = j
  <2>1. v[i] = w[i + 1] /\ v[j] = w[j + 1] /\ i + 1 \in 1..Len(w) /\ j + 1 \in 1..Len(w) BY <1>1, <1>2
  <2>2. i + 1 = j + 1 BY <1>5, <2>1 DEF Heads
  <2> QED BY <2>2
<1> QED BY <1>4, <1>5 DEF Heads

LEMMA HeadsCut ==
  ASSUME NEW v, NEW w, NEW U, NEW V, Cut(v, w), Len(w) \in Nat, Heads(w, U), U \subseteq V
  PROVE  Heads(v, V)
<1>1. Len(v) \in Nat /\ Len(v) <= Len(w) /\ \A i \in 1..Len(v) : v[i] = w[i] BY DEF Cut
<1>2. \A i \in 1..Len(v) : i \in 1..Len(w) BY <1>1
<1> QED BY <1>1, <1>2 DEF Heads

-----------------------------------------------------------------------------
(* Steps that do not touch the files: the receiver stays or fails, or is   *)
(* still before the files; the sender too; messages to a receiver on files *)
(* are at most lost.                                                       *)

SameFiles == /\ UNCHANGED <<selected, cur, sent, file_state, msg, got, ended>>
             /\ errs'["R"] = errs["R"]
Before == Waiting \ {"sending", "confirm"}
AsideR == /\ pc'["R"] \in {pc["R"], "failed"} \/ (Early /\ Early')
          /\ pc'["R"] \in {"receiving", "result", "done"} =>
               /\ Cut(wire'["R"], wire["R"])
               /\ link' = "open" => link = "open" /\ wire'["R"] = wire["R"]
AsideS == /\ \/ pc'["S"] = pc["S"]
             \/ pc'["S"] = "failed" /\ cur = NoId
             \/ pc["S"] \in Before /\ pc'["S"] \in Before
             \/ pc["S"] = "list" /\ pc'["S"] = "sending"
             \/ pc["S"] = "list" /\ pc'["S"] = "done" /\ selected = Declined
             \/ pc["S"] = "confirm" /\ pc'["S"] = "done" /\ ended # {}
          /\ "Declined" \in status'["S"] => "Declined" \in status["S"] \/ selected = Declined
          /\ \A m \in Elems(wire'["S"]) : m.t = "fileres" => m \in Elems(wire["S"])

LEMMA AsideStream ==
  ASSUME FInv, SameFiles, AsideR, AsideS
  PROVE  Stream' /\ Result'
<1>1. Over => Over' BY DEF AsideS, Over, Before, Waiting
<1>2. ASSUME OnFiles' PROVE /\ OnFiles /\ pc'["R"] = pc["R"] /\ Cut(wire'["R"], wire["R"])
                            /\ link' = "open" => link = "open" /\ wire'["R"] = wire["R"]
  BY <1>2 DEF OnFiles, AsideR, Early
<1>3. Len(wire["R"]) \in Nat BY Sides, WireSeq DEF FInv
<1>4. ASSUME OnFiles' PROVE Front' = Front /\ Unseen \subseteq Unseen'
  BY <1>2, <1>4 DEF Front, Unseen, Untouched, SameFiles
<1>5. ASSUME OnFiles'
      PROVE /\ Chain(wire'["R"], Front', sent', cur')
            /\ link' = "open" => Tip(Prior(wire'["R"], Front', Len(wire'["R"]) + 1), sent', cur')
            /\ Heads(wire'["R"], Unseen')
            /\ Delimiter \in Elems(wire'["R"]) => Over'
  <2>1. PICK v : v = wire'["R"] OBVIOUS
  <2>2. PICK w : w = wire["R"] OBVIOUS
  <2>3. PICK fr : fr = Front OBVIOUS
  <2>4. /\ Chain(w, fr, sent, cur) /\ Heads(w, Unseen) /\ (Delimiter \in Elems(w) => Over)
        /\ link = "open" => Tip(Prior(w, fr, Len(w) + 1), sent, cur)
    BY <1>2, <1>5, <2>2, <2>3, Zenon DEF FInv, Stream
  <2>5. Cut(v, w) /\ Len(w) \in Nat BY <1>2, <1>3, <1>5, <2>1, <2>2
  <2>6. Chain(v, fr, sent, cur) /\ Elems(v) \subseteq Elems(w) BY <2>4, <2>5, ChainCut, Zenon
  <2>7. Heads(v, Unseen') BY <1>4, <1>5, <2>4, <2>5, HeadsCut, Zenon
  <2>8. link' = "open" => Tip(Prior(v, fr, Len(v) + 1), sent, cur)
    BY <1>2, <1>5, <2>1, <2>2, <2>4, Zenon
  <2>9. sent' = sent /\ cur' = cur /\ Front' = fr BY <1>4, <1>5, <2>3 DEF SameFiles
  <2> QED BY <1>1, <2>1, <2>4, <2>6, <2>7, <2>8, <2>9, Zenon
<1>6. Stream' BY <1>5, Zenon DEF Stream
<1>7. ASSUME pc'["R"] = "result" PROVE
        /\ file_state' = NoId /\ ended' # {}
        /\ \/ msg' = Delimiter /\ Over' /\ wire'["R"] = <<>>
           \/ \E f \in Id : msg' = RTCSendFileHeaderRequest(f) /\ sent'[f] # NotSent /\ Untouched(f)'
  <2>1. OnFiles' BY <1>7 DEF OnFiles
  <2>2. pc["R"] = "result" /\ Cut(wire'["R"], wire["R"]) BY <1>2, <1>7, <2>1
  <2>3. wire["R"] = <<>> => wire'["R"] = <<>>
    <3>1. Len(<<>>) = 0 OBVIOUS
    <3> QED BY <2>2, <3>1 DEF Cut
  <2> QED BY <1>1, <2>2, <2>3 DEF FInv, Result, SameFiles, Begun, Untouched
<1>8. Result' BY <1>7 DEF Result, Begun
<1> QED BY <1>6, <1>8

LEMMA AsideHeld ==
  ASSUME FInv, SameFiles, AsideR, AsideS
  PROVE  Held' /\ Accounts' /\ Learn'
<1>1. Over => Over' BY DEF AsideS, Over, Before, Waiting
<1>2. \A f \in Id : HeldOf(f)' BY DEF FInv, Held, HeldOf, SameFiles, Begun, Untouched
<1>3. Held'
  <2>1. pc'["S"] # "sending" => cur' = NoId
    BY DEF FInv, Held, AsideS, SameFiles, Before, Waiting
  <2>2. (cur # NoId => Begun(cur))' BY DEF FInv, Held, SameFiles, Begun
  <2>3. Early' => Early BY DEF AsideR, Early
  <2>4. OnFiles' => OnFiles BY DEF AsideR, Early, OnFiles
  <2>5. pc'["S"] \in Before => pc["S"] \in Before BY DEF AsideS, Before, Waiting
  <2>6. (\A f \in Id : ~Begun(f)) => (\A f \in Id : ~Begun(f))' BY DEF SameFiles, Begun
  <2>7. /\ Early => /\ file_state = NoId /\ ended = {} /\ errs["R"] = {} /\ selected = NoAnswer
                    /\ \A f \in Id : got[f] = <<>>
        /\ OnFiles => selected.st = "Ok"
        /\ file_state # NoId => file_state \in selected.files \cap Offered
        /\ Early \/ pc["S"] \in Before => \A f \in Id : ~Begun(f)
    BY DEF FInv, Held, Before
  <2>8. (/\ Early => /\ file_state = NoId /\ ended = {} /\ errs["R"] = {} /\ selected = NoAnswer
                     /\ \A f \in Id : got[f] = <<>>
         /\ OnFiles => selected.st = "Ok"
         /\ file_state # NoId => file_state \in selected.files \cap Offered)'
    BY <2>3, <2>4, <2>7 DEF SameFiles
  <2>9. (Early \/ pc["S"] \in Waiting \ {"sending", "confirm"} => \A f \in Id : ~Begun(f))'
    BY <2>3, <2>5, <2>6, <2>7 DEF Before
  <2> QED BY <1>2, <2>1, <2>2, <2>8, <2>9 DEF Held
<1>4. Accounts'
  <2>1. pc'["R"] \in {"receiving", "result", "done"} => pc'["R"] = pc["R"] BY DEF AsideR, Early
  <2>2. Len(wire["R"]) \in Nat BY Sides, WireSeq DEF FInv
  <2>3. ASSUME pc'["R"] = pc["R"], NEW f \in Id, Known(f) PROVE Known(f)'
    BY <2>3 DEF Known, SameFiles
  <2>4. \A f \in Id : Begun(f)' => Begun(f) BY DEF SameFiles, Begun
  <2>5. ASSUME OnFiles', link' = "open" \/ Delimiter \in Elems(wire'["R"]), NEW f \in Id, Begun(f)'
        PROVE  Known(f)' \/ RTCSendFileHeaderRequest(f) \in Elems(wire'["R"])
    <3>1. OnFiles /\ pc'["R"] = pc["R"] BY <2>1, <2>5 DEF OnFiles
    <3>2. PICK v : v = wire'["R"] OBVIOUS
    <3>3. PICK w : w = wire["R"] OBVIOUS
    <3>4. PICK fr : fr = Front OBVIOUS
    <3>5. Cut(v, w) /\ Len(w) \in Nat /\ (link' = "open" => link = "open" /\ v = w)
      BY <2>2, <2>5, <3>2, <3>3 DEF AsideR, OnFiles
    <3>6. Chain(w, fr, sent, cur) BY <3>1, <3>3, <3>4, Zenon DEF FInv, Stream
    <3>7. Delimiter \in Elems(v) => Elems(v) = Elems(w) BY <3>5, <3>6, ChainCut, Zenon
    <3>8. (link = "open" \/ Delimiter \in Elems(w)) /\ Elems(v) = Elems(w) BY <2>5, <3>2, <3>5, <3>7
    <3>9. Known(f) \/ RTCSendFileHeaderRequest(f) \in Elems(w)
      BY <2>4, <2>5, <3>1, <3>3, <3>8 DEF FInv, Accounts
    <3> QED BY <2>3, <3>1, <3>2, <3>8, <3>9
  <2>6. DelimTaken' => DelimTaken /\ pc'["R"] = pc["R"] BY <2>1 DEF DelimTaken, SameFiles
  <2>7. (DelimTaken => Over /\ \A f \in Id : Begun(f) => Known(f))'
    BY <1>1, <2>3, <2>4, <2>6 DEF FInv, Accounts
  <2>8. pc'["R"] = "done" => wire'["R"] = <<>>
    <3>1. Len(<<>>) = 0 OBVIOUS
    <3>2. pc'["R"] = "done" => wire["R"] = <<>> /\ Cut(wire'["R"], wire["R"])
      BY <2>1 DEF FInv, Accounts, AsideR
    <3> QED BY <3>1, <3>2 DEF Cut
  <2>9. (pc["R"] = "receiving" /\ file_state = NoId /\ ended # {} => errs["R"] # {})'
    BY <2>1 DEF FInv, Accounts, SameFiles
  <2> QED BY <2>5, <2>7, <2>8, <2>9 DEF Accounts
<1>5. Learn'
  <2>1. pc'["S"] = "done" => pc["S"] = "done" \/ selected = Declined \/ ended # {}
    BY DEF AsideS, Before, Waiting
  <2> QED BY <2>1 DEF FInv, Learn, AsideS, SameFiles
<1> QED BY <1>3, <1>4, <1>5

LEMMA EarlyS ==
  ASSUME FInv, NEW n \in Nat, NEW ms, NEW sts, NEW p \in Before \cup {"failed"}, Do("S", n, ms, sts, p),
         pc["S"] \in {"init", "nonce", "token", "askpin", "pinwait", "verify"}, "Declined" \notin sts
  PROVE  AsideR /\ AsideS
<1>0. PICK ps, pr \in Waiting \cup {"done"} :
        /\ pc["S"] \in {ps, "failed"} /\ pc["R"] \in {pr, "failed"}
        /\ Row(ps, pr, wire["S"], wire["R"], selected)
  BY DEF FInv, Talk
<1>1. pc["R"] \notin {"receiving", "result", "done"} BY <1>0, RowIs
<1>2. /\ pc'["S"] = p /\ pc'["R"] = pc["R"] /\ status'["S"] = status["S"] \cup sts
      /\ wire'["S"] = SubSeq(wire["S"], n + 1, Len(wire["S"]))
  BY DoS DEF FInv
<1>3. AsideR BY <1>1, <1>2 DEF AsideR
<1>4. Elems(wire'["S"]) \subseteq Elems(wire["S"])
  <2>1. PICK M : wire \in [Side -> Seq(M)] BY DEF FInv, Shape
  <2>2. wire["S"] \in Seq(M) BY <2>1, Sides
  <2>3. Len(wire["S"]) \in Nat /\ Len(wire["S"]) <= Len(wire["S"]) BY <2>2
  <2>4. Elems(SubSeq(wire["S"], n + 1, Len(wire["S"]))) \subseteq Elems(wire["S"])
    BY <2>2, <2>3, PartOf, Zenon
  <2> QED BY <1>2, <2>4
<1>5. cur = NoId BY DEF FInv, Held
<1>6. pc["S"] \in Before BY DEF Before, Waiting
<1>7. AsideS BY <1>2, <1>4, <1>5, <1>6 DEF AsideS
<1> QED BY <1>3, <1>7

LEMMA EarlyR ==
  ASSUME FInv, NEW n, NEW N, NEW ms \in Seq(N), NEW sts, NEW p, Do("R", n, ms, sts, p),
         \A m \in Elems(ms) : m.t # "fileres", Early,
         p \notin {"receiving", "result", "done"}
  PROVE  AsideR /\ AsideS
<1>1. /\ pc'["R"] = p /\ pc'["S"] = pc["S"] /\ status'["S"] = status["S"]
      /\ wire'["S"] \in {wire["S"], wire["S"] \o ms}
  BY DoR DEF FInv
<1>2. AsideR BY <1>1 DEF AsideR, Early
<1>3. Elems(wire'["S"]) \subseteq Elems(wire["S"]) \cup Elems(ms)
  <2>1. PICK M : wire \in [Side -> Seq(M)] BY DEF FInv, Shape
  <2>2. wire["S"] \in Seq(M \cup N) /\ ms \in Seq(M \cup N) BY <2>1, Sides, SeqGrows
  <2>3. Elems(wire["S"] \o ms) \subseteq Elems(wire["S"]) \cup Elems(ms) BY <2>2, ElemsConcat, Zenon
  <2> QED BY <1>1, <2>3
<1>4. AsideS BY <1>1, <1>3 DEF AsideS
<1> QED BY <1>2, <1>4

LEMMA Lone ==
  ASSUME NEW m PROVE <<m>> \in Seq({m}) /\ Elems(<<m>>) = {m}
BY DEF Elems

LEMMA EarlySays ==
  ASSUME FInv, NEW n, NEW m, NEW sts, NEW p, Do("R", n, <<m>>, sts, p) \/ Do("R", n, <<>>, sts, p),
         m.t # "fileres", Early, p \notin {"receiving", "result", "done"}
  PROVE  AsideR /\ AsideS
<1>1. PICK N, ms : ms \in Seq(N) /\ Do("R", n, ms, sts, p) /\ Elems(ms) \subseteq {m}
  <2>1. CASE Do("R", n, <<m>>, sts, p)
    <3>1. PICK ms : ms = <<m>> OBVIOUS
    <3>2. ms \in Seq({m}) /\ Elems(ms) = {m} BY <3>1, Lone, Zenon
    <3>3. Do("R", n, ms, sts, p) BY <2>1, <3>1
    <3> QED BY <3>2, <3>3
  <2>2. CASE Do("R", n, <<>>, sts, p)
    <3>1. PICK ms : ms = <<>> OBVIOUS
    <3>2. ms \in Seq({}) /\ Elems(ms) = {} BY <3>1 DEF Elems
    <3>3. Do("R", n, ms, sts, p) BY <2>2, <3>1
    <3> QED BY <3>2, <3>3
  <2> QED BY <2>1, <2>2
<1>2. \A k \in Elems(ms) : k.t # "fileres" BY <1>1
<1> QED BY <1>1, <1>2, EarlyR

(* The handshake.                                                          *)
LEMMA AsideNonce ==
  ASSUME FInv, DataChannelOpens \/ ReceiveNonceR \/ ReceiveNonceS \/ ReceiveToken \/ ReceiveTokenResponse
  PROVE  AsideR /\ AsideS /\ SameFiles
<1>b. {"nonce", "token", "verify", "list", "askpin"} \subseteq Before BY DEF Before, Waiting
<1>1. SameFiles
  BY DEF DataChannelOpens, ReceiveNonceR, ReceiveNonceS, ReceiveToken, ReceiveTokenResponse,
         SameFiles, BeforeFiles, files, saved
<1>2. CASE DataChannelOpens
  <2>1. PICK ms : ms = <<RTCNonceMessage("S")>> OBVIOUS
  <2>2. PICK sts : sts = {} OBVIOUS
  <2>3. Do("S", 0, ms, sts, "nonce") /\ pc["S"] = "init" BY <1>2, <2>1, <2>2 DEF DataChannelOpens
  <2> QED BY <1>b, <1>1, <2>2, <2>3, EarlyS
<1>3. CASE ReceiveNonceR
  <2>1. PICK m : m = RTCNonceMessage("R") OBVIOUS
  <2>2. PICK sts : sts = {} OBVIOUS
  <2>3. Do("R", 1, <<m>>, sts, "token") /\ Early BY <1>3, <2>1, <2>2 DEF ReceiveNonceR, Early
  <2>4. m.t # "fileres" BY <2>1 DEF RTCNonceMessage
  <2> QED BY <1>1, <2>3, <2>4, EarlySays
<1>4. CASE ReceiveNonceS
  <2>1. PICK ms : ms = <<RTCTokenRequest(nonce'["S"])>> OBVIOUS
  <2>2. PICK sts : sts = {} OBVIOUS
  <2>3. Do("S", 1, ms, sts, "token") /\ pc["S"] = "nonce" BY <1>4, <2>1, <2>2 DEF ReceiveNonceS
  <2> QED BY <1>b, <1>1, <2>2, <2>3, EarlyS
<1>5. CASE ReceiveToken
  <2>1. PICK st, n, sts, p : /\ Do("R", 1, <<RTCTokenResponse(st, n)>>, sts, p)
                             /\ p \in {"failed", "list", "verify"}
    BY <1>5, Zenon DEF ReceiveToken
  <2>2. PICK m : m = RTCTokenResponse(st, n) OBVIOUS
  <2>3. m.t = "tokenres" BY <2>2 DEF RTCTokenResponse
  <2>4. Early BY <1>5 DEF ReceiveToken, Early
  <2>5. Do("R", 1, <<m>>, sts, p) BY <2>1, <2>2
  <2> QED BY <1>1, <2>1, <2>3, <2>4, <2>5, EarlySays
<1>6. CASE ReceiveTokenResponse
  <2>1. PICK ms, sts, p : /\ Do("S", 1, ms, sts, p) /\ p \in {"failed", "askpin", "list", "verify"}
                          /\ "Declined" \notin sts
    BY <1>6 DEF ReceiveTokenResponse, ChallengeOrList, SendList
  <2>2. pc["S"] = "token" BY <1>6 DEF ReceiveTokenResponse
  <2> QED BY <1>b, <1>1, <2>1, <2>2, EarlyS
<1> QED BY <1>2, <1>3, <1>4, <1>5, <1>6

LEMMA AsidePin ==
  ASSUME FInv, NEW s \in Side, NEW p,
         SendPin(s, p) \/ PinNotProvided(s) \/ VerifyPin(s) \/ PinResponseS \/ PinResponseR
  PROVE  AsideR /\ AsideS /\ SameFiles
<1>b. {"pinwait", "verify", "list", "askpin"} \subseteq Before BY DEF Before, Waiting
<1>1. SameFiles
  BY DEF SendPin, PinNotProvided, VerifyPin, PinResponseS, PinResponseR,
         SameFiles, BeforeFiles, files, saved
<1>2. ASSUME NEW n \in Nat, NEW ms, NEW sts, NEW q \in {"pinwait", "verify", "list", "askpin", "failed"},
             Do("S", n, ms, sts, q), pc["S"] \in {"askpin", "pinwait", "verify"}, "Declined" \notin sts
      PROVE  AsideR /\ AsideS
  BY <1>b, <1>2, EarlyS
<1>3. ASSUME NEW n, NEW m, NEW sts, NEW q \in {"pinwait", "verify", "list", "askpin", "selecting", "failed"},
             Do("R", n, <<m>>, sts, q) \/ Do("R", n, <<>>, sts, q), m.t \in {"pin", "pinres"},
             pc["R"] \in {"askpin", "pinwait", "verify", "list"}
      PROVE  AsideR /\ AsideS
  <2>1. Early BY <1>3 DEF Early
  <2> QED BY <1>3, <2>1, EarlySays
<1>4. CASE SendPin(s, p)
  <2>1. PICK m : m = RTCPinMessage(p) OBVIOUS
  <2>2. PICK sts : sts = {} OBVIOUS
  <2>3. Do(s, 0, <<m>>, sts, "pinwait") /\ pc[s] = "askpin" BY <1>4, <2>1, <2>2 DEF SendPin
  <2>4. m.t = "pin" BY <2>1 DEF RTCPinMessage
  <2>5. CASE s = "S" BY <1>1, <1>2, <2>2, <2>3, <2>5
  <2>6. CASE s = "R" BY <1>1, <1>3, <2>3, <2>4, <2>6
  <2> QED BY <2>5, <2>6 DEF Side
<1>5. CASE PinNotProvided(s)
  <2>1. PICK m : m = RTCPinMessage(p) OBVIOUS
  <2>2. PICK sts : sts = {} OBVIOUS
  <2>3. Do(s, 0, <<>>, sts, "failed") /\ pc[s] = "askpin" BY <1>5, <2>2 DEF PinNotProvided
  <2>4. m.t = "pin" BY <2>1 DEF RTCPinMessage
  <2>5. CASE s = "S" BY <1>1, <1>2, <2>2, <2>3, <2>5
  <2>6. CASE s = "R" BY <1>1, <1>3, <2>3, <2>4, <2>6
  <2> QED BY <2>5, <2>6 DEF Side
<1>6. CASE VerifyPin(s)
  <2>1. pc[s] = "verify" BY <1>6 DEF VerifyPin
  <2>2. CASE s = "S"
    <3>1. PICK ms, sts, q : /\ Do("S", 1, ms, sts, q) /\ q \in {"list", "failed", "verify"}
                            /\ "Declined" \notin sts
      BY <1>6, <2>2 DEF VerifyPin, SendList
    <3> QED BY <1>1, <1>2, <2>1, <2>2, <3>1
  <2>3. CASE s = "R"
    <3>1. PICK st, sts, q : /\ Do("R", 1, <<RTCPinReceivingResponse(st)>>, sts, q)
                            /\ q \in {"list", "failed", "verify"}
      BY <1>6, <2>3 DEF VerifyPin, VerifyPinResult
    <3>2. PICK m : m = RTCPinReceivingResponse(st) OBVIOUS
    <3>3. m.t = "pinres" /\ Do("R", 1, <<m>>, sts, q) BY <3>1, <3>2 DEF RTCPinReceivingResponse
    <3> QED BY <1>1, <1>3, <2>1, <2>3, <3>1, <3>3
  <2> QED BY <2>2, <2>3 DEF Side
<1>7. CASE PinResponseS
  <2>1. PICK ms, sts, q : /\ Do("S", 1, ms, sts, q) /\ q \in {"list", "failed", "verify", "askpin"}
                          /\ "Declined" \notin sts
    BY <1>7 DEF PinResponseS, ChallengeOrList, SendList
  <2>2. pc["S"] = "pinwait" BY <1>7 DEF PinResponseS
  <2> QED BY <1>1, <1>2, <2>1, <2>2
<1>8. CASE PinResponseR
  <2>1. PICK sts, q : Do("R", 2, <<>>, sts, q) /\ q \in {"selecting", "failed", "askpin"}
    BY <1>8 DEF PinResponseR
  <2>2. pc["R"] \in {"list", "pinwait"} BY <1>8 DEF PinResponseR
  <2>3. PICK m : m = RTCPinMessage(p) OBVIOUS
  <2>4. m.t = "pin" BY <2>3 DEF RTCPinMessage
  <2>5. PICK n : n = 2 OBVIOUS
  <2>6. Do("R", n, <<>>, sts, q) BY <2>1, <2>5
  <2>7. q \in {"pinwait", "verify", "list", "askpin", "selecting", "failed"} BY <2>1
  <2>8. m.t \in {"pin", "pinres"} /\ pc["R"] \in {"askpin", "pinwait", "verify", "list"} BY <2>2, <2>4
  <2> QED BY <1>1, <1>3, <2>6, <2>7, <2>8, Zenon
<1> QED BY <1>4, <1>5, <1>6, <1>7, <1>8

(* The main parts, the network and failures.                               *)
LEMMA AsideMain ==
  ASSUME FInv, NEW s \in Side, Main(s) \/ NetworkLost \/ UNCHANGED vars
  PROVE  AsideR /\ AsideS /\ SameFiles
<1>1. SameFiles /\ UNCHANGED pc
  BY DEF Main, TaskDone, Disconnected, Close, TaskFailed, SendOffer, GotAnswer, SendAnswer,
         SdpExchanged, NetworkLost, SameFiles, files, saved, vars
<1>2. "Declined" \in status'["S"] => "Declined" \in status["S"]
  BY DEF Main, TaskDone, Disconnected, Close, TaskFailed, SendOffer, GotAnswer, SendAnswer,
         SdpExchanged, NetworkLost, vars, FInv, Shape, Side
<1>3. PICK M : wire \in [Side -> Seq(M)] BY DEF FInv, Shape
<1>4. ASSUME link' = link \/ GotAnswer, UNCHANGED wire PROVE AsideR /\ AsideS
  <2>1. Cut(wire'["R"], wire["R"]) BY <1>4, CutWire, Sides DEF FInv
  <2>2. GotAnswer => pc["R"] \notin {"receiving", "result", "done"}
    <3>1. PICK ps, pr \in Waiting \cup {"done"} :
            /\ pc["S"] \in {ps, "failed"} /\ pc["R"] \in {pr, "failed"}
            /\ Row(ps, pr, wire["S"], wire["R"], selected)
      BY DEF FInv, Talk
    <3>2. GotAnswer => pc["S"] = "init" BY DEF GotAnswer, FInv, FTypes
    <3> QED BY <3>1, <3>2, RowIs
  <2> QED BY <1>1, <1>2, <1>4, <2>1, <2>2 DEF AsideR, AsideS
<1>5. ASSUME link' = "down", \A t \in Side : Cut(wire'[t], wire[t]) PROVE AsideR /\ AsideS
  <2>1. \A m \in Elems(wire'["S"]) : m \in Elems(wire["S"])
    <3>1. Len(wire["S"]) \in Nat BY Sides, WireSeq DEF FInv
    <3> QED BY <1>5, <3>1, Sides DEF Cut, Elems
  <2> QED BY <1>1, <1>2, <1>5, <2>1, Sides DEF AsideR, AsideS
<1>6. CASE Close(s)
  <2>1. PICK n \in 0..Len(wire[Other(s)]) : wire' = [wire EXCEPT ![Other(s)] = SubSeq(@, 1, n)]
    BY <1>6 DEF Close
  <2>2. Other(s) \in Side BY DEF Other, Side
  <2>3. wire'[Other(s)] = SubSeq(wire[Other(s)], 1, n) /\ \A t \in Side : t # Other(s) => wire'[t] = wire[t]
    BY <1>3, <2>1, <2>2
  <2>4. \A t \in Side : Cut(wire'[t], wire[t]) BY <2>2, <2>3, CutWire DEF FInv
  <2> QED BY <1>1, <1>5, <1>6, <2>4 DEF Close
<1>7. CASE NetworkLost
  <2>1. PICK n \in 0..Len(wire["S"]), m \in 0..Len(wire["R"]) :
          wire' = [t \in Side |-> SubSeq(wire[t], 1, IF t = "S" THEN n ELSE m)]
    BY <1>7 DEF NetworkLost
  <2>2. wire'["S"] = SubSeq(wire["S"], 1, n) /\ wire'["R"] = SubSeq(wire["R"], 1, m) BY <2>1, Sides
  <2>3. Cut(wire'["S"], wire["S"]) /\ Cut(wire'["R"], wire["R"]) BY <2>2, Sides, CutWire DEF FInv
  <2>4. \A t \in Side : Cut(wire'[t], wire[t]) BY <2>3 DEF Side
  <2> QED BY <1>1, <1>5, <1>7, <2>4 DEF NetworkLost
<1>8. CASE ~Close(s) /\ ~NetworkLost
  <2>1. (link' = link \/ GotAnswer) /\ UNCHANGED wire
    BY <1>8 DEF Main, TaskDone, Disconnected, TaskFailed, SendOffer, GotAnswer, SendAnswer,
           SdpExchanged, vars
  <2> QED BY <1>1, <1>4, <2>1
<1> QED BY <1>6, <1>7, <1>8

LEMMA AsideFails ==
  ASSUME FInv, (\E s \in Side : SendFails(s)) \/ SelectionNotPublished \/ HeaderUnparsable \/ FileReceiverDropped
  PROVE  AsideR /\ AsideS /\ SameFiles
<1>1. SameFiles
  BY DEF SendFails, SelectionNotPublished, HeaderUnparsable, FileReceiverDropped, BeforeFiles, Receiving,
         SameFiles, files, saved
<1>2. PICK ms : ms = <<>> OBVIOUS
<1>3. ASSUME NEW n, NEW sts, Do("R", n, ms, sts, "failed") PROVE AsideR /\ AsideS
  <2>1. wire["S"] \o <<>> = wire["S"] BY Sides, WireSeq DEF FInv
  <2>2. /\ pc'["R"] = "failed" /\ pc'["S"] = pc["S"] /\ status'["S"] = status["S"]
        /\ wire'["S"] = wire["S"] \/ wire'["S"] = wire["S"] \o ms
    BY <1>3, DoR DEF FInv
  <2>3. wire'["S"] = wire["S"] BY <1>2, <2>1, <2>2, Zenon
  <2> QED BY <2>2, <2>3 DEF AsideR, AsideS
<1>4. ASSUME NEW n \in Nat, NEW sts, Do("S", n, ms, sts, "failed"), cur = NoId, "Declined" \notin sts
      PROVE AsideR /\ AsideS
  <2>1. wire["R"] \o <<>> = wire["R"] BY Sides, WireSeq DEF FInv
  <2>2. /\ pc'["S"] = "failed" /\ pc'["R"] = pc["R"] /\ status'["S"] = status["S"] \cup sts
        /\ wire'["S"] = SubSeq(wire["S"], n + 1, Len(wire["S"]))
        /\ wire'["R"] = wire["R"] \/ wire'["R"] = wire["R"] \o ms
    BY <1>4, DoS DEF FInv
  <2>3. wire'["R"] = wire["R"] BY <1>2, <2>1, <2>2, Zenon
  <2>4. Cut(wire'["R"], wire["R"]) BY <2>3, Sides, CutWire DEF FInv
  <2>5. Elems(wire'["S"]) \subseteq Elems(wire["S"])
    <3>1. PICK M : wire \in [Side -> Seq(M)] BY DEF FInv, Shape
    <3>2. wire["S"] \in Seq(M) BY <3>1, Sides
    <3>3. Len(wire["S"]) \in Nat /\ Len(wire["S"]) <= Len(wire["S"]) BY <3>2
    <3>4. Elems(SubSeq(wire["S"], n + 1, Len(wire["S"]))) \subseteq Elems(wire["S"])
      BY <3>2, <3>3, PartOf, Zenon
    <3> QED BY <2>2, <3>4
  <2>6. link' = link
    BY <1>4 DEF SendFails, SelectionNotPublished, HeaderUnparsable, FileReceiverDropped, BeforeFiles, Receiving
  <2> QED BY <1>4, <2>2, <2>3, <2>4, <2>5, <2>6 DEF AsideR, AsideS
<1>5. PICK sts : sts = {} OBVIOUS
<1>6. ASSUME NEW s \in Side, SendFails(s) PROVE AsideR /\ AsideS
  <2>1. Do(s, 0, ms, sts, "failed") /\ (s = "S" => cur = NoId) BY <1>2, <1>5, <1>6 DEF SendFails
  <2>2. CASE s = "S" BY <1>4, <1>5, <2>1, <2>2
  <2>3. CASE s = "R" BY <1>3, <2>1, <2>3
  <2> QED BY <2>2, <2>3 DEF Side
<1>7. CASE SelectionNotPublished
  <2>1. Do("S", 2, ms, {"Error"}, "failed") /\ pc["S"] = "list" BY <1>2, <1>7 DEF SelectionNotPublished
  <2>2. cur = NoId BY <2>1 DEF FInv, Held
  <2> QED BY <1>1, <1>4, <2>1, <2>2
<1>8. CASE HeaderUnparsable \/ FileReceiverDropped
  <2>1. Do("R", 1, ms, sts, "failed") BY <1>2, <1>5, <1>8 DEF HeaderUnparsable, FileReceiverDropped
  <2> QED BY <1>1, <1>3, <2>1
<1> QED BY <1>1, <1>6, <1>7, <1>8

-----------------------------------------------------------------------------
(* The selection.                                                          *)

LEMMA AsideSelection ==
  ASSUME FInv, ReceiveSelection PROVE AsideR /\ AsideS /\ SameFiles
<1>0. PICK ps, pr \in Waiting \cup {"done"} :
        /\ pc["S"] \in {ps, "failed"} /\ pc["R"] \in {pr, "failed"}
        /\ Row(ps, pr, wire["S"], wire["R"], selected)
  BY DEF FInv, Talk
<1>1. SameFiles BY DEF ReceiveSelection, SameFiles, files, saved
<1>2. PICK ms : ms = <<>> OBVIOUS
<1>n. PICK n \in Nat : n = 2 OBVIOUS
<1>3. PICK sts, p : /\ Do("S", n, ms, sts, p) /\ link' = link
                    /\ \/ p = "done" /\ wire["S"][1].v = Declined
                       \/ p = "sending" /\ "Declined" \notin sts
  BY <1>2, <1>n DEF ReceiveSelection
<1>4. pc["S"] = "list" /\ NextBody("S") BY DEF ReceiveSelection
<1>5. wire["S"][1].v = selected
  <2>1. Len(wire["S"]) \in Nat /\ Len(wire["S"]) >= 2 /\ (wire["S"] = <<>> <=> Len(wire["S"]) = 0)
    BY <1>4, Sides, WireSeq DEF NextBody, FInv
  <2>2. wire["S"] # <<>> BY <2>1
  <2> QED BY <1>0, <1>4, <2>2, RowIs
<1>6. wire["R"] \o <<>> = wire["R"] BY Sides, WireSeq DEF FInv
<1>7. /\ pc'["S"] = p /\ pc'["R"] = pc["R"] /\ status'["S"] = status["S"] \cup sts
      /\ wire'["S"] = SubSeq(wire["S"], n + 1, Len(wire["S"]))
      /\ wire'["R"] = wire["R"] \/ wire'["R"] = wire["R"] \o ms
  BY <1>3, DoS DEF FInv
<1>8. wire'["R"] = wire["R"] BY <1>2, <1>6, <1>7, Zenon
<1>9. Cut(wire'["R"], wire["R"]) BY <1>8, Sides, CutWire DEF FInv
<1>10. Elems(wire'["S"]) \subseteq Elems(wire["S"])
  <2>1. PICK M : wire \in [Side -> Seq(M)] BY DEF FInv, Shape
  <2>2. wire["S"] \in Seq(M) BY <2>1, Sides
  <2>3. Len(wire["S"]) \in Nat /\ Len(wire["S"]) <= Len(wire["S"]) BY <2>2
  <2>5. Elems(SubSeq(wire["S"], n + 1, Len(wire["S"]))) \subseteq Elems(wire["S"])
    BY <2>2, <2>3, PartOf, Zenon
  <2> QED BY <1>7, <2>5
<1>11. AsideR BY <1>3, <1>7, <1>8, <1>9 DEF AsideR
<1>12. AsideS BY <1>3, <1>4, <1>5, <1>7, <1>10 DEF AsideS
<1> QED BY <1>1, <1>11, <1>12

LEMMA Nothing ==
  ASSUME NEW p, NEW sn, NEW c, NEW U
  PROVE  /\ Len(<<>>) = 0 /\ Elems(<<>>) = {} /\ Chain(<<>>, p, sn, c) /\ Heads(<<>>, U)
         /\ Prior(<<>>, p, Len(<<>>) + 1) = p
<1>1. Len(<<>>) = 0 /\ 1..0 = {} /\ 0 + 1 = 1 OBVIOUS
<1>2. Elems(<<>>) = {} BY <1>1 DEF Elems
<1>3. Chain(<<>>, p, sn, c) /\ Heads(<<>>, U) BY <1>1 DEF Chain, Heads
<1>4. Prior(<<>>, p, Len(<<>>) + 1) = p BY <1>1 DEF Prior
<1> QED BY <1>1, <1>2, <1>3, <1>4

(* The receiving user answers, or the app does not.                        *)
LEMMA Answers ==
  ASSUME FInv, NEW b, NEW p \in {"receiving", "done"},
         pc["R"] = "selecting", pc'["R"] = p, pc'["S"] = pc["S"], selected' = b,
         b \in {NoAnswer, Declined} \/ b.st = "Ok", p = "receiving" <=> b.st = "Ok",
         UNCHANGED <<cur, sent, file_state, msg, got, ended, link>>, errs'["R"] = errs["R"],
         status'["S"] = status["S"], wire'["R"] = <<>>,
         \A m \in Elems(wire'["S"]) : m.t # "fileres"
  PROVE  Stream' /\ Result' /\ Held' /\ Accounts' /\ Learn'
<1>0. PICK ps, pr \in Waiting \cup {"done"} :
        /\ pc["S"] \in {ps, "failed"} /\ pc["R"] \in {pr, "failed"}
        /\ Row(ps, pr, wire["S"], wire["R"], selected)
  BY DEF FInv, Talk
<1>1. pc["S"] \in {"list", "failed"} BY <1>0, RowIs
<1>2. /\ file_state = NoId /\ ended = {} /\ errs["R"] = {} /\ selected = NoAnswer
      /\ \A f \in Id : got[f] = <<>>
      /\ \A f \in Id : ~Begun(f)
      /\ cur = NoId
  BY <1>1 DEF FInv, Held, Early
<1>3. Stream'
  <2>1. OnFiles' => Front' = Nowhere BY <1>2 DEF OnFiles, Front
  <2>2. Nowhere.f = NoId BY DEF Nowhere
  <2>3. PICK w : w = <<>> OBVIOUS
  <2>4. PICK U : U = Unseen' OBVIOUS
  <2>5. Chain(w, Nowhere, sent, cur) /\ Heads(w, U) /\ Delimiter \notin Elems(w)
        /\ Tip(Prior(w, Nowhere, Len(w) + 1), sent, cur)
    BY <2>2, <2>3, Nothing DEF Tip
  <2>6. wire'["R"] = w /\ sent' = sent /\ cur' = cur BY <2>3
  <2> QED BY <2>1, <2>4, <2>5, <2>6, Zenon DEF Stream
<1>4. Result' BY DEF Result
<1>5. \A f \in Id : HeldOf(f)'
  <2>1. Len(<<>>) = 0 /\ 1..0 = {} OBVIOUS
  <2> QED BY <1>2, <2>1 DEF HeldOf, Untouched, Begun, FInv, FTypes
<1>6. Held'
  <2>1. ~Early' BY DEF Early
  <2>2. \A f \in Id : ~Begun(f)' BY <1>2 DEF Begun
  <2> QED BY <1>2, <1>5, <2>1, <2>2 DEF Held, OnFiles
<1>7. Accounts'
  <2>1. ~DelimTaken' BY DEF DelimTaken
  <2>2. \A f \in Id : ~Begun(f)' BY <1>2 DEF Begun
  <2> QED BY <1>2, <2>1, <2>2 DEF Accounts
<1>8. Learn'
  <2>1. NoAnswer # Declined BY DEF NoAnswer, Declined
  <2>2. pc'["S"] # "done" BY <1>1
  <2> QED BY <1>2, <2>1, <2>2 DEF Learn, FInv
<1> QED BY <1>3, <1>4, <1>6, <1>7, <1>8

LEMMA SelectFiles ==
  ASSUME FInv, (\E sel \in SUBSET Id : SendSelection(sel)) \/ Decline \/ DropSelection
  PROVE  Stream' /\ Result' /\ Held' /\ Accounts' /\ Learn'
<1>0. PICK ps, pr \in Waiting \cup {"done"} :
        /\ pc["S"] \in {ps, "failed"} /\ pc["R"] \in {pr, "failed"}
        /\ Row(ps, pr, wire["S"], wire["R"], selected)
  BY DEF FInv, Talk
<1>1. pc["R"] = "selecting" BY DEF SendSelection, Decline, DropSelection
<1>2. wire["S"] = <<>> /\ wire["R"] = <<>> BY <1>0, <1>1, RowIs
<1>3. UNCHANGED <<cur, sent, file_state, msg, got, ended, link>> /\ errs'["R"] = errs["R"]
  BY DEF SendSelection, Decline, DropSelection, BeforeFiles, files, saved
<1>4. ASSUME NEW b, NEW ms, NEW p \in {"receiving", "done"}, Do("R", 0, ms, {}, p), selected' = b,
             b \in {NoAnswer, Declined} \/ b.st = "Ok", p = "receiving" <=> b.st = "Ok",
             <<>> \o ms = ms, \A m \in Elems(ms) : m.t # "fileres"
      PROVE  Stream' /\ Result' /\ Held' /\ Accounts' /\ Learn'
  <2>1. PICK n, sts : n = 0 /\ sts = {} /\ Do("R", n, ms, sts, p) BY <1>4
  <2>2. /\ pc'["R"] = p /\ pc'["S"] = pc["S"] /\ status'["S"] = status["S"]
        /\ wire'["R"] = SubSeq(wire["R"], n + 1, Len(wire["R"]))
        /\ wire'["S"] = wire["S"] \/ wire'["S"] = wire["S"] \o ms
    <3>1. Shape BY DEF FInv
    <3>2. status["S"] \cup {} = status["S"] OBVIOUS
    <3>3. After("R", n, ms, sts, p) BY <2>1, <3>1, Sides, DoAfter, Zenon
    <3> QED BY <2>1, <3>2, <3>3, Sides, Zenon DEF After
  <2>3. SubSeq(<<>>, 0 + 1, Len(<<>>)) = <<>> /\ Elems(<<>>) = {} BY DEF Elems
  <2>4. wire'["R"] = <<>> BY <1>2, <2>1, <2>2, <2>3, Zenon
  <2>5. Elems(wire'["S"]) \subseteq Elems(ms) BY <1>2, <1>4, <2>2, <2>3
  <2>6. \A m \in Elems(wire'["S"]) : m.t # "fileres" BY <1>4, <2>5
  <2> QED BY <1>1, <1>3, <1>4, <2>2, <2>4, <2>6, Answers
<1>5. ASSUME NEW b PROVE <<>> \o InChunks(b) = InChunks(b) /\ \A m \in Elems(InChunks(b)) : m.t # "fileres"
  BY DEF InChunks, Elems, Delimiter
<1>6. ASSUME NEW sel \in SUBSET Id, SendSelection(sel) PROVE Stream' /\ Result' /\ Held' /\ Accounts' /\ Learn'
  <2>1. PICK b : b = Accepted(sel) OBVIOUS
  <2>2. PICK ms : ms = InChunks(b) OBVIOUS
  <2>3. Do("R", 0, ms, {}, "receiving") /\ selected' = b
    BY <1>6, <2>1, <2>2 DEF SendSelection, RTCFileListResponse
  <2>4. b.st = "Ok" BY <2>1 DEF Accepted
  <2>5. <<>> \o ms = ms /\ \A m \in Elems(ms) : m.t # "fileres" BY <1>5, <2>2
  <2> QED BY <1>4, <2>3, <2>4, <2>5
<1>7. CASE Decline
  <2>1. PICK b : b = Declined OBVIOUS
  <2>2. PICK ms : ms = InChunks(b) OBVIOUS
  <2>3. Do("R", 0, ms, {}, "done") /\ selected' = b
    BY <1>7, <2>1, <2>2 DEF Decline, RTCFileListResponse
  <2>4. b \in {NoAnswer, Declined} /\ b.st # "Ok" BY <2>1 DEF Declined
  <2>5. <<>> \o ms = ms /\ \A m \in Elems(ms) : m.t # "fileres" BY <1>5, <2>2
  <2> QED BY <1>4, <2>3, <2>4, <2>5
<1>8. CASE DropSelection
  <2>1. PICK b : b = NoAnswer OBVIOUS
  <2>2. PICK ms : ms = <<>> OBVIOUS
  <2>3. selected = NoAnswer BY <1>1 DEF FInv, Held, Early
  <2>4. Do("R", 0, ms, {}, "done") /\ selected' = b
    BY <1>8, <2>1, <2>2, <2>3 DEF DropSelection, BeforeFiles
  <2>5. b \in {NoAnswer, Declined} /\ b.st # "Ok" BY <2>1 DEF NoAnswer
  <2>6. <<>> \o ms = ms /\ \A m \in Elems(ms) : m.t # "fileres" BY <2>2 DEF Elems
  <2> QED BY <1>4, <2>4, <2>5, <2>6
<1> QED BY <1>6, <1>7, <1>8

-----------------------------------------------------------------------------
(* The sending loop.                                                       *)

LEMMA FrontSound == ASSUME FInv, OnFiles PROVE Sound(Front, sent)
<1>1. Sound(Nowhere, sent) BY DEF Sound, Nowhere
<1>2. CASE pc["R"] = "result"
  <2>1. CASE msg = Delimiter
    <3>1. Place(msg) = Nowhere BY <2>1 DEF Place, Delimiter
    <3> QED BY <1>1, <1>2, <3>1 DEF Front
  <2>2. CASE msg # Delimiter
    <3>1. PICK f \in Id : msg = RTCSendFileHeaderRequest(f) /\ Begun(f) BY <1>2, <2>2 DEF FInv, Result
    <3>2. Item(msg, sent) BY <3>1 DEF Item, RTCSendFileHeaderRequest, Begun
    <3> QED BY <1>2, <3>2, ItemPlace DEF Front
  <2> QED BY <2>1, <2>2
<1>3. CASE pc["R"] # "result" /\ file_state # NoId
  <2>1. file_state \in Id BY <1>3 DEF FInv, FTypes
  <2>2. sent[file_state] # NotSent BY <2>1 DEF FInv, Held, HeldOf, Untouched, Begun
  <2>3. Front.f = file_state BY <1>3 DEF Front
  <2> QED BY <2>1, <2>2, <2>3 DEF Sound
<1>4. CASE pc["R"] # "result" /\ file_state = NoId BY <1>1, <1>4 DEF Front
<1> QED BY <1>2, <1>3, <1>4

(* A step of the sending loop, and what it puts on the way.                *)
SenderMoves ==
  /\ pc["S"] = "sending" /\ pc'["S"] \in {"sending", "confirm"} /\ pc'["R"] = pc["R"]
  /\ UNCHANGED <<selected, file_state, msg, got, ended, link>> /\ errs'["R"] = errs["R"]
  /\ status'["S"] = status["S"] /\ Elems(wire'["S"]) \subseteq Elems(wire["S"])
  /\ Moves(sent, cur, sent', cur')
  /\ pc'["S"] = "confirm" => cur' = NoId
  /\ cur' # NoId => cur' \in Id /\ sent'[cur'] # NotSent
Silent ==
  /\ wire'["R"] = wire["R"]
  /\ link = "open" => /\ \A q : Tip(q, sent, cur) => Tip(q, sent', cur')
                      /\ \A f \in Id : sent'[f] # NotSent => sent[f] # NotSent
Says(m) ==
  /\ link = "open" /\ Pushed(wire'["R"], wire["R"], m) /\ Item(m, sent')
  /\ \A q : Sound(q, sent) /\ Tip(q, sent, cur) => Follows(q, m, sent', cur')
  /\ Tip(Place(m), sent', cur')
  /\ m.t = "header" => m.v \in Id /\ sent[m.v] = NotSent
  /\ m = Delimiter => pc'["S"] = "confirm"
  /\ \A f \in Id : sent'[f] # NotSent => sent[f] # NotSent \/ m = RTCSendFileHeaderRequest(f)

LEMMA SenderStream ==
  ASSUME FInv, SenderMoves, NEW m, Silent \/ Says(m)
  PROVE  Stream' /\ Result'
<1>1. ~Over BY DEF SenderMoves, Over
<1>2. Len(wire["R"]) \in Nat BY Sides, WireSeq DEF FInv
<1>3. ASSUME OnFiles
      PROVE /\ Chain(wire'["R"], Front', sent', cur')
            /\ link' = "open" => Tip(Prior(wire'["R"], Front', Len(wire'["R"]) + 1), sent', cur')
            /\ Heads(wire'["R"], Unseen')
            /\ Delimiter \in Elems(wire'["R"]) => Over'
  <2>1. PICK v : v = wire'["R"] OBVIOUS
  <2>2. PICK w : w = wire["R"] OBVIOUS
  <2>3. PICK fr : fr = Front OBVIOUS
  <2>4. PICK sn : sn = sent' OBVIOUS
  <2>5. PICK c : c = cur' OBVIOUS
  <2>6. /\ Chain(w, fr, sent, cur) /\ Heads(w, Unseen) /\ Delimiter \notin Elems(w)
        /\ link = "open" => Tip(Prior(w, fr, Len(w) + 1), sent, cur)
    BY <1>1, <1>3, <2>2, <2>3, Zenon DEF FInv, Stream
  <2>7. Sound(fr, sent) /\ Len(w) \in Nat /\ Moves(sent, cur, sn, c)
    BY <1>2, <1>3, <2>2, <2>3, <2>4, <2>5, FrontSound DEF SenderMoves
  <2>8. Chain(w, fr, sn, c) BY <2>6, <2>7, ChainMoves, Zenon
  <2>9. Front' = fr /\ Unseen' = Unseen BY <2>3 DEF SenderMoves, Front, Unseen, Untouched
  <2>10. CASE Silent
    <3>1. v = w BY <2>1, <2>2, <2>10 DEF Silent
    <3>2. link' = "open" => Tip(Prior(v, fr, Len(v) + 1), sn, c)
      <4>1. link' = link BY DEF SenderMoves
      <4>2. link = "open" => \A q : Tip(q, sent, cur) => Tip(q, sn, c)
        BY <2>4, <2>5, <2>10, Zenon DEF Silent
      <4> QED BY <2>6, <3>1, <4>1, <4>2, Zenon
    <3> QED BY <2>1, <2>4, <2>5, <2>6, <2>8, <2>9, <3>1, <3>2, Zenon
  <2>11. CASE Says(m)
    <3>1. /\ link = "open" /\ Pushed(v, w, m) /\ Item(m, sn)
          /\ \A q : Sound(q, sent) /\ Tip(q, sent, cur) => Follows(q, m, sn, c)
          /\ Tip(Place(m), sn, c)
      BY <2>1, <2>2, <2>4, <2>5, <2>11, Zenon DEF Says
    <3>2. Follows(Prior(w, fr, Len(w) + 1), m, sn, c)
      <4>1. Len(w) + 1 \in 1..Len(w) + 1 BY <2>7
      <4>2. Sound(Prior(w, fr, Len(w) + 1), sent) BY <2>6, <2>7, <4>1, PriorSound, Zenon
      <4> QED BY <2>6, <3>1, <4>2
    <3>3. Chain(v, fr, sn, c) /\ Prior(v, fr, Len(v) + 1) = Place(m)
      BY <2>6, <2>8, <3>1, <3>2, ChainPush, Zenon
    <3>4. Heads(v, Unseen)
      <4>1. \A i \in 1..Len(w) : w[i].t = "header" => w[i].v \in Unseen BY <2>6 DEF Heads
      <4>2. ASSUME m.t = "header" PROVE m.v \in Unseen /\ m \notin Elems(w)
        <5>1. m.v \in Id /\ sent[m.v] = NotSent BY <2>11, <4>2 DEF Says
        <5>2. Untouched(m.v) BY <5>1 DEF FInv, Held, HeldOf, Begun
        <5>3. ~(pc["R"] = "result" /\ msg = RTCSendFileHeaderRequest(m.v))
          <6>1. \A f \in Id : RTCSendFileHeaderRequest(f) = RTCSendFileHeaderRequest(m.v) => f = m.v
            BY DEF RTCSendFileHeaderRequest
          <6>2. RTCSendFileHeaderRequest(m.v) # Delimiter BY DEF RTCSendFileHeaderRequest, Delimiter
          <6> QED BY <5>1, <6>1, <6>2 DEF FInv, Result, Begun
        <5>4. ASSUME NEW i \in 1..Len(w), w[i] = m PROVE FALSE
          <6>1. Item(m, sent) BY <2>6, <5>4 DEF Chain
          <6>2. m # Delimiter BY <4>2 DEF Delimiter
          <6> QED BY <4>2, <5>1, <6>1, <6>2 DEF Item
        <5> QED BY <5>1, <5>2, <5>3, <5>4 DEF Unseen, Elems
      <4> QED BY <2>6, <3>1, <4>1, <4>2, HeadsPush
    <3>5. Delimiter \in Elems(v) => Over'
      <4>1. Delimiter \in Elems(v) => m = Delimiter
        <5>1. \A i \in 1..Len(v) : i \in 1..Len(w) \/ i = Len(w) + 1 BY <2>7, <3>1 DEF Pushed
        <5> QED BY <2>6, <3>1, <5>1 DEF Pushed, Elems
      <4> QED BY <2>11, <4>1 DEF Says, Over
    <3> QED BY <2>1, <2>4, <2>5, <2>9, <3>1, <3>3, <3>4, <3>5, Zenon
  <2> QED BY <2>10, <2>11
<1>4. OnFiles' => OnFiles BY DEF SenderMoves, OnFiles
<1>5. Stream' BY <1>3, <1>4, Zenon DEF Stream
<1>6. Result'
  <2>1. \A f \in Id : Begun(f) => Begun(f)' BY DEF SenderMoves, Moves, Begun
  <2>2. \A f \in Id : Untouched(f) => Untouched(f)' BY DEF SenderMoves, Untouched
  <2>3. pc'["R"] = pc["R"] /\ UNCHANGED <<file_state, ended, msg>> BY DEF SenderMoves
  <2> QED BY <1>1, <2>1, <2>2, <2>3 DEF FInv, Result
<1> QED BY <1>5, <1>6

LEMMA SenderHeld ==
  ASSUME FInv, SenderMoves, NEW m, Silent \/ Says(m)
  PROVE  Held' /\ Accounts' /\ Learn'
<1>0. PICK ps, pr \in Waiting \cup {"done"} :
        /\ pc["S"] \in {ps, "failed"} /\ pc["R"] \in {pr, "failed"}
        /\ Row(ps, pr, wire["S"], wire["R"], selected)
  BY DEF FInv, Talk
<1>1. ~Over /\ ~DelimTaken BY DEF SenderMoves, Over, FInv, Accounts
<1>2. pc["R"] \in {"receiving", "result", "failed"}
  <2>1. ps = "sending" BY <1>0 DEF SenderMoves
  <2>2. pr \in {"receiving", "result", "done"} /\ (pr = "done" => selected.st = "Ok")
    BY <1>0, <2>1, RowIs
  <2> QED BY <1>0, <1>1, <2>2 DEF DelimTaken
<1>3. UNCHANGED <<selected, file_state, msg, got, ended, link>> /\ errs'["R"] = errs["R"]
      /\ pc'["R"] = pc["R"] /\ status'["S"] = status["S"]
  BY DEF SenderMoves
<1>4. \A f \in Id : Begun(f) => Begun(f)' BY DEF SenderMoves, Moves, Begun
<1>5. ASSUME NEW f \in Id PROVE HeldOf(f)'
  <2>1. HeldOf(f) BY DEF FInv, Held
  <2>2. (~Begun(f) => Untouched(f))' BY <1>3, <1>4, <2>1 DEF HeldOf, Untouched
  <2>3. Begun(f) => /\ sent[f] \in Nat /\ sent'[f] \in Nat /\ sent[f] <= sent'[f]
                    /\ cur # f => sent'[f] = sent[f] /\ cur' # f
    BY DEF SenderMoves, Moves, Begun
  <2>4. Len(got[f]) \in Nat BY DEF FInv, FTypes
  <2>5. got[f] # <<>> => Len(got[f]) <= sent'[f]
    <3>1. got[f] # <<>> => Begun(f) /\ Len(got[f]) <= sent[f] BY <2>1 DEF HeldOf, Untouched
    <3> QED BY <2>3, <2>4, <3>1
  <2>6. f \in ended => /\ Begun(f)' /\ f \in selected.files \cap Offered
                       /\ cur' # f /\ Len(got[f]) = sent'[f] /\ file_state # f
    BY <1>4, <2>1, <2>3 DEF HeldOf
  <2>7. \A i \in 1..Len(got[f]) : got[f][i] = <<f, i>> BY <2>1 DEF HeldOf
  <2> QED BY <1>3, <2>2, <2>5, <2>6, <2>7 DEF HeldOf
<1>6. Held'
  <2>1. ~Early' /\ pc'["S"] \notin Waiting \ {"sending", "confirm"} BY <1>2, <1>3 DEF Early, SenderMoves
  <2>2. pc'["S"] # "sending" => cur' = NoId BY DEF SenderMoves
  <2>3. (cur # NoId => Begun(cur))' BY DEF SenderMoves, Begun
  <2>4. (OnFiles => selected.st = "Ok")' BY <1>3 DEF FInv, Held, OnFiles
  <2>5. (file_state # NoId => file_state \in selected.files \cap Offered)' BY <1>3 DEF FInv, Held
  <2> QED BY <1>5, <2>1, <2>2, <2>3, <2>4, <2>5 DEF Held
<1>7. Accounts'
  <2>1. \A f \in Id : Known(f) => Known(f)' BY <1>3 DEF Known
  <2>2. OnFiles => Delimiter \notin Elems(wire["R"]) BY <1>1 DEF FInv, Stream
  <2>3. ASSUME OnFiles', link' = "open" \/ Delimiter \in Elems(wire'["R"]), NEW f \in Id, Begun(f)'
        PROVE  Known(f)' \/ RTCSendFileHeaderRequest(f) \in Elems(wire'["R"])
    <3>1. OnFiles BY <1>3, <2>3 DEF OnFiles
    <3>2. link = "open" BY <1>3, <2>2, <2>3, <3>1 DEF Silent, Says
    <3>3. Begun(f) => Known(f) \/ RTCSendFileHeaderRequest(f) \in Elems(wire["R"])
      BY <3>1, <3>2 DEF FInv, Accounts
    <3>4. CASE Silent BY <2>1, <2>3, <3>2, <3>3, <3>4 DEF Silent, Begun
    <3>5. CASE Says(m)
      <4>1. Elems(wire["R"]) \subseteq Elems(wire'["R"]) /\ m \in Elems(wire'["R"])
        <5>1. PICK v : v = wire'["R"] OBVIOUS
        <5>2. PICK w : w = wire["R"] OBVIOUS
        <5>3. Pushed(v, w, m) BY <3>5, <5>1, <5>2 DEF Says
        <5>4. Len(w) \in Nat /\ Len(v) = Len(w) + 1 /\ v[Len(w) + 1] = m
              /\ \A i \in 1..Len(w) : v[i] = w[i]
          BY <5>3 DEF Pushed
        <5>5. Len(w) + 1 \in 1..Len(v) /\ \A i \in 1..Len(w) : i \in 1..Len(v) BY <5>4
        <5>6. Elems(w) \subseteq Elems(v) /\ m \in Elems(v) BY <5>4, <5>5 DEF Elems
        <5> QED BY <5>1, <5>2, <5>6
      <4>2. Begun(f) \/ m = RTCSendFileHeaderRequest(f) BY <2>3, <3>5 DEF Says, Begun
      <4> QED BY <2>1, <3>3, <4>1, <4>2
    <3> QED BY <3>4, <3>5
  <2>4. ~DelimTaken' BY <1>1, <1>3 DEF DelimTaken
  <2>5. (pc["R"] = "receiving" /\ file_state = NoId /\ ended # {} => errs["R"] # {})'
    BY <1>3 DEF FInv, Accounts
  <2>6. pc'["R"] # "done" BY <1>2, <1>3
  <2> QED BY <2>3, <2>4, <2>5, <2>6 DEF Accounts
<1>8. Learn'
  <2>1. pc'["S"] # "done" /\ Elems(wire'["S"]) \subseteq Elems(wire["S"]) BY DEF SenderMoves
  <2> QED BY <1>3, <2>1 DEF FInv, Learn
<1> QED BY <1>6, <1>7, <1>8

(* The steps of the loop.                                                  *)
LEMMA SendSteps ==
  ASSUME FInv, \/ (\E f \in Id : SendFile(f) \/ SendFileFails(f))
               \/ SendChunk \/ EndFile \/ EndSending
  PROVE  SenderMoves /\ \E m : Silent \/ Says(m)
<1>t. cur \in Id \cup {NoId} /\ sent \in [Id -> 0..NotSent] /\ MaxChunks \in Nat /\ NotSent = MaxChunks + 1
  BY DEF FInv, FTypes, NotSent
<1>u. /\ UNCHANGED <<selected, file_state, msg, got, ended, link>> /\ errs'["R"] = errs["R"]
      /\ pc["S"] = "sending"
  BY Sides DEF SendFile, SendFileFails, SendChunk, EndFile, EndSending, Sending, files, saved, FInv, FTypes, Side
<1>m. \A c : c \in {NoId, cur} => Moves(sent, cur, sent, c)
  BY <1>t DEF Moves
<1>s. ASSUME UNCHANGED <<pc, wire, status, sent>>, cur' \in {NoId, cur} PROVE SenderMoves /\ Silent
  <2>1. Moves(sent, cur, sent', cur') BY <1>m, <1>s
  <2>2. \A q : Tip(q, sent, cur) => Tip(q, sent', cur') BY <1>s DEF Tip
  <2>3. cur' # NoId => cur' \in Id /\ sent'[cur'] # NotSent BY <1>s, <1>t DEF FInv, Held, Begun
  <2>4. SenderMoves BY <1>s, <1>u, <2>1, <2>3 DEF SenderMoves
  <2>5. Silent BY <1>s, <2>2 DEF Silent
  <2> QED BY <2>4, <2>5
<1>d. ASSUME NEW m, NEW p \in {"sending", "confirm"}, Do("S", 0, <<m>>, {}, p)
      PROVE  /\ pc'["S"] = p /\ pc'["R"] = pc["R"] /\ status'["S"] = status["S"]
             /\ Elems(wire'["S"]) \subseteq Elems(wire["S"])
             /\ link # "open" => wire'["R"] = wire["R"]
             /\ link = "open" => Pushed(wire'["R"], wire["R"], m)
  <2>1. PICK n, sts, ms : n = 0 /\ sts = {} /\ ms = <<m>> /\ Do("S", n, ms, sts, p) BY <1>d
  <2>2. /\ pc'["S"] = p /\ pc'["R"] = pc["R"] /\ status'["S"] = status["S"] \cup sts
        /\ wire'["S"] = SubSeq(wire["S"], n + 1, Len(wire["S"]))
        /\ link = "open" => wire'["R"] = wire["R"] \o ms
        /\ link # "open" => wire'["R"] = wire["R"]
    <3>1. Shape BY DEF FInv
    <3>2. After("S", n, ms, sts, p) BY <2>1, <3>1, Sides, DoAfter, Zenon
    <3> QED BY <3>2, Sides, Zenon DEF After
  <2>3. SubSeq(wire["S"], 1, Len(wire["S"])) = wire["S"] BY Sides, WireSeq DEF FInv
  <2>4. n + 1 = 1 BY <2>1
  <2>5. wire'["S"] = wire["S"] BY <2>2, <2>3, <2>4, Zenon
  <2>6. PICK M : wire \in [Side -> Seq(M)] BY DEF FInv, Shape
  <2>7. wire["R"] \in Seq(M) BY <2>6, Sides
  <2>8. Pushed(wire["R"] \o <<m>>, wire["R"], m) BY <2>7, PushedIs, Zenon
  <2> QED BY <2>1, <2>2, <2>5, <2>8
<1>1. ASSUME NEW f \in Id, SendFileFails(f) PROVE SenderMoves /\ Silent
  BY <1>1, <1>s DEF SendFileFails, Sending
<1>2. CASE EndFile BY <1>2, <1>s DEF EndFile, Sending
<1>3. ASSUME NEW f \in Id, SendFile(f), f \notin file_map PROVE SenderMoves /\ Silent
  BY <1>3, <1>s DEF SendFile, Sending, files
<1>4. ASSUME NEW f \in Id, SendFile(f), f \in file_map
      PROVE  SenderMoves /\ \E m : Silent \/ Says(m)
  <2>1. PICK m : m = RTCSendFileHeaderRequest(f) OBVIOUS
  <2>2. /\ Do("S", 0, <<m>>, {}, "sending") /\ cur' = f /\ sent' = [sent EXCEPT ![f] = 0]
        /\ cur = NoId /\ sent[f] = NotSent
    BY <1>4, <2>1 DEF SendFile
  <2>3. m.t = "header" /\ m.v = f /\ m # Delimiter BY <2>1 DEF RTCSendFileHeaderRequest, Delimiter
  <2>4. sent'[f] = 0 /\ 0 # NotSent /\ \A g \in Id : g # f => sent'[g] = sent[g] BY <1>t, <2>2
  <2>5. Moves(sent, cur, sent', cur') BY <1>t, <2>2, <2>4 DEF Moves
  <2>6. SenderMoves BY <1>d, <1>u, <2>2, <2>4, <2>5 DEF SenderMoves
  <2>7. CASE link # "open" BY <1>d, <2>2, <2>6, <2>7 DEF Silent
  <2>8. CASE link = "open"
    <3>1. Item(m, sent') BY <2>1, <2>3, <2>4 DEF Item
    <3>2. ASSUME NEW q, Sound(q, sent), Tip(q, sent, cur) PROVE Follows(q, m, sent', cur')
      BY <2>2, <2>3, <2>4, <3>2 DEF Sound, Tip, Follows, Closed
    <3>3. Tip(Place(m), sent', cur')
      <4>1. Place(m) = [f |-> f, k |-> 0] BY <2>3 DEF Place
      <4>2. Place(m).f = f /\ Place(m).k = 0 BY <4>1
      <4> QED BY <2>2, <2>4, <4>2 DEF Tip
    <3>4. \A g \in Id : sent'[g] # NotSent => sent[g] # NotSent \/ m = RTCSendFileHeaderRequest(g)
      BY <2>1, <2>4
    <3>5. Says(m) BY <1>d, <2>2, <2>3, <2>8, <3>1, <3>2, <3>3, <3>4 DEF Says
    <3> QED BY <2>6, <3>5
  <2> QED BY <2>7, <2>8
<1>5. CASE SendChunk
  <2>1. cur \in Id /\ cur # NoId /\ sent[cur] < MaxChunks /\ sent' = [sent EXCEPT ![cur] = @ + 1] /\ cur' = cur
    BY <1>5, <1>t DEF SendChunk
  <2>2. PICK k : k = sent[cur] + 1 OBVIOUS
  <2>3. PICK m : m = [t |-> "bin", v |-> <<cur, k>>] OBVIOUS
  <2>4. sent'[cur] = k /\ \A g \in Id : g # cur => sent'[g] = sent[g] BY <1>t, <2>1, <2>2
  <2>5. Do("S", 0, <<m>>, {}, "sending") BY <1>5, <2>3, <2>4 DEF SendChunk
  <2>6. k \in Nat /\ k # 0 /\ k # NotSent /\ sent[cur] \in Nat /\ sent[cur] <= k /\ sent[cur] # NotSent
    BY <1>t, <2>1, <2>2
  <2>7. m.t = "bin" /\ m.v = <<cur, k>> /\ m # Delimiter BY <2>3 DEF Delimiter
  <2>8. Moves(sent, cur, sent', cur') BY <1>t, <2>1, <2>4, <2>6 DEF Moves
  <2>9. SenderMoves BY <1>d, <1>u, <2>1, <2>4, <2>5, <2>6, <2>8 DEF SenderMoves
  <2>10. CASE link # "open" BY <1>d, <2>5, <2>9, <2>10 DEF Silent
  <2>11. CASE link = "open"
    <3>1. Item(m, sent')
      <4>1. k \in 1..k BY <2>6
      <4> QED BY <2>1, <2>4, <2>6, <2>7, <4>1 DEF Item
    <3>2. ASSUME NEW q, Sound(q, sent), Tip(q, sent, cur) PROVE Follows(q, m, sent', cur')
      BY <2>1, <2>2, <2>7, <3>2 DEF Tip, Follows
    <3>3. Tip(Place(m), sent', cur')
      <4>0. m.t # "header" /\ m.v[1] = cur /\ m.v[2] = k BY <2>7
      <4>1. Place(m) = [f |-> cur, k |-> k] BY <2>7, <4>0 DEF Place
      <4>2. Place(m).f = cur /\ Place(m).k = k BY <4>1
      <4> QED BY <2>1, <2>4, <4>2 DEF Tip
    <3>4. \A g \in Id : sent'[g] # NotSent => sent[g] # NotSent BY <2>4, <2>6
    <3>5. Says(m) BY <1>d, <2>5, <2>7, <2>11, <3>1, <3>2, <3>3, <3>4 DEF Says
    <3> QED BY <2>9, <3>5
  <2> QED BY <2>10, <2>11
<1>6. CASE EndSending
  <2>1. PICK m : m = Delimiter OBVIOUS
  <2>2. Do("S", 0, <<m>>, {}, "confirm") /\ cur = NoId /\ cur' = cur /\ sent' = sent
    BY <1>6, <2>1 DEF EndSending, AfterDelimiter, files
  <2>3. m.t = "delim" BY <2>1 DEF Delimiter
  <2>4. Moves(sent, cur, sent', cur') BY <1>m, <2>2
  <2>5. pc'["S"] = "confirm" BY <1>d, <2>2
  <2>6. SenderMoves BY <1>d, <1>u, <2>2, <2>4, <2>5 DEF SenderMoves
  <2>7. CASE link # "open" BY <1>d, <2>2, <2>6, <2>7 DEF Silent
  <2>8. CASE link = "open"
    <3>1. Item(m, sent') BY <2>1 DEF Item
    <3>2. ASSUME NEW q, Sound(q, sent), Tip(q, sent, cur) PROVE Follows(q, m, sent', cur')
      BY <2>2, <2>3, <3>2 DEF Tip, Follows, Closed
    <3>3. Tip(Place(m), sent', cur') BY <2>3 DEF Tip, Place, Nowhere
    <3>5. Says(m) BY <1>d, <2>2, <2>3, <2>5, <2>8, <3>1, <3>2, <3>3 DEF Says
    <3> QED BY <2>6, <3>5
  <2> QED BY <2>7, <2>8
<1> QED BY <1>1, <1>2, <1>3, <1>4, <1>5, <1>6

LEMMA AsideConfirm ==
  ASSUME FInv, Confirm PROVE AsideR /\ AsideS /\ SameFiles
<1>0. PICK ps, pr \in Waiting \cup {"done"} :
        /\ pc["S"] \in {ps, "failed"} /\ pc["R"] \in {pr, "failed"}
        /\ Row(ps, pr, wire["S"], wire["R"], selected)
  BY DEF FInv, Talk
<1>1. SameFiles /\ link' = link /\ pc["S"] = "confirm" /\ wire["S"] # <<>>
  BY DEF Confirm, Sending, SameFiles, files, saved
<1>a. PICK n \in Nat : n = 1 OBVIOUS
<1>2. PICK ms, sts : ms = <<>> /\ sts = {} OBVIOUS
<1>d. Do("S", n, ms, sts, "done") BY <1>a, <1>2 DEF Confirm
<1>3. PICK M : wire \in [Side -> Seq(M)] BY DEF FInv, Shape
<1>4. wire["S"] \in Seq(M) BY <1>3, Sides
<1>5. Len(wire["S"]) \in Nat /\ Len(wire["S"]) <= Len(wire["S"]) /\ Len(wire["S"]) # 0 BY <1>1, <1>4
<1>6. ended # {}
  <2>1. 1 \in 1..Len(wire["S"]) BY <1>5
  <2>2. wire["S"][1].t = "fileres" BY <1>0, <1>1, <2>1, RowIs
  <2>3. wire["S"][1] \in Elems(wire["S"]) BY <2>1 DEF Elems
  <2> QED BY <2>2, <2>3 DEF FInv, Learn
<1>7. wire["R"] \o <<>> = wire["R"] BY Sides, WireSeq DEF FInv
<1>8. /\ pc'["S"] = "done" /\ pc'["R"] = pc["R"] /\ status'["S"] = status["S"] \cup sts
      /\ wire'["S"] = SubSeq(wire["S"], n + 1, Len(wire["S"]))
      /\ wire'["R"] = wire["R"] \/ wire'["R"] = wire["R"] \o ms
  <2>1. Shape BY DEF FInv
  <2>2. After("S", n, ms, sts, "done") BY <1>d, <2>1, Sides, DoAfter, Zenon
  <2> QED BY <2>2, Sides, Zenon DEF After
<1>9. wire'["R"] = wire["R"] BY <1>2, <1>7, <1>8, Zenon
<1>10. Cut(wire'["R"], wire["R"]) BY <1>9, Sides, CutWire DEF FInv
<1>11. Elems(wire'["S"]) \subseteq Elems(wire["S"])
  <2>1. Elems(SubSeq(wire["S"], n + 1, Len(wire["S"]))) \subseteq Elems(wire["S"])
    BY <1>4, <1>5, PartOf, Zenon
  <2> QED BY <1>8, <2>1
<1>12. AsideR BY <1>1, <1>8, <1>9, <1>10 DEF AsideR
<1>13. AsideS BY <1>1, <1>2, <1>6, <1>8, <1>11 DEF AsideS
<1> QED BY <1>1, <1>12, <1>13

-----------------------------------------------------------------------------
(* The receiving loop.                                                     *)

LEMMA Takes ==
  ASSUME FInv, NEW p, pc["R"] = "receiving", wire["R"] # <<>>, Do("R", 1, <<>>, {}, p)
  PROVE  /\ pc'["R"] = p /\ pc'["S"] = pc["S"] /\ status'["S"] = status["S"] /\ wire'["S"] = wire["S"]
         /\ Popped(wire'["R"], wire["R"])
         /\ Elems(wire["R"]) = Elems(wire'["R"]) \cup {wire["R"][1]}
         /\ Item(wire["R"][1], sent) /\ Follows(Front, wire["R"][1], sent, cur)
         /\ wire["R"][1] = Delimiter => wire'["R"] = <<>>
         /\ wire["R"][1].t = "header" => wire["R"][1].v \in Unseen
<1>a. PICK n \in Nat : n = 1 /\ n + 1 = 2 OBVIOUS
<1>1. PICK ms, sts : ms = <<>> /\ sts = {} OBVIOUS
<1>d. Do("R", n, ms, sts, p) BY <1>a, <1>1
<1>2. /\ pc'["R"] = p /\ pc'["S"] = pc["S"] /\ status'["S"] = status["S"]
      /\ wire'["R"] = SubSeq(wire["R"], n + 1, Len(wire["R"]))
      /\ wire'["S"] = wire["S"] \/ wire'["S"] = wire["S"] \o ms
  BY <1>d, DoR DEF FInv
<1>3. wire["S"] \o <<>> = wire["S"] BY Sides, WireSeq DEF FInv
<1>4. wire'["S"] = wire["S"] BY <1>1, <1>2, <1>3, Zenon
<1>5. PICK M : wire \in [Side -> Seq(M)] BY DEF FInv, Shape
<1>6. PICK w \in Seq(M) : w = wire["R"] BY <1>5, Sides
<1>7. PICK v : v = wire'["R"] OBVIOUS
<1>8. v = SubSeq(w, 2, Len(w)) BY <1>a, <1>2, <1>6, <1>7, Zenon
<1>9. Popped(v, w) BY <1>6, <1>8, PoppedIs
<1>10. /\ Len(w) \in Nat /\ Len(v) \in Nat /\ Len(w) = Len(v) + 1
       /\ \A i \in 1..Len(v) : v[i] = w[i + 1]
  BY <1>9 DEF Popped
<1>11. Elems(w) = Elems(v) \cup {w[1]}
  <2>1. 1 \in 1..Len(w) /\ \A i \in 1..Len(v) : i + 1 \in 1..Len(w) BY <1>10
  <2>2. Elems(v) \cup {w[1]} \subseteq Elems(w) BY <1>10, <2>1 DEF Elems
  <2>3. ASSUME NEW i \in 1..Len(w), i # 1 PROVE w[i] \in Elems(v)
    <3>1. i - 1 \in 1..Len(v) /\ i - 1 + 1 = i BY <1>10, <2>3
    <3> QED BY <1>10, <3>1 DEF Elems
  <2> QED BY <2>2, <2>3 DEF Elems
<1>12. 1 \in 1..Len(w) BY <1>10
<1>13. Chain(w, Front, sent, cur) /\ Heads(w, Unseen) BY <1>6 DEF FInv, Stream, OnFiles
<1>14. Item(w[1], sent) /\ Follows(Front, w[1], sent, cur) /\ (w[1] = Delimiter => 1 = Len(w))
  <2>1. Prior(w, Front, 1) = Front BY DEF Prior
  <2> QED BY <1>12, <1>13, <2>1 DEF Chain
<1>15. w[1] = Delimiter => v = <<>>
  <2>1. v \in Seq(M) BY <1>8, <1>10
  <2>2. Len(v) = 0 => v = <<>> BY <2>1
  <2>3. w[1] = Delimiter => Len(v) = 0 BY <1>10, <1>14
  <2> QED BY <2>2, <2>3
<1>16. w[1].t = "header" => w[1].v \in Unseen BY <1>12, <1>13 DEF Heads
<1> QED BY <1>2, <1>4, <1>6, <1>7, <1>9, <1>11, <1>14, <1>15, <1>16

LEMMA TakeStream ==
  ASSUME FInv, OnFiles, OnFiles', UNCHANGED <<sent, cur, link>>, pc'["S"] = pc["S"],
         Popped(wire'["R"], wire["R"]), Elems(wire'["R"]) \subseteq Elems(wire["R"]),
         Front' \in {Place(wire["R"][1]), Nowhere},
         \A f \in Unseen : RTCSendFileHeaderRequest(f) # wire["R"][1] => f \in Unseen'
  PROVE  Stream'
<1>1. PICK v : v = wire'["R"] OBVIOUS
<1>2. PICK w : w = wire["R"] OBVIOUS
<1>3. PICK fr : fr = Front OBVIOUS
<1>4. PICK fn : fn = Front' OBVIOUS
<1>5. PICK U : U = Unseen' OBVIOUS
<1>6. /\ Chain(w, fr, sent, cur) /\ Heads(w, Unseen) /\ (Delimiter \in Elems(w) => Over)
      /\ link = "open" => Tip(Prior(w, fr, Len(w) + 1), sent, cur)
  BY <1>2, <1>3, Zenon DEF FInv, Stream
<1>7. Popped(v, w) /\ fn \in {Place(w[1]), Nowhere} BY <1>1, <1>2, <1>4
<1>8. /\ Chain(v, fn, sent, cur)
      /\ Tip(Prior(w, fr, Len(w) + 1), sent, cur) => Tip(Prior(v, fn, Len(v) + 1), sent, cur)
  BY <1>6, <1>7, ChainPop, Zenon
<1>9. Heads(v, U)
  <2>1. ASSUME NEW m, m \in Elems(w), m.t = "header", m.v \in Unseen, m # w[1] PROVE m.v \in U
    <3>1. Item(m, sent) BY <1>6, <2>1 DEF Chain, Elems
    <3>2. m = RTCSendFileHeaderRequest(m.v)
      <4>1. m # Delimiter BY <2>1 DEF Delimiter
      <4> QED BY <2>1, <3>1, <4>1 DEF Item
    <3> QED BY <1>2, <1>5, <2>1, <3>2
  <2> QED BY <1>6, <1>7, <2>1, HeadsPop, Zenon
<1>10. Delimiter \in Elems(v) => Over' BY <1>1, <1>2, <1>6 DEF Over
<1>11. sent' = sent /\ cur' = cur /\ link' = link OBVIOUS
<1> QED BY <1>1, <1>4, <1>5, <1>6, <1>8, <1>9, <1>10, <1>11, Zenon DEF Stream

(* What every step of the loop leaves alone.                               *)
Stays == /\ UNCHANGED <<selected, cur, sent, link>> /\ pc'["S"] = pc["S"]
         /\ status'["S"] = status["S"]

LEMMA ReceiverHeld ==
  ASSUME FInv, OnFiles, pc'["R"] \in {"receiving", "result", "done"}, Stays,
         file_state' # NoId => file_state' \in selected.files \cap Offered,
         \A f \in Id : HeldOf(f)'
  PROVE  Held'
<1>1. ~Early' /\ (OnFiles' => selected'.st = "Ok") BY DEF Early, Stays, FInv, Held
<1>2. (pc["S"] # "sending" => cur = NoId)' /\ (cur # NoId => Begun(cur))' BY DEF FInv, Held, Stays, Begun
<1>3. (pc["S"] \in Waiting \ {"sending", "confirm"} => \A f \in Id : ~Begun(f))'
  BY DEF FInv, Held, Stays, Begun
<1>4. (file_state # NoId => file_state \in selected.files \cap Offered)' BY DEF Stays
<1> QED BY <1>1, <1>2, <1>3, <1>4 DEF Held

LEMMA ReceiverLearn ==
  ASSUME FInv, Stays, ended \subseteq ended',
         (\E m \in Elems(wire'["S"]) : m.t = "fileres") => ended' # {}
  PROVE  Learn'
BY DEF FInv, Learn, Stays

LEMMA Opens ==
  ASSUME FInv, NEW g \in Id, OpenFile(g)
  PROVE  \/ g \in selected.files \cap Offered /\ file_state' = g /\ errs'["R"] = errs["R"]
         \/ file_state' = file_state /\ errs'["R"] = errs["R"] \cup {g}
BY DEF OpenFile, FInv, FTypes, Side

LEMMA OpensHeld ==
  ASSUME FInv, NEW g \in Id, Stays, UNCHANGED <<got, ended>>, file_state = NoId, Begun(g), Untouched(g),
         file_state' \in {g, NoId}
  PROVE  \A f \in Id : HeldOf(f)'
<1>1. SUFFICES ASSUME NEW f \in Id PROVE HeldOf(f)' OBVIOUS
<1>2. HeldOf(f) BY DEF FInv, Held
<1>3. f = g \/ file_state' # f BY DEF FInv, FTypes
<1> QED BY <1>2, <1>3 DEF HeldOf, Untouched, Begun, Stays

LEMMA HeaderFiles ==
  ASSUME FInv, ReceiveHeader PROVE Stream' /\ Result' /\ Held' /\ Accounts' /\ Learn'
<1>0. /\ pc["R"] = "receiving" /\ file_state = NoId /\ wire["R"] # <<>> /\ wire["R"][1].t = "header"
      /\ OpenFile(wire["R"][1].v) /\ Do("R", 1, <<>>, {}, "receiving")
      /\ UNCHANGED <<selected, cur, sent, link, msg, got, ended>>
  BY DEF ReceiveHeader, Next1, Receiving, files
<1>1. /\ pc'["R"] = "receiving" /\ pc'["S"] = pc["S"] /\ status'["S"] = status["S"]
      /\ wire'["S"] = wire["S"] /\ Popped(wire'["R"], wire["R"])
      /\ Elems(wire["R"]) = Elems(wire'["R"]) \cup {wire["R"][1]}
      /\ Item(wire["R"][1], sent)
      /\ wire["R"][1].t = "header" => wire["R"][1].v \in Unseen
  BY <1>0, Takes
<1>2. PICK m : m = wire["R"][1] OBVIOUS
<1>3. PICK g \in Id : m.v = g /\ g \in Unseen /\ Untouched(g)
  BY <1>0, <1>1, <1>2 DEF Unseen
<1>4. Begun(g)
  <2>1. m.t = "header" /\ m # Delimiter BY <1>0, <1>2 DEF Delimiter
  <2> QED BY <1>1, <1>2, <1>3, <2>1 DEF Item, Begun
<1>5. \/ g \in selected.files \cap Offered /\ file_state' = g /\ errs'["R"] = errs["R"]
      \/ file_state' = file_state /\ errs'["R"] = errs["R"] \cup {g}
  BY <1>0, <1>2, <1>3, Opens
<1>6. Stays BY <1>0, <1>1 DEF Stays
<1>7. OnFiles /\ OnFiles' BY <1>0, <1>1 DEF OnFiles
<1>8. Stream'
  <2>1. Place(m) = [f |-> g, k |-> 0] BY <1>0, <1>2, <1>3 DEF Place
  <2>2. Front' \in {Place(m), Nowhere}
    <3>1. CASE file_state' = NoId BY <1>1, <3>1 DEF Front
    <3>2. CASE file_state' = g /\ g # NoId
      <4>1. got'[g] = <<>> /\ Len(<<>>) = 0 BY <1>0, <1>3 DEF Untouched
      <4> QED BY <1>1, <2>1, <3>2, <4>1 DEF Front
    <3>3. g # NoId OBVIOUS
    <3> QED BY <1>0, <1>5, <3>1, <3>2, <3>3
  <2>3. ASSUME NEW f \in Unseen, RTCSendFileHeaderRequest(f) # m PROVE f \in Unseen'
    <3>1. m = RTCSendFileHeaderRequest(g)
      <4>1. m.t = "header" /\ m # Delimiter BY <1>0, <1>2 DEF Delimiter
      <4> QED BY <1>1, <1>2, <1>3, <4>1 DEF Item
    <3>2. f # g /\ f # NoId BY <2>3, <3>1 DEF Unseen
    <3>3. file_state' # f BY <1>0, <1>5, <3>2
    <3> QED BY <1>0, <1>1, <3>3 DEF Unseen, Untouched
  <2>4. Elems(wire'["R"]) \subseteq Elems(wire["R"]) BY <1>1
  <2> QED BY <1>0, <1>1, <1>2, <1>7, <2>2, <2>3, <2>4, TakeStream
<1>9. Result' BY <1>1 DEF Result
<1>10. Held'
  <2>1. \A f \in Id : HeldOf(f)' BY <1>0, <1>3, <1>4, <1>5, <1>6, OpensHeld
  <2>2. file_state' # NoId => file_state' \in selected.files \cap Offered BY <1>0, <1>5
  <2> QED BY <1>1, <1>6, <1>7, <2>1, <2>2, ReceiverHeld
<1>11. Accounts'
  <2>1. \A f \in Id : Known(f) => Known(f)' BY <1>0, <1>1, <1>5 DEF Known
  <2>2. Known(g)' BY <1>1, <1>5 DEF Known
  <2>3. ASSUME link' = "open" \/ Delimiter \in Elems(wire'["R"]), NEW f \in Id, Begun(f)'
        PROVE  Known(f)' \/ RTCSendFileHeaderRequest(f) \in Elems(wire'["R"])
    <3>1. Begun(f) /\ (link = "open" \/ Delimiter \in Elems(wire["R"]))
      BY <1>0, <1>1, <2>3 DEF Begun
    <3>2. Known(f) \/ RTCSendFileHeaderRequest(f) \in Elems(wire["R"])
      BY <1>7, <3>1 DEF FInv, Accounts
    <3>3. CASE RTCSendFileHeaderRequest(f) = m
      <4>1. f = g BY <1>3, <3>3 DEF RTCSendFileHeaderRequest
      <4> QED BY <2>2, <4>1
    <3> QED BY <1>1, <1>2, <2>1, <3>2, <3>3
  <2>4. ~DelimTaken' BY <1>1 DEF DelimTaken
  <2>5. file_state' = NoId /\ ended' # {} => errs'["R"] # {} BY <1>5
  <2> QED BY <1>1, <2>3, <2>4, <2>5 DEF Accounts
<1>12. Learn' BY <1>0, <1>1, <1>6, ReceiverLearn DEF FInv, Learn
<1> QED BY <1>8, <1>9, <1>10, <1>11, <1>12

LEMMA BinaryFiles ==
  ASSUME FInv, ReceiveBinary PROVE Stream' /\ Result' /\ Held' /\ Accounts' /\ Learn'
<1>0. /\ pc["R"] = "receiving" /\ wire["R"] # <<>> /\ wire["R"][1].t = "bin"
      /\ Do("R", 1, <<>>, {}, "receiving")
      /\ UNCHANGED <<selected, cur, sent, link, msg, ended, file_state>>
      /\ \/ /\ file_state # NoId /\ UNCHANGED errs
            /\ got' = [got EXCEPT ![file_state] = Append(@, wire["R"][1].v)]
         \/ /\ file_state = NoId /\ UNCHANGED got
            /\ errs' = [errs EXCEPT !["R"] = @ \cup {"unknown"}]
  BY DEF ReceiveBinary, Next1, Receiving, files
<1>1. /\ pc'["R"] = "receiving" /\ pc'["S"] = pc["S"] /\ status'["S"] = status["S"]
      /\ wire'["S"] = wire["S"] /\ Popped(wire'["R"], wire["R"])
      /\ Elems(wire["R"]) = Elems(wire'["R"]) \cup {wire["R"][1]}
      /\ Item(wire["R"][1], sent) /\ Follows(Front, wire["R"][1], sent, cur)
  BY <1>0, Takes
<1>2. PICK m : m = wire["R"][1] OBVIOUS
<1>3. Stays BY <1>0, <1>1 DEF Stays
<1>4. OnFiles /\ OnFiles' BY <1>0, <1>1 DEF OnFiles
<1>5. errs["R"] \subseteq errs'["R"] /\ (file_state = NoId => errs'["R"] # {})
  <2>1. errs = [s \in Side |-> errs[s]] BY DEF FInv, FTypes
  <2>2. errs' = errs \/ errs'["R"] = errs["R"] \cup {"unknown"} BY <1>0, <2>1, Sides
  <2>3. file_state = NoId => errs'["R"] = errs["R"] \cup {"unknown"} BY <1>0, <2>1, Sides
  <2> QED BY <2>2, <2>3
<1>6. PICK h \in Id : sent[h] # NotSent /\ \E k \in 1..sent[h] : m.v = <<h, k>>
  BY <1>0, <1>1, <1>2 DEF Item, Delimiter, RTCSendFileHeaderRequest
<1>7. PICK k \in 1..sent[h] : m.v = <<h, k>> BY <1>6
<1>8. Place(m) = [f |-> h, k |-> k]
  <2>1. m.t = "bin" /\ m.t # "header" /\ m.v[1] = h /\ m.v[2] = k BY <1>0, <1>2, <1>7
  <2> QED BY <2>1 DEF Place
<1>9. file_state # NoId => /\ file_state = h /\ k = Len(got[h]) + 1 /\ Len(got[h]) \in Nat
                           /\ got'[h] = Append(got[h], <<h, k>>) /\ Len(got'[h]) = k
  <2>1. SUFFICES ASSUME file_state # NoId
                 PROVE  /\ file_state = h /\ k = Len(got[h]) + 1 /\ Len(got[h]) \in Nat
                        /\ got'[h] = Append(got[h], <<h, k>>) /\ Len(got'[h]) = k
    OBVIOUS
  <2>2. Front = [f |-> file_state, k |-> Len(got[file_state])] BY <1>0, <2>1 DEF Front
  <2>3. Front.f = file_state /\ Front.k = Len(got[file_state]) BY <2>2
  <2>4. m.v = <<file_state, Len(got[file_state]) + 1>> BY <1>0, <1>1, <1>2, <2>1, <2>3 DEF Follows
  <2>5. file_state = h /\ k = Len(got[h]) + 1 BY <1>7, <2>4
  <2>6. got \in [Id -> Seq(Id \X Nat)] BY DEF FInv, FTypes
  <2>7. got[h] \in Seq(Id \X Nat) BY <2>6
  <2>8. Len(got[h]) \in Nat /\ \A x : Len(Append(got[h], x)) = Len(got[h]) + 1 BY <2>7
  <2>9. got'[h] = Append(got[h], <<h, k>>) BY <1>0, <1>2, <1>7, <2>1, <2>5, <2>6
  <2> QED BY <2>5, <2>8, <2>9
<1>10. \A f \in Id : f # file_state => got'[f] = got[f]
  BY <1>0 DEF FInv, FTypes
<1>11. Stream'
  <2>1. Front' \in {Place(m), Nowhere}
    <3>1. CASE file_state = NoId BY <1>0, <1>1, <3>1 DEF Front
    <3>2. CASE file_state # NoId
      <4>1. Front' = [f |-> file_state', k |-> Len(got'[file_state'])] BY <1>0, <1>1, <3>2 DEF Front
      <4> QED BY <1>0, <1>8, <1>9, <3>2, <4>1
    <3> QED BY <3>1, <3>2
  <2>2. \A f \in Unseen : f \in Unseen' BY <1>0, <1>1, <1>10 DEF Unseen, Untouched
  <2>3. Elems(wire'["R"]) \subseteq Elems(wire["R"]) BY <1>1
  <2> QED BY <1>0, <1>1, <1>2, <1>4, <2>1, <2>2, <2>3, TakeStream
<1>12. Result' BY <1>1 DEF Result
<1>13. Held'
  <2>1. ASSUME NEW f \in Id, f # file_state PROVE HeldOf(f)'
    <3>1. HeldOf(f) BY DEF FInv, Held
    <3> QED BY <1>0, <1>10, <2>1, <3>1 DEF HeldOf, Untouched, Begun
  <2>2. ASSUME file_state # NoId PROVE HeldOf(h)'
    <3>1. file_state = h /\ k = Len(got[h]) + 1 /\ Len(got[h]) \in Nat
          /\ got'[h] = Append(got[h], <<h, k>>) /\ Len(got'[h]) = k
      BY <1>9, <2>2
    <3>2. HeldOf(h) BY DEF FInv, Held
    <3>3. got[h] \in Seq(Id \X Nat) BY DEF FInv, FTypes
    <3>4. \A i \in 1..Len(got[h]) : got'[h][i] = got[h][i]
      <4>1. \A x : \A i \in 1..Len(got[h]) : Append(got[h], x)[i] = got[h][i] BY <3>3
      <4> QED BY <3>1, <4>1
    <3>5. got'[h][k] = <<h, k>>
      <4>1. \A x : Append(got[h], x)[Len(got[h]) + 1] = x BY <3>3
      <4> QED BY <3>1, <4>1
    <3>6. \A i \in 1..k : i \in 1..Len(got[h]) \/ i = k BY <3>1
    <3>7. \A i \in 1..Len(got'[h]) : got'[h][i] = <<h, i>>
      BY <3>1, <3>2, <3>4, <3>5, <3>6 DEF HeldOf
    <3>8. sent[h] \in Nat BY DEF FInv, FTypes, NotSent
    <3>9. k <= sent[h] BY <3>8
    <3>10. h \notin ended BY <3>1, <3>2 DEF HeldOf
    <3>11. (Begun(h) /\ h \notin ended /\ Len(got[h]) <= sent[h])'
      BY <1>0, <1>6, <3>1, <3>9, <3>10 DEF Begun
    <3> QED BY <3>7, <3>11 DEF HeldOf
  <2>3. ASSUME NEW f \in Id PROVE HeldOf(f)'
    <3>1. CASE f = file_state
      <4>1. file_state # NoId BY <3>1
      <4>2. f = h BY <1>9, <3>1, <4>1
      <4> QED BY <2>2, <4>1, <4>2
    <3> QED BY <2>1, <3>1
  <2>4. file_state' # NoId => file_state' \in selected.files \cap Offered BY <1>0 DEF FInv, Held
  <2> QED BY <1>1, <1>3, <1>4, <2>3, <2>4, ReceiverHeld
<1>14. Accounts'
  <2>1. \A f \in Id : Known(f) => Known(f)' BY <1>0, <1>1, <1>5 DEF Known
  <2>2. ASSUME link' = "open" \/ Delimiter \in Elems(wire'["R"]), NEW f \in Id, Begun(f)'
        PROVE  Known(f)' \/ RTCSendFileHeaderRequest(f) \in Elems(wire'["R"])
    <3>1. Begun(f) /\ (link = "open" \/ Delimiter \in Elems(wire["R"]))
      BY <1>0, <1>1, <2>2 DEF Begun
    <3>2. Known(f) \/ RTCSendFileHeaderRequest(f) \in Elems(wire["R"])
      BY <1>4, <3>1 DEF FInv, Accounts
    <3>3. RTCSendFileHeaderRequest(f) # m BY <1>0, <1>2 DEF RTCSendFileHeaderRequest
    <3> QED BY <1>1, <1>2, <2>1, <3>2, <3>3
  <2>3. ~DelimTaken' BY <1>1 DEF DelimTaken
  <2>4. file_state' = NoId /\ ended' # {} => errs'["R"] # {} BY <1>0, <1>5
  <2> QED BY <1>1, <2>2, <2>3, <2>4 DEF Accounts
<1>15. Learn' BY <1>0, <1>1, <1>3, ReceiverLearn DEF FInv, Learn
<1> QED BY <1>11, <1>12, <1>13, <1>14, <1>15

LEMMA EndFiles ==
  ASSUME FInv, EndOfFile PROVE Stream' /\ Result' /\ Held' /\ Accounts' /\ Learn'
<1>0. /\ pc["R"] = "receiving" /\ wire["R"] # <<>> /\ wire["R"][1].t \in {"header", "delim"}
      /\ Do("R", 1, <<>>, {}, "result") /\ file_state # NoId
      /\ file_state' = NoId /\ ended' = ended \cup {file_state} /\ msg' = wire["R"][1]
      /\ UNCHANGED <<selected, cur, sent, link, errs, got>>
  BY DEF EndOfFile, Next1, Receiving, files
<1>1. /\ pc'["R"] = "result" /\ pc'["S"] = pc["S"] /\ status'["S"] = status["S"]
      /\ wire'["S"] = wire["S"] /\ Popped(wire'["R"], wire["R"])
      /\ Elems(wire["R"]) = Elems(wire'["R"]) \cup {wire["R"][1]}
      /\ Item(wire["R"][1], sent) /\ Follows(Front, wire["R"][1], sent, cur)
      /\ wire["R"][1] = Delimiter => wire'["R"] = <<>>
      /\ wire["R"][1].t = "header" => wire["R"][1].v \in Unseen
  BY <1>0, Takes
<1>2. PICK m : m = wire["R"][1] OBVIOUS
<1>3. PICK h \in Id : h = file_state BY <1>0 DEF FInv, FTypes
<1>4. Stays BY <1>0, <1>1 DEF Stays
<1>5. OnFiles /\ OnFiles' BY <1>0, <1>1 DEF OnFiles
<1>6. sent[h] = Len(got[h]) /\ cur # h
  <2>1. Front = [f |-> file_state, k |-> Len(got[file_state])] BY <1>0 DEF Front
  <2>2. Front.f = h /\ Front.k = Len(got[h]) BY <1>3, <2>1
  <2> QED BY <1>0, <1>1, <1>3, <2>2 DEF Follows, Closed
<1>7. \/ m = Delimiter
      \/ \E g \in Id : m = RTCSendFileHeaderRequest(g) /\ Begun(g) /\ g \in Unseen
  BY <1>0, <1>1, <1>2 DEF Item, Begun
<1>8. Stream'
  <2>1. Front' = Place(m) BY <1>0, <1>1, <1>2 DEF Front
  <2>2. ASSUME NEW f \in Unseen, RTCSendFileHeaderRequest(f) # m PROVE f \in Unseen'
    <3>1. f \in Id /\ Untouched(f) BY DEF Unseen
    <3>2. f # file_state /\ f # NoId BY <3>1 DEF Untouched
    <3>3. Untouched(f)' BY <1>0, <3>1, <3>2 DEF Untouched
    <3> QED BY <1>0, <1>2, <2>2, <3>1, <3>3 DEF Unseen
  <2>3. Elems(wire'["R"]) \subseteq Elems(wire["R"]) BY <1>1
  <2> QED BY <1>0, <1>1, <1>2, <1>5, <2>1, <2>2, <2>3, TakeStream
<1>9. Result'
  <2>1. file_state' = NoId /\ ended' # {} BY <1>0
  <2>2. CASE m = Delimiter
    <3>1. Delimiter \in Elems(wire["R"]) BY <1>1, <1>2, <2>2
    <3>2. Over BY <1>5, <3>1 DEF FInv, Stream
    <3>3. Over' BY <1>1, <3>2 DEF Over
    <3> QED BY <1>0, <1>1, <1>2, <2>1, <2>2, <3>3 DEF Result
  <2>3. ASSUME NEW g \in Id, m = RTCSendFileHeaderRequest(g), Begun(g), g \in Unseen PROVE Result'
    <3>1. Untouched(g) /\ g # file_state /\ g # NoId BY <2>3 DEF Unseen, Untouched
    <3>2. Untouched(g)' /\ Begun(g)' BY <1>0, <2>3, <3>1 DEF Untouched, Begun
    <3> QED BY <1>0, <1>2, <2>1, <2>3, <3>2 DEF Result
  <2> QED BY <1>7, <2>2, <2>3
<1>10. Held'
  <2>1. ASSUME NEW f \in Id PROVE HeldOf(f)'
    <3>1. HeldOf(f) BY DEF FInv, Held
    <3>2. CASE f = h
      <4>1. Begun(f) /\ f \in selected.files \cap Offered
        BY <1>3, <3>1, <3>2 DEF HeldOf, Untouched, FInv, Held
      <4> QED BY <1>0, <1>6, <3>1, <3>2, <4>1 DEF HeldOf, Begun
    <3>3. CASE f # h BY <1>0, <1>3, <3>1, <3>3 DEF HeldOf, Untouched, Begun
    <3> QED BY <3>2, <3>3
  <2> QED BY <1>0, <1>1, <1>4, <1>5, <2>1, ReceiverHeld
<1>11. Accounts'
  <2>1. \A f \in Id : Known(f) => Known(f)' BY <1>0, <1>1 DEF Known
  <2>2. ASSUME NEW f \in Id, RTCSendFileHeaderRequest(f) = m PROVE Known(f)' BY <1>0, <1>1, <1>2, <2>2 DEF Known
  <2>3. ASSUME link = "open" \/ Delimiter \in Elems(wire["R"]), NEW f \in Id, Begun(f)'
        PROVE  Known(f)' \/ RTCSendFileHeaderRequest(f) \in Elems(wire'["R"])
    <3>1. Begun(f) BY <1>0, <2>3 DEF Begun
    <3>2. Known(f) \/ RTCSendFileHeaderRequest(f) \in Elems(wire["R"])
      BY <1>5, <2>3, <3>1 DEF FInv, Accounts
    <3> QED BY <1>1, <1>2, <2>1, <2>2, <3>2
  <2>4. link' = "open" \/ Delimiter \in Elems(wire'["R"]) => link = "open" \/ Delimiter \in Elems(wire["R"])
    BY <1>0, <1>1
  <2>5. ASSUME DelimTaken' PROVE Over' /\ \A f \in Id : Begun(f)' => Known(f)'
    <3>1. m = Delimiter BY <1>0, <1>1, <1>2, <2>5 DEF DelimTaken
    <3>2. Delimiter \in Elems(wire["R"]) /\ wire'["R"] = <<>> BY <1>1, <1>2, <3>1
    <3>3. Over' BY <1>1, <1>5, <3>2 DEF FInv, Stream, Over
    <3>4. Elems(wire'["R"]) = {} BY <3>2, Nothing
    <3> QED BY <2>3, <3>2, <3>3, <3>4
  <2> QED BY <1>1, <2>3, <2>4, <2>5 DEF Accounts
<1>12. Learn' BY <1>0, <1>1, <1>4, ReceiverLearn DEF FInv, Learn
<1> QED BY <1>8, <1>9, <1>10, <1>11, <1>12

LEMMA ChainAfresh ==
  ASSUME NEW w, NEW p, NEW q \in {p, Nowhere}, NEW sn, NEW c, Chain(w, p, sn, c), Len(w) \in Nat
  PROVE  /\ Chain(w, q, sn, c)
         /\ Tip(Prior(w, p, Len(w) + 1), sn, c) => Tip(Prior(w, q, Len(w) + 1), sn, c)
<1>1. Nowhere.f = NoId BY DEF Nowhere
<1>2. \A i \in 1..Len(w) + 1 : Prior(w, q, i) \in {Prior(w, p, i), Nowhere} BY DEF Prior
<1>3. (\A m : Follows(Nowhere, m, sn, c)) /\ Tip(Nowhere, sn, c) BY <1>1 DEF Follows, Tip
<1>4. \A i \in 1..Len(w) : Follows(Prior(w, q, i), w[i], sn, c)
  <2>1. \A i \in 1..Len(w) : i \in 1..Len(w) + 1 OBVIOUS
  <2> QED BY <1>2, <1>3, <2>1 DEF Chain
<1>5. Len(w) + 1 \in 1..Len(w) + 1 OBVIOUS
<1> QED BY <1>2, <1>3, <1>4, <1>5 DEF Chain

LEMMA StatusFiles ==
  ASSUME FInv, SendFileStatus PROVE Stream' /\ Result' /\ Held' /\ Accounts' /\ Learn'
<1>0. pc["R"] = "result" /\ UNCHANGED <<selected, cur, sent, link, msg, got, ended>>
  BY DEF SendFileStatus, Receiving, files
<1>1. PICK m : m = RTCSendFileResponse(last) OBVIOUS
<1>2. PICK p \in {"done", "receiving"} :
        /\ Do("R", 0, <<m>>, {}, p)
        /\ \/ p = "done" /\ msg = Delimiter /\ UNCHANGED <<file_state, errs>>
           \/ p = "receiving" /\ msg # Delimiter /\ OpenFile(msg.v)
  BY <1>1 DEF SendFileStatus
<1>3. /\ pc'["R"] = p /\ pc'["S"] = pc["S"] /\ status'["S"] = status["S"] /\ wire'["R"] = wire["R"]
  <2>1. PICK n \in Nat : n = 0 /\ n + 1 = 1 OBVIOUS
  <2>2. PICK ms, sts : ms = <<m>> /\ sts = {} OBVIOUS
  <2>3. Do("R", n, ms, sts, p) BY <1>2, <2>1, <2>2
  <2>4. /\ pc'["R"] = p /\ pc'["S"] = pc["S"] /\ status'["S"] = status["S"]
        /\ wire'["R"] = SubSeq(wire["R"], n + 1, Len(wire["R"]))
    BY <2>3, DoR DEF FInv
  <2>5. SubSeq(wire["R"], 1, Len(wire["R"])) = wire["R"] BY Sides, WireSeq DEF FInv
  <2> QED BY <2>1, <2>4, <2>5
<1>4. Stays BY <1>0, <1>3 DEF Stays
<1>5. OnFiles BY <1>0 DEF OnFiles
<1>6. file_state = NoId /\ ended # {} BY <1>0 DEF FInv, Result
<1>7. Learn' BY <1>0, <1>4, <1>6, ReceiverLearn
<1>8. CASE p = "done" /\ msg = Delimiter /\ UNCHANGED <<file_state, errs>>
  <2>1. ~OnFiles' BY <1>3, <1>8 DEF OnFiles
  <2>2. Stream' /\ Result' BY <1>3, <1>8, <2>1 DEF Stream, Result
  <2>3. \A f \in Id : HeldOf(f)' BY <1>0, <1>8 DEF FInv, Held, HeldOf, Untouched, Begun
  <2>4. Held' BY <1>3, <1>4, <1>5, <1>6, <1>8, <2>3, ReceiverHeld
  <2>5. DelimTaken /\ wire["R"] = <<>>
    <3>1. \A f \in Id : RTCSendFileHeaderRequest(f) # Delimiter BY DEF RTCSendFileHeaderRequest, Delimiter
    <3> QED BY <1>0, <1>8, <3>1 DEF DelimTaken, FInv, Result
  <2>6. ASSUME NEW f \in Id, Begun(f)' PROVE Known(f)'
    <3>1. Begun(f) BY <1>0, <2>6 DEF Begun
    <3>2. Known(f) BY <2>5, <3>1 DEF FInv, Accounts
    <3>3. RTCSendFileHeaderRequest(f) # Delimiter BY DEF RTCSendFileHeaderRequest, Delimiter
    <3>4. f \in ended \cup errs["R"] BY <1>0, <1>8, <3>2, <3>3 DEF Known
    <3> QED BY <1>0, <1>8, <3>4 DEF Known
  <2>7. Over' BY <1>3, <2>5 DEF FInv, Accounts, Over
  <2>8. Accounts' BY <1>3, <1>8, <2>1, <2>5, <2>6, <2>7 DEF Accounts
  <2> QED BY <1>7, <2>2, <2>4, <2>8
<1>9. CASE p = "receiving" /\ msg # Delimiter /\ OpenFile(msg.v)
  <2>1. PICK g \in Id : msg = RTCSendFileHeaderRequest(g) /\ Begun(g) /\ Untouched(g)
    BY <1>0, <1>9 DEF FInv, Result
  <2>2. msg.v = g /\ msg.t = "header" BY <2>1 DEF RTCSendFileHeaderRequest
  <2>3. \/ g \in selected.files \cap Offered /\ file_state' = g /\ errs'["R"] = errs["R"]
        \/ file_state' = file_state /\ errs'["R"] = errs["R"] \cup {g}
    BY <1>9, <2>2, Opens
  <2>4. OnFiles' BY <1>3, <1>9 DEF OnFiles
  <2>5. Front = Place(msg) /\ Place(msg) = [f |-> g, k |-> 0] BY <1>0, <2>2 DEF Front, Place
  <2>6. Front' \in {Front, Nowhere}
    <3>1. CASE file_state' = NoId BY <1>3, <1>9, <3>1 DEF Front
    <3>2. CASE file_state' = g
      <4>1. got'[g] = <<>> /\ Len(<<>>) = 0 /\ g # NoId BY <1>0, <2>1 DEF Untouched
      <4>2. Front' = [f |-> g, k |-> 0] BY <1>3, <1>9, <3>2, <4>1 DEF Front
      <4> QED BY <2>5, <4>2
    <3> QED BY <1>6, <2>3, <3>1, <3>2
  <2>7. Unseen \subseteq Unseen'
    <3>1. ASSUME NEW f \in Unseen PROVE f \in Unseen'
      <4>1. f \in Id /\ Untouched(f) /\ f # g BY <1>0, <2>1 DEF Unseen
      <4>2. file_state' # f BY <1>6, <2>3, <4>1
      <4> QED BY <1>0, <1>3, <1>9, <4>1, <4>2 DEF Unseen, Untouched
    <3> QED BY <3>1
  <2>8. Stream'
    <3>1. PICK w : w = wire["R"] OBVIOUS
    <3>2. PICK fr : fr = Front OBVIOUS
    <3>3. PICK fn : fn = Front' OBVIOUS
    <3>4. PICK U : U = Unseen' OBVIOUS
    <3>5. /\ Chain(w, fr, sent, cur) /\ Heads(w, Unseen) /\ (Delimiter \in Elems(w) => Over)
          /\ link = "open" => Tip(Prior(w, fr, Len(w) + 1), sent, cur)
      BY <1>5, <3>1, <3>2, Zenon DEF FInv, Stream
    <3>6. Len(w) \in Nat /\ Cut(w, w) BY <3>1, Sides, WireSeq, CutWire DEF FInv
    <3>7. fn \in {fr, Nowhere} /\ Unseen \subseteq U BY <2>6, <2>7, <3>2, <3>3, <3>4
    <3>8. /\ Chain(w, fn, sent, cur)
          /\ Tip(Prior(w, fr, Len(w) + 1), sent, cur) => Tip(Prior(w, fn, Len(w) + 1), sent, cur)
      BY <3>5, <3>6, <3>7, ChainAfresh, Zenon
    <3>9. Heads(w, U) BY <3>5, <3>6, <3>7, HeadsCut, Zenon
    <3>10. wire'["R"] = w /\ sent' = sent /\ cur' = cur /\ link' = link BY <1>0, <1>3, <3>1
    <3>11. Over => Over' BY <1>3 DEF Over
    <3> QED BY <3>3, <3>4, <3>5, <3>8, <3>9, <3>10, <3>11, Zenon DEF Stream
  <2>9. Result' BY <1>3, <1>9 DEF Result
  <2>10. Held'
    <3>1. \A f \in Id : HeldOf(f)' BY <1>0, <1>4, <1>6, <2>1, <2>3, OpensHeld
    <3>2. file_state' # NoId => file_state' \in selected.files \cap Offered BY <1>6, <2>3
    <3> QED BY <1>3, <1>4, <1>5, <1>9, <3>1, <3>2, ReceiverHeld
  <2>11. Accounts'
    <3>1. \A f \in Id : Known(f) => Known(f)'
      <4>1. Known(g)' BY <1>3, <1>9, <2>3 DEF Known
      <4>2. \A f \in Id : msg = RTCSendFileHeaderRequest(f) => f = g BY <2>1 DEF RTCSendFileHeaderRequest
      <4> QED BY <1>0, <1>3, <1>9, <2>3, <4>1, <4>2 DEF Known
    <3>2. ASSUME link' = "open" \/ Delimiter \in Elems(wire'["R"]), NEW f \in Id, Begun(f)'
          PROVE  Known(f)' \/ RTCSendFileHeaderRequest(f) \in Elems(wire'["R"])
      <4>1. Begun(f) /\ (link = "open" \/ Delimiter \in Elems(wire["R"])) BY <1>0, <1>3, <3>2 DEF Begun
      <4>2. Known(f) \/ RTCSendFileHeaderRequest(f) \in Elems(wire["R"]) BY <1>5, <4>1 DEF FInv, Accounts
      <4> QED BY <1>3, <3>1, <4>2
    <3>3. ~DelimTaken' BY <1>3, <1>9 DEF DelimTaken
    <3>4. file_state' = NoId /\ ended' # {} => errs'["R"] # {} BY <2>3
    <3> QED BY <1>3, <1>9, <3>2, <3>3, <3>4 DEF Accounts
  <2> QED BY <1>7, <2>8, <2>9, <2>10, <2>11
<1> QED BY <1>2, <1>8, <1>9

-----------------------------------------------------------------------------
(* Every step of the two calls.                                            *)

LEMMA FilesStep ==
  ASSUME FInv, [Next]_vars
  PROVE  Stream' /\ Result' /\ Held' /\ Accounts' /\ Learn'
<1>1. CASE AsideR /\ AsideS /\ SameFiles BY <1>1, AsideStream, AsideHeld
<1>2. ASSUME NEW s \in Side, Task(s) PROVE Stream' /\ Result' /\ Held' /\ Accounts' /\ Learn'
  <2>1. CASE VerifyPin(s)
    <3>1. PICK p : p = NoPin OBVIOUS
    <3> QED BY <1>1, <2>1, AsidePin
  <2>2. CASE PinResponseS \/ PinResponseR
    <3>1. PICK p : p = NoPin OBVIOUS
    <3> QED BY <1>1, <1>2, <2>2, AsidePin
  <2>3. CASE DataChannelOpens \/ ReceiveNonceR \/ ReceiveNonceS \/ ReceiveToken \/ ReceiveTokenResponse
    BY <1>1, <2>3, AsideNonce
  <2>4. CASE ReceiveSelection BY <1>1, <2>4, AsideSelection
  <2>5. CASE Confirm BY <1>1, <2>5, AsideConfirm
  <2>6. CASE EndOfFile BY <2>6, EndFiles
  <2>7. CASE ReceiveHeader BY <2>7, HeaderFiles
  <2>8. CASE HeaderUnparsable BY <1>1, <2>8, AsideFails
  <2>9. CASE ReceiveBinary BY <2>9, BinaryFiles
  <2> QED BY <1>2, <2>1, <2>2, <2>3, <2>4, <2>5, <2>6, <2>7, <2>8, <2>9, Zenon DEF Task
<1>3. ASSUME NEW s \in Side, Main(s) PROVE Stream' /\ Result' /\ Held' /\ Accounts' /\ Learn'
  BY <1>1, <1>3, AsideMain
<1>4. CASE NetworkLost \/ UNCHANGED vars BY <1>1, <1>4, Sides, AsideMain
<1>5. ASSUME NEW s \in Side, App(s) PROVE Stream' /\ Result' /\ Held' /\ Accounts' /\ Learn'
  <2>1. ASSUME NEW p \in Pin, SendPin(s, p) PROVE Stream' /\ Result' /\ Held' /\ Accounts' /\ Learn'
    BY <1>1, <2>1, AsidePin
  <2>2. CASE EndFile \/ EndSending BY <2>2, SendSteps, SenderStream, SenderHeld
  <2>3. CASE (\E sel \in SUBSET Id : SendSelection(sel)) \/ Decline BY <2>3, SelectFiles
  <2>4. CASE SendFileStatus BY <2>4, StatusFiles
  <2> QED BY <1>5, <2>1, <2>2, <2>3, <2>4, Zenon DEF App, SenderApp, ReceiverApp
<1>6. ASSUME NEW s \in Side, SendFails(s) PROVE Stream' /\ Result' /\ Held' /\ Accounts' /\ Learn'
  BY <1>1, <1>6, AsideFails
<1>7. CASE AppMay
  <2>1. CASE (\E f \in Id : SendFile(f) \/ SendFileFails(f)) \/ SendChunk
    BY <2>1, SendSteps, SenderStream, SenderHeld
  <2>2. ASSUME NEW s \in Side, PinNotProvided(s) PROVE Stream' /\ Result' /\ Held' /\ Accounts' /\ Learn'
    <3>1. PICK p : p = NoPin OBVIOUS
    <3> QED BY <1>1, <2>2, AsidePin
  <2>3. CASE DropSelection BY <2>3, SelectFiles
  <2>4. CASE SelectionNotPublished \/ FileReceiverDropped BY <1>1, <2>4, AsideFails
  <2> QED BY <1>7, <2>1, <2>2, <2>3, <2>4, Zenon DEF AppMay
<1> QED BY <1>2, <1>3, <1>4, <1>5, <1>6, <1>7, Zenon DEF Next

LEMMA TalkStep ==
  ASSUME FInv, [Next]_vars
  PROVE  Talk'
<1>0. Shape /\ Talk /\ Learn BY DEF FInv
<1>1. CASE /\ UNCHANGED <<pc, selected>>
           /\ \/ UNCHANGED wire
              \/ \E s \in Side : \E n \in 0..Len(wire[s]) : wire' = [wire EXCEPT ![s] = SubSeq(@, 1, n)]
  BY <1>0, <1>1, TalkLost
<1>2. ASSUME NEW n, NEW p \in {"receiving", "result", "failed"}, Do("R", n, <<>>, {}, p),
             pc["R"] = "receiving", wire["R"] # <<>>, UNCHANGED selected
      PROVE  Talk'
  <2>1. PICK N : N = Side OBVIOUS
  <2>5. <<>> \in Seq(N) OBVIOUS
  <2>2. PICK ms \in Seq(N) : ms = <<>> BY <2>5, Zenon
  <2>3. Do("R", n, ms, {}, p) BY <1>2, <2>2
  <2>4. \A i \in 1..Len(ms) : ms[i].t = "fileres" BY <2>2
  <2> QED BY <1>0, <1>2, <2>3, <2>4, TalkFilesR
<1>3. CASE EndOfFile \/ ReceiveHeader \/ HeaderUnparsable \/ ReceiveBinary \/ FileReceiverDropped
  <2>1. /\ UNCHANGED selected /\ pc["R"] = "receiving" /\ wire["R"] # <<>>
        /\ Do("R", 1, <<>>, {}, "result") \/ Do("R", 1, <<>>, {}, "receiving") \/ Do("R", 1, <<>>, {}, "failed")
    BY <1>3 DEF EndOfFile, ReceiveHeader, HeaderUnparsable, ReceiveBinary, FileReceiverDropped,
                Receiving, Next1
  <2>2. PICK n : n = 1 OBVIOUS
  <2> QED BY <1>2, <2>1, <2>2
<1>4. CASE SendFileStatus
  <2>1. PICK N : N = {RTCSendFileResponse(last)} OBVIOUS
  <2>8. <<RTCSendFileResponse(last)>> \in Seq(N) BY <2>1
  <2>2. PICK ms \in Seq(N) : ms = <<RTCSendFileResponse(last)>> BY <2>8, Zenon
  <2>3. \A i \in 1..Len(ms) : ms[i].t = "fileres" BY <2>2 DEF RTCSendFileResponse
  <2>4. PICK n : n = 0 OBVIOUS
  <2>5. PICK p \in {"receiving", "result", "done", "failed"} : Do("R", n, ms, {}, p)
    BY <1>4, <2>2, <2>4 DEF SendFileStatus
  <2>6. pc["R"] = "result" /\ UNCHANGED selected BY <1>4 DEF SendFileStatus, Receiving
  <2>7. selected.st = "Ok" BY <2>6 DEF FInv, Held, OnFiles
  <2> QED BY <1>0, <2>3, <2>5, <2>6, <2>7, TalkFilesR
<1>5. ASSUME NEW n \in Nat, NEW ms, NEW p \in {"sending", "confirm", "done"}, Do("S", n, ms, {}, p),
             pc["S"] \in {"sending", "confirm"}, UNCHANGED selected
      PROVE  Talk'
  <2>1. PICK sts : sts = {} OBVIOUS
  <2>2. Do("S", n, ms, sts, p) BY <1>5, <2>1
  <2> QED BY <1>0, <1>5, <2>2, TalkFilesS
<1>6. CASE SendChunk \/ EndSending \/ Confirm
  <2>1. pc["S"] \in {"sending", "confirm"} /\ UNCHANGED selected
    BY <1>6 DEF SendChunk, EndSending, Confirm, Sending
  <2>2. PICK n \in Nat : n = 0 OBVIOUS
  <2>3. CASE SendChunk
    <3>1. PICK ms : ms = <<[t |-> "bin", v |-> <<cur, sent'[cur]>>]>> OBVIOUS
    <3>2. Do("S", n, ms, {}, "sending") BY <2>2, <2>3, <3>1 DEF SendChunk
    <3> QED BY <1>5, <2>1, <3>2
  <2>4. CASE EndSending
    <3>1. PICK ms : ms = <<Delimiter>> OBVIOUS
    <3>2. Do("S", n, ms, {}, "confirm") BY <2>2, <2>4, <3>1 DEF EndSending, AfterDelimiter
    <3> QED BY <1>5, <2>1, <3>2
  <2>5. CASE Confirm
    <3>1. PICK ms : ms = <<>> OBVIOUS
    <3>2. PICK k \in Nat : k = 1 OBVIOUS
    <3>3. Do("S", k, ms, {}, "done") BY <2>5, <3>1, <3>2 DEF Confirm
    <3> QED BY <1>5, <2>1, <3>3
  <2> QED BY <1>6, <2>3, <2>4, <2>5
<1>7. ASSUME NEW f \in Id, SendFile(f) \/ SendFileFails(f) PROVE Talk'
  <2>1. CASE UNCHANGED <<pc, selected, wire>> BY <1>1, <2>1
  <2>2. CASE SendFile(f) /\ f \in file_map
    <3>1. pc["S"] = "sending" /\ UNCHANGED selected BY <2>2 DEF SendFile, Sending
    <3>2. PICK n \in Nat : n = 0 OBVIOUS
    <3>3. PICK ms : ms = <<RTCSendFileHeaderRequest(f)>> OBVIOUS
    <3>4. Do("S", n, ms, {}, "sending") BY <2>2, <3>2, <3>3 DEF SendFile
    <3> QED BY <1>5, <3>1, <3>4
  <2> QED BY <1>7, <2>1, <2>2 DEF SendFile, SendFileFails, Sending
<1>8. CASE EndFile \/ UNCHANGED vars BY <1>1, <1>8 DEF EndFile, Sending, vars
<1>9. CASE NetworkLost BY <1>0, <1>9, TalkLost DEF NetworkLost
<1>10. ASSUME NEW s \in Side, Main(s) PROVE Talk'
  <2>1. CASE Close(s)
    <3>1. Other(s) \in Side BY Sides DEF Side
    <3> QED BY <1>1, <2>1, <3>1 DEF Close
  <2>2. CASE ~Close(s)
    <3>1. UNCHANGED <<pc, selected, wire>>
      BY <1>10, <2>2 DEF Main, TaskDone, TaskFailed, Disconnected, SendOffer, GotAnswer, SendAnswer, SdpExchanged
    <3> QED BY <1>1, <3>1
  <2> QED BY <2>1, <2>2
<1>11. ASSUME NEW s \in Side, SendFails(s) PROVE Talk'
  <2>1. PICK n : n = 0 OBVIOUS
  <2>2. PICK sts : sts = {} OBVIOUS
  <2>3. Do(s, n, <<>>, sts, "failed") /\ UNCHANGED selected BY <1>11, <2>1, <2>2 DEF SendFails
  <2> QED BY <1>0, <2>1, <2>3, TalkFails
<1>12. ASSUME NEW s \in Side, Task(s) PROVE Talk'
  <2>1. CASE VerifyPin(s) BY <1>0, <2>1, TalkVerify
  <2>2. CASE DataChannelOpens \/ ReceiveNonceR \/ ReceiveNonceS BY <1>0, <2>2, TalkNonce
  <2>3. CASE ReceiveToken \/ ReceiveTokenResponse BY <1>0, <2>3, TalkToken
  <2>4. CASE PinResponseS \/ PinResponseR BY <1>0, <2>4, TalkPinHeard
  <2>5. CASE ReceiveSelection BY <1>0, <2>5, TalkSelect
  <2> QED BY <1>3, <1>6, <1>12, <2>1, <2>2, <2>3, <2>4, <2>5, Zenon DEF Task
<1>13. ASSUME NEW s \in Side, App(s) PROVE Talk'
  <2>1. ASSUME NEW p \in Pin, SendPin(s, p) PROVE Talk' BY <1>0, <2>1, TalkPinSent
  <2>2. CASE (\E sel \in SUBSET Id : SendSelection(sel)) \/ Decline BY <1>0, <2>2, TalkSelect
  <2> QED BY <1>4, <1>6, <1>8, <1>13, <2>1, <2>2, Zenon DEF App, SenderApp, ReceiverApp
<1>14. CASE AppMay
  <2>1. ASSUME NEW s \in Side, PinNotProvided(s) PROVE Talk'
    <3>1. PICK p : p = NoPin OBVIOUS
    <3> QED BY <1>0, <2>1, TalkPinSent
  <2>2. CASE DropSelection \/ SelectionNotPublished BY <1>0, <2>2, TalkSelect
  <2> QED BY <1>3, <1>6, <1>7, <1>14, <2>1, <2>2, Zenon DEF AppMay
<1> QED BY <1>8, <1>9, <1>10, <1>11, <1>12, <1>13, <1>14, Zenon DEF Next

(* The types of the variables, by the kind of step.                        *)
PcMoves(s) ==
  /\ \E p \in Waiting \cup {"done", "failed"} : pc' = [pc EXCEPT ![s] = p]
  /\ s = "S" => pc["S"] # "init" \/ link # "new"

LEMMA TypesSetup ==
  ASSUME FTypes, NEW s \in Side, PcMoves(s), UNCHANGED <<main, errs, cur, sent, file_state, ended, got, link>>
  PROVE  FTypes'
<1>1. PICK p \in Waiting \cup {"done", "failed"} : pc' = [pc EXCEPT ![s] = p] BY DEF PcMoves
<1>2. pc' \in [Side -> Waiting \cup {"done", "failed"}] BY <1>1 DEF FTypes
<1>3. link' = "new" => pc'["S"] = "init"
  <2>1. pc'["S"] = pc["S"] \/ (s = "S" /\ pc["S"] # "init") \/ link # "new" BY <1>1, Sides DEF PcMoves, FTypes
  <2> QED BY <2>1 DEF FTypes
<1> QED BY <1>2, <1>3 DEF FTypes

LEMMA SetupMoves ==
  ASSUME FTypes, NEW s \in Side, NEW p,
         \/ DataChannelOpens \/ ReceiveNonceR \/ ReceiveNonceS \/ ReceiveToken \/ ReceiveTokenResponse
         \/ SendPin(s, p) \/ PinNotProvided(s) \/ VerifyPin(s) \/ PinResponseS \/ PinResponseR
         \/ SendFails(s) \/ DropSelection \/ ReceiveSelection \/ SelectionNotPublished
         \/ (\E sel \in SUBSET Id : SendSelection(sel)) \/ Decline
  PROVE  FTypes'
<1>1. UNCHANGED <<main, errs, cur, sent, file_state, ended, got, link>>
  <2>1. CASE DataChannelOpens \/ ReceiveNonceR \/ ReceiveNonceS \/ ReceiveToken \/ ReceiveTokenResponse
    BY <2>1 DEF DataChannelOpens, ReceiveNonceR, ReceiveNonceS, ReceiveToken, ReceiveTokenResponse,
                BeforeFiles, files, saved
  <2>2. CASE SendPin(s, p) \/ PinNotProvided(s) \/ VerifyPin(s) \/ PinResponseS \/ PinResponseR
    BY <2>2 DEF SendPin, PinNotProvided, VerifyPin, PinResponseS, PinResponseR, BeforeFiles, files, saved
  <2>3. CASE SendFails(s) \/ DropSelection \/ ReceiveSelection \/ SelectionNotPublished
    BY <2>3 DEF SendFails, DropSelection, ReceiveSelection, SelectionNotPublished, BeforeFiles, files, saved
  <2>4. CASE (\E sel \in SUBSET Id : SendSelection(sel)) \/ Decline
    BY <2>4 DEF SendSelection, Decline, files, saved
  <2> QED BY <2>1, <2>2, <2>3, <2>4
<1>2. PcMoves("S") \/ PcMoves("R") \/ PcMoves(s)
  <2>1. CASE DataChannelOpens \/ ReceiveNonceS \/ ReceiveTokenResponse
    BY <2>1 DEF DataChannelOpens, ReceiveNonceS, ReceiveTokenResponse, ChallengeOrList, SendList, Do,
                PcMoves, Waiting
  <2>2. CASE ReceiveNonceR \/ ReceiveToken
    BY <2>2 DEF ReceiveNonceR, ReceiveToken, Do, PcMoves, Waiting
  <2>3. CASE SendPin(s, p) \/ PinNotProvided(s) \/ SendFails(s)
    BY <2>3 DEF SendPin, PinNotProvided, SendFails, Do, PcMoves, Waiting
  <2>4. CASE VerifyPin(s)
    BY <2>4 DEF VerifyPin, SendList, Do, PcMoves, Waiting, Side
  <2>5. CASE PinResponseS \/ ReceiveSelection \/ SelectionNotPublished
    BY <2>5 DEF PinResponseS, ReceiveSelection, SelectionNotPublished, ChallengeOrList, SendList, Do,
                PcMoves, Waiting
  <2>6. CASE PinResponseR \/ DropSelection \/ Decline \/ \E sel \in SUBSET Id : SendSelection(sel)
    BY <2>6 DEF PinResponseR, DropSelection, Decline, SendSelection, Do, PcMoves, Waiting
  <2> QED BY <2>1, <2>2, <2>3, <2>4, <2>5, <2>6
<1>3. ASSUME NEW r \in Side, PcMoves(r) PROVE FTypes' BY <1>1, <1>3, TypesSetup
<1> QED BY <1>2, <1>3, Sides

LEMMA TypesMain ==
  ASSUME FInv, NEW s \in Side, Main(s) \/ NetworkLost \/ UNCHANGED vars
  PROVE  FTypes'
<1>0. FTypes /\ Talk BY DEF FInv
<1>1. UNCHANGED <<pc, errs, cur, sent, file_state, ended, got>>
  BY DEF Main, TaskDone, TaskFailed, Disconnected, Close, SendOffer, GotAnswer, SendAnswer, SdpExchanged,
         NetworkLost, vars, files, saved
<1>2. main' = [r \in Side |-> main'[r]]
  <2>1. main = [r \in Side |-> main[r]] BY <1>0 DEF FTypes
  <2>2. UNCHANGED main \/ \E r \in Side : \E v : main' = [main EXCEPT ![r] = v]
    BY Sides DEF Main, TaskDone, TaskFailed, Disconnected, Close, SendOffer, GotAnswer, SendAnswer,
                 SdpExchanged, NetworkLost, vars
  <2>3. CASE UNCHANGED main BY <2>1, <2>3
  <2>4. ASSUME NEW r \in Side, NEW v, main' = [main EXCEPT ![r] = v] PROVE main' = [q \in Side |-> main'[q]]
    BY <2>1, <2>4
  <2> QED BY <2>2, <2>3, <2>4
<1>3. main["S"] \in {"start", "offered"} => link = "new" /\ pc["S"] = "init" BY <1>0 DEF FTypes
<1>4. pc["S"] = "init" => pc["R"] \in {"init", "failed"}
  <2>1. PICK ps, pr \in Waiting \cup {"done"} :
          /\ pc["S"] \in {ps, "failed"} /\ pc["R"] \in {pr, "failed"}
          /\ Row(ps, pr, wire["S"], wire["R"], selected)
    BY <1>0 DEF Talk
  <2>2. ps = "init" => pr = "init" BY <2>1, RowIs
  <2> QED BY <2>1, <2>2
<1>5. main'["S"] \in {"start", "offered"} => link' = "new"
  <2>1. CASE TaskDone(s) \/ Disconnected(s)
    <3>1. main["S"] \notin {"start", "offered"} BY <2>1, <1>3, <1>4 DEF TaskDone, Disconnected, Side
    <3>2. main' = [main EXCEPT ![s] = "finished"] BY <2>1 DEF TaskDone, Disconnected, Close
    <3> QED BY <1>0, <3>1, <3>2, Sides DEF FTypes
  <2>2. CASE TaskFailed(s)
    <3>1. main' = [main EXCEPT ![s] = "failed"] /\ link' = link BY <2>2 DEF TaskFailed
    <3> QED BY <1>0, <3>1, <1>3, Sides DEF FTypes
  <2>3. CASE SendOffer
    BY <1>0, <1>3, <2>3, Sides DEF FTypes, SendOffer
  <2>4. CASE GotAnswer
    BY <1>0, <2>4, Sides DEF FTypes, GotAnswer, SdpExchanged
  <2>5. CASE SendAnswer
    BY <1>0, <1>3, <2>5, Sides DEF FTypes, SendAnswer, SdpExchanged
  <2>6. CASE NetworkLost \/ UNCHANGED vars BY <1>3, <2>6 DEF NetworkLost, vars
  <2> QED BY <2>1, <2>2, <2>3, <2>4, <2>5, <2>6 DEF Main
<1>6. link' = "new" => link = "new"
  BY DEF Main, TaskDone, TaskFailed, Disconnected, Close, SendOffer, GotAnswer, SendAnswer, SdpExchanged,
         NetworkLost, vars
<1> QED BY <1>0, <1>1, <1>2, <1>5, <1>6 DEF FTypes

LEMMA TypesSender ==
  ASSUME FTypes, \/ (\E f \in Id : SendFile(f) \/ SendFileFails(f))
                 \/ SendChunk \/ EndFile \/ EndSending \/ Confirm
  PROVE  FTypes'
<1>1. UNCHANGED <<main, link, file_state, ended, got>> /\ pc["S"] # "init"
  BY DEF SendFile, SendFileFails, SendChunk, EndFile, EndSending, Confirm, Sending, saved
<1>2. \E p \in Waiting \cup {"done"} : pc' = [pc EXCEPT !["S"] = p]
  <2>1. UNCHANGED pc \/ \E p \in Waiting \cup {"done"} : pc' = [pc EXCEPT !["S"] = p]
    BY DEF SendFile, SendFileFails, SendChunk, EndFile, EndSending, Confirm, AfterDelimiter, Do, Waiting
  <2>2. UNCHANGED pc => pc' = [pc EXCEPT !["S"] = pc["S"]] /\ pc["S"] = "sending"
    <3>1. CASE UNCHANGED pc /\ pc["S"] = "sending" BY <3>1 DEF FTypes
    <3>2. CASE pc["S"] # "sending"
      <4>1. Confirm BY <3>2 DEF SendFile, SendFileFails, SendChunk, EndFile, EndSending
      <4>2. pc' # pc BY <4>1, Sides DEF Confirm, Do, FTypes
      <4> QED BY <4>2
    <3> QED BY <3>1, <3>2
  <2>3. "sending" \in Waiting BY DEF Waiting
  <2> QED BY <2>1, <2>2, <2>3
<1>3. pc' \in [Side -> Waiting \cup {"done", "failed"}]
  <2>1. PICK p \in Waiting \cup {"done"} : pc' = [pc EXCEPT !["S"] = p] BY <1>2
  <2>2. pc \in [Side -> Waiting \cup {"done", "failed"}] BY DEF FTypes
  <2> QED BY <2>1, <2>2
<1>4. errs' = [s \in Side |-> errs'[s]]
  <2>1. UNCHANGED errs \/ \E v : errs' = [errs EXCEPT !["S"] = v]
    BY DEF SendFile, SendFileFails, SendChunk, EndFile, EndSending, Confirm
  <2> QED BY <2>1 DEF FTypes
<1>5. cur' \in Id \cup {NoId}
  BY DEF SendFile, SendFileFails, SendChunk, EndFile, EndSending, Confirm, FTypes, files
<1>6. sent' \in [Id -> 0..NotSent]
  <2>1. CASE SendChunk
    <3>1. cur \in Id /\ sent[cur] \in 0..NotSent /\ sent[cur] < MaxChunks BY <2>1 DEF SendChunk, FTypes
    <3>2. sent[cur] + 1 \in 0..NotSent BY <3>1 DEF NotSent
    <3> QED BY <2>1, <3>1, <3>2 DEF SendChunk, FTypes
  <2>2. ASSUME NEW f \in Id, SendFile(f) PROVE sent' \in [Id -> 0..NotSent]
    <3>1. 0 \in 0..NotSent BY DEF NotSent
    <3>2. sent' = sent \/ sent' = [sent EXCEPT ![f] = 0] BY <2>2 DEF SendFile, files
    <3>3. sent \in [Id -> 0..NotSent] BY DEF FTypes
    <3> QED BY <3>1, <3>2, <3>3
  <2> QED BY <2>1, <2>2 DEF SendFileFails, EndFile, EndSending, Confirm, FTypes, files
<1> QED BY <1>1, <1>3, <1>4, <1>5, <1>6 DEF FTypes

LEMMA TypesReceiver ==
  ASSUME FInv, EndOfFile \/ ReceiveHeader \/ SendFileStatus \/ HeaderUnparsable \/ ReceiveBinary
               \/ FileReceiverDropped
  PROVE  FTypes'
<1>0. FTypes BY DEF FInv
<1>1. UNCHANGED <<main, link, cur, sent>>
  BY DEF EndOfFile, ReceiveHeader, SendFileStatus, HeaderUnparsable, ReceiveBinary, FileReceiverDropped,
         Receiving, files
<1>2. \E p \in Waiting \cup {"done", "failed"} : pc' = [pc EXCEPT !["R"] = p]
  BY DEF EndOfFile, ReceiveHeader, SendFileStatus, HeaderUnparsable, ReceiveBinary, FileReceiverDropped,
         Do, Waiting
<1>3. pc' \in [Side -> Waiting \cup {"done", "failed"}] /\ pc'["S"] = pc["S"] BY <1>0, <1>2, Sides DEF FTypes
<1>4. errs' = [s \in Side |-> errs'[s]]
  <2>1. UNCHANGED errs \/ \E v : errs' = [errs EXCEPT !["R"] = v]
    BY DEF EndOfFile, ReceiveHeader, SendFileStatus, HeaderUnparsable, ReceiveBinary, FileReceiverDropped, OpenFile
  <2> QED BY <1>0, <2>1 DEF FTypes
<1>5. file_state' \in Id \cup {NoId}
  <2>1. file_state' \in {file_state, NoId} \cup Offered
    BY DEF EndOfFile, ReceiveHeader, SendFileStatus, HeaderUnparsable, ReceiveBinary, FileReceiverDropped,
           OpenFile, saved
  <2> QED BY <1>0, <2>1 DEF FTypes
<1>6. ended' \in SUBSET Id
  BY <1>0 DEF EndOfFile, ReceiveHeader, SendFileStatus, HeaderUnparsable, ReceiveBinary, FileReceiverDropped,
              saved, FTypes
<1>7. got' \in [Id -> Seq(Id \X Nat)]
  <2>1. CASE UNCHANGED got BY <1>0, <2>1 DEF FTypes
  <2>2. CASE ReceiveBinary /\ file_state # NoId
    <3>1. PICK p : p = "receiving" OBVIOUS
    <3>2. Do("R", 1, <<>>, {}, p) /\ pc["R"] = "receiving" /\ wire["R"] # <<>> /\ wire["R"][1].t = "bin"
      BY <2>2, <3>1 DEF ReceiveBinary, Next1
    <3>3. Item(wire["R"][1], sent) BY <3>2, Takes
    <3>4. wire["R"][1].v \in Id \X Nat
      <4>1. PICK f \in Id : \E k \in 1..sent[f] : wire["R"][1].v = <<f, k>>
        BY <3>2, <3>3 DEF Item, Delimiter, RTCSendFileHeaderRequest
      <4>2. sent[f] \in Nat BY <1>0 DEF FTypes, NotSent
      <4> QED BY <4>1, <4>2
    <3>5. file_state \in Id /\ got[file_state] \in Seq(Id \X Nat) BY <1>0, <2>2 DEF FTypes
    <3>6. Append(got[file_state], wire["R"][1].v) \in Seq(Id \X Nat) BY <3>4, <3>5
    <3> QED BY <1>0, <2>2, <3>5, <3>6 DEF ReceiveBinary, FTypes
  <2> QED BY <2>1, <2>2 DEF EndOfFile, ReceiveHeader, SendFileStatus, HeaderUnparsable, ReceiveBinary,
                            FileReceiverDropped, saved
<1> QED BY <1>0, <1>1, <1>3, <1>4, <1>5, <1>6, <1>7 DEF FTypes

LEMMA TypesStep ==
  ASSUME FInv, [Next]_vars
  PROVE  FTypes'
<1>0. FTypes BY DEF FInv
<1>1. PICK q : q = NoPin OBVIOUS
<1>2. ASSUME NEW s \in Side, Task(s) PROVE FTypes'
  BY <1>0, <1>1, <1>2, SetupMoves, TypesSender, TypesReceiver, Zenon DEF Task
<1>3. ASSUME NEW s \in Side, Main(s) PROVE FTypes' BY <1>3, TypesMain
<1>4. CASE NetworkLost \/ UNCHANGED vars BY <1>4, Sides, TypesMain
<1>5. ASSUME NEW s \in Side, App(s) PROVE FTypes'
  BY <1>0, <1>1, <1>5, SetupMoves, TypesSender, TypesReceiver, Zenon DEF App, SenderApp, ReceiverApp
<1>6. ASSUME NEW s \in Side, SendFails(s) PROVE FTypes' BY <1>0, <1>1, <1>6, SetupMoves, Zenon
<1>7. CASE AppMay
  BY <1>0, <1>1, <1>7, Sides, SetupMoves, TypesSender, TypesReceiver, Zenon DEF AppMay
<1> QED BY <1>2, <1>3, <1>4, <1>5, <1>6, <1>7, Zenon DEF Next

LEMMA InitFInv == Init => FInv
<1> SUFFICES ASSUME Init PROVE FInv OBVIOUS
<1>1. /\ pc["S"] = "init" /\ pc["R"] = "init" /\ wire["S"] = <<>> /\ wire["R"] = <<>>
      /\ errs["R"] = {} /\ status["S"] = {} /\ selected = NoAnswer
      /\ cur = NoId /\ file_state = NoId /\ ended = {} /\ link = "new"
  BY Sides DEF Init
<1>2. \A f \in Id : got[f] = <<>> /\ sent[f] = NotSent BY DEF Init
<1>3. Shape BY InitIInv DEF IInv
<1>4. FTypes
  <2>1. NotSent \in 0..NotSent BY DEF NotSent
  <2>2. <<>> \in Seq(Id \X Nat) OBVIOUS
  <2>3. pc \in [Side -> Waiting \cup {"done", "failed"}] BY DEF Init, Waiting
  <2>4. sent \in [Id -> 0..NotSent] BY <2>1 DEF Init
  <2>5. got \in [Id -> Seq(Id \X Nat)] BY <2>2 DEF Init
  <2>6. main = [s \in Side |-> main[s]] /\ errs = [s \in Side |-> errs[s]] BY DEF Init
  <2> QED BY <1>1, <2>3, <2>4, <2>5, <2>6 DEF FTypes
<1>5. Talk
  <2>1. Row("init", "init", wire["S"], wire["R"], selected) BY <1>1 DEF Row, None
  <2>2. "init" \in Waiting BY DEF Waiting
  <2> QED BY <1>1, <2>1, <2>2 DEF Talk
<1>6. Stream /\ Result BY <1>1 DEF Stream, Result, OnFiles
<1>7. Held
  <2>1. ASSUME NEW f \in Id PROVE HeldOf(f) /\ ~Begun(f)
    <3>1. 1..Len(got[f]) = {} BY <1>2
    <3> QED BY <1>1, <1>2, <3>1 DEF HeldOf, Begun, Untouched
  <2> QED BY <1>1, <1>2, <2>1 DEF Held, OnFiles
<1>8. Accounts BY <1>1 DEF Accounts, OnFiles, DelimTaken
<1>9. Learn
  <2>1. Elems(wire["S"]) = {} BY <1>1 DEF Elems
  <2> QED BY <1>1, <2>1 DEF Learn
<1> QED BY <1>3, <1>4, <1>5, <1>6, <1>7, <1>8, <1>9 DEF FInv

LEMMA NextFInv == IInv /\ FInv /\ [Next]_vars => IInv' /\ FInv'
<1> SUFFICES ASSUME IInv, FInv, [Next]_vars PROVE IInv' /\ FInv' OBVIOUS
<1>1. IInv' BY NextIInv
<1>2. Shape' BY <1>1 DEF IInv
<1>3. FTypes' BY TypesStep
<1>4. Talk' BY TalkStep
<1>5. Stream' /\ Result' /\ Held' /\ Accounts' /\ Learn' BY FilesStep
<1> QED BY <1>1, <1>2, <1>3, <1>4, <1>5 DEF FInv

LEMMA AlwaysFInv == Spec => [](IInv /\ FInv)
BY InitIInv, InitFInv, NextFInv, PTL DEF Spec

(* Whenever a task looks at the next message it is of the type the code    *)
(* of peer.rs parses there, whatever the two apps do, however the PIN      *)
(* challenges go and wherever the connection breaks; a delimiter meets no  *)
(* open file only after a file was rejected or when none was begun.        *)
THEOREM StayInStep == Spec => []InStep
<1>1. ASSUME FInv PROVE InStep
  <2>1. PICK ps, pr \in Waiting \cup {"done"} :
          /\ pc["S"] \in {ps, "failed"} /\ pc["R"] \in {pr, "failed"}
          /\ Row(ps, pr, wire["S"], wire["R"], selected)
    BY <1>1 DEF FInv, Talk
  <2>2. Len(wire["S"]) \in Nat /\ Len(wire["R"]) \in Nat
        /\ (wire["S"] # <<>> => Len(wire["S"]) >= 1) /\ (wire["R"] # <<>> => Len(wire["R"]) >= 1)
    BY <1>1, Sides, WireSeq DEF FInv
  <2>3. ASSUME wire["S"] # <<>>
        PROVE  LET t == wire["S"][1].t IN
               /\ pc["S"] = "nonce" => t = "nonce"
               /\ pc["S"] = "token" => t = "tokenres"
               /\ pc["S"] \in {"askpin", "pinwait"} => t = "pinres"
               /\ pc["S"] = "verify" => t = "pin"
               /\ pc["S"] = "list" => t = "bin"
               /\ pc["S"] \in {"sending", "confirm"} => t = "fileres"
    <3>1. /\ ps = "nonce" => One(wire["S"], "nonce")
          /\ ps = "token" => One(wire["S"], "tokenres")
          /\ ps # "askpin"
          /\ ps = "pinwait" => One(wire["S"], "pinres")
          /\ ps = "verify" => One(wire["S"], "pin")
          /\ ps = "list" => Body(wire["S"])
          /\ ps \in {"sending", "confirm"} => \A i \in 1..Len(wire["S"]) : wire["S"][i].t = "fileres"
      BY <2>1, <2>3, RowIs
    <3>2. 1 \in 1..Len(wire["S"]) BY <2>2, <2>3
    <3> QED BY <2>1, <2>3, <3>1, <3>2 DEF One, Body
  <2>4. ASSUME wire["R"] # <<>>
        PROVE  LET t == wire["R"][1].t IN
               /\ pc["R"] = "init" => t = "nonce"
               /\ pc["R"] = "token" => t = "token"
               /\ pc["R"] = "verify" => t = "pin"
               /\ pc["R"] \in {"list", "askpin", "pinwait"} => t = "bin"
    <3>1. /\ pr = "init" => One(wire["R"], "nonce")
          /\ pr = "token" => One(wire["R"], "token")
          /\ pr = "verify" => One(wire["R"], "pin")
          /\ pr # "askpin"
          /\ pr \in {"list", "pinwait"} => Body(wire["R"])
      BY <2>1, <2>4, RowIs
    <3> QED BY <2>1, <2>4, <3>1 DEF One, Body
  <2>5. ASSUME wire["R"] # <<>>, pc["R"] = "receiving", file_state = NoId, wire["R"][1].t = "delim",
               NEW f \in Id, sent[f] # NotSent
        PROVE  errs["R"] # {}
    <3>1. 1 \in 1..Len(wire["R"]) BY <2>2, <2>5
    <3>2. Chain(wire["R"], Front, sent, cur) BY <1>1, <2>5 DEF FInv, Stream, OnFiles
    <3>3. wire["R"][1] = Delimiter /\ 1 = Len(wire["R"])
      BY <2>5, <3>1, <3>2 DEF Chain, Item
    <3>4. Elems(wire["R"]) = {Delimiter} BY <3>3 DEF Elems
    <3>5. RTCSendFileHeaderRequest(f) # Delimiter
      <4>1. RTCSendFileHeaderRequest(f).t = "header" /\ Delimiter.t = "delim"
        BY DEF RTCSendFileHeaderRequest, Delimiter
      <4> QED BY <4>1
    <3>6. Known(f) BY <1>1, <2>5, <3>4, <3>5 DEF FInv, Accounts, OnFiles, Begun
    <3>7. f \in ended \cup errs["R"] BY <2>5, <3>6 DEF Known
    <3> QED BY <1>1, <2>5, <3>7 DEF FInv, Accounts
  <2> QED BY <2>3, <2>4, <2>5 DEF InStep
<1> QED BY <1>1, AlwaysFInv, PTL

LEMMA ChunksOf ==
  ASSUME FTypes, NEW f \in Id, NEW g \in Seq(Id \X Nat), \A i \in 1..Len(g) : g[i] = <<f, i>>, Len(g) <= sent[f]
  PROVE  g = SubSeq(Chunk(f), 1, Len(g)) /\ (Len(g) = sent[f] => g = Chunk(f))
<1>1. PICK k : k = sent[f] OBVIOUS
<1>2. PICK c : c = Chunk(f) OBVIOUS
<1>3. k \in Nat BY <1>1 DEF FTypes, NotSent
<1>4. c = [i \in 1..k |-> <<f, i>>] BY <1>1, <1>2 DEF Chunk
<1>5. c \in Seq(Id \X Nat) /\ Len(c) = k
  <2>1. c \in [1..k -> Id \X Nat] BY <1>3, <1>4
  <2> QED BY <1>3, <2>1
<1>6. PICK h : h = SubSeq(c, 1, Len(g)) OBVIOUS
<1>7. Len(g) \in Nat /\ Len(g) <= k BY <1>1
<1>8. h \in Seq(Id \X Nat) /\ Len(h) = Len(g) /\ \A i \in 1..Len(g) : h[i] = c[i]
  BY <1>5, <1>6, <1>7
<1>9. \A i \in 1..Len(g) : c[i] = <<f, i>> BY <1>3, <1>4, <1>7
<1>10. h = g BY <1>8, <1>9, SeqEqual
<1>11. Len(g) = k => g = c BY <1>5, <1>9, SeqEqual
<1> QED BY <1>1, <1>2, <1>6, <1>10, <1>11

(* The bytes the receiving app gets under a file's name are that file's,   *)
(* in order and without a gap, and all of them once the file has ended     *)
(* (the receiving loop of peer.rs), for any number of files and chunks and *)
(* also when the headers of rejected files come between.                   *)
THEOREM FilesNotMixed == Spec => []NoMixing
<1>1. ASSUME FInv PROVE NoMixing
  <2>1. ASSUME NEW f \in Id
        PROVE  /\ got[f] # <<>> => got[f] = SubSeq(Chunk(f), 1, Len(got[f]))
               /\ f \in ended => f \in selected.files \cap Offered /\ got[f] = Chunk(f)
    <3>1. FTypes /\ HeldOf(f) BY <1>1 DEF FInv, Held
    <3>2. got[f] \in Seq(Id \X Nat) /\ sent[f] \in Nat BY <3>1 DEF FTypes, NotSent
    <3>3. CASE got[f] # <<>> \/ f \in ended
      <4>1. Len(got[f]) <= sent[f] /\ \A i \in 1..Len(got[f]) : got[f][i] = <<f, i>>
        BY <3>1, <3>2, <3>3 DEF HeldOf
      <4>2. PICK g \in Seq(Id \X Nat) : g = got[f] BY <3>2
      <4>3. g = SubSeq(Chunk(f), 1, Len(g)) /\ (Len(g) = sent[f] => g = Chunk(f))
        BY <3>1, <4>1, <4>2, ChunksOf
      <4>4. f \in ended => f \in selected.files \cap Offered /\ Len(got[f]) = sent[f]
        BY <3>1 DEF HeldOf
      <4> QED BY <4>2, <4>3, <4>4
    <3> QED BY <3>3
  <2> QED BY <2>1 DEF NoMixing
<1> QED BY <1>1, AlwaysFInv, PTL

(* A receiving task that ends on the delimiter has received to its end, or *)
(* reported on error_tx, every file the sender began (the receiving loop   *)
(* of peer.rs), however many files there are and wherever the sender is.   *)
THEOREM AllAccounted == Spec => []DoneMeansAccounted
<1>1. ASSUME FInv PROVE DoneMeansAccounted
  BY <1>1 DEF FInv, Accounts, DelimTaken, Known, Begun, DoneMeansAccounted
<1> QED BY <1>1, AlwaysFInv, PTL

(* The sender reports Declined only when the receiving user declined, and  *)
(* after sending a single file its task ends only once that file was       *)
(* received to its end (the one response send_offer waits for).            *)
THEOREM SenderInformed == Spec => []SenderLearns
<1>1. ASSUME FInv PROVE SenderLearns
  <2>1. "Declined" \in status["S"] => selected = Declined BY <1>1 DEF FInv, Learn
  <2>2. ASSUME NEW f \in Id, pc["S"] = "done", selected.st = "Ok", {g \in Id : sent[g] # NotSent} = {f}
        PROVE  f \in ended
    <3>1. ended # {} BY <1>1, <2>2 DEF FInv, Learn, Declined
    <3>2. PICK g \in Id : g \in ended BY <1>1, <3>1 DEF FInv, FTypes
    <3>3. sent[g] # NotSent BY <1>1, <3>2 DEF FInv, Held, HeldOf, Begun
    <3> QED BY <2>2, <3>2, <3>3
  <2> QED BY <2>1, <2>2 DEF SenderLearns
<1> QED BY <1>1, AlwaysFInv, PTL
=============================================================================

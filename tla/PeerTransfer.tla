---------------------------- MODULE PeerTransfer ----------------------------
(***************************************************************************)
(* A WebRTC transfer (core/src/webrtc/peer.rs): send_offer on side "S" and *)
(* accept_offer on side "R", driven by their apps through the controllers  *)
(* of app/rust/src/api/webrtc.rs or, as in core/src/main.rs, through bare  *)
(* channels.  Each call runs a main part (SDP exchange, then a select over *)
(* its task and the Disconnected event) and a task (nonces, tokens, PINs,  *)
(* file list, selection, files).                                           *)
(*                                                                         *)
(* The ordered data channel and the receive stream behind it are one FIFO  *)
(* per direction.  A string sent in chunks is one binary message followed  *)
(* by the delimiter (FileStream has the chunking).  A key is the name of   *)
(* its owner, a nonce the name of the side that drew it, and a             *)
(* signature is genuine (cryptography is external).                        *)
(*                                                                         *)
(* Left out: the Pair exchange (nothing in this repository sends Pair) and *)
(* empty PINs (see the README).                                            *)
(***************************************************************************)
EXTENDS Naturals, Sequences, FiniteSets

CONSTANTS
  Id,          \* file ids an app can name
  Offered,     \* the files of this transfer
  NoId,
  Pin, NoPin,
  MaxTries,    \* PinConfig.max_tries
  MaxChunks    \* bound: binary messages of one file

ASSUME PeerAssumption ==
  /\ Offered \subseteq Id /\ NoId \notin Id
  /\ NoPin \notin Pin
  /\ MaxTries \in 1..255
  /\ MaxChunks \in Nat

VARIABLES
  pin,        \* RTCAuthConfig.pin of each side
  expecting,  \* RTCAuthConfig.expecting_public_key of each side
  main,       \* where send_offer and accept_offer are
  pc,         \* where their tasks are
  link,       \* the peer connection: "new", "open", "down"
  wire,       \* messages on their way to each side
  nonce,      \* the final nonce as each side computes it
  tries,      \* pin_try of each side's verify_pin
  typed,      \* PINs each side's user has typed
  status,     \* what each side has reported on status_tx
  errs,       \* files each side reported on error_tx
  selected,   \* the answer of the receiving user
  file_map,   \* the selection as the sending task knows it
  cur, sent,  \* file being sent; binary messages sent of each file begun
  file_state, \* file being received
  last, msg,  \* file whose result is awaited, and the string that ended it
  got, ended  \* binary messages given to the receiving app; files complete

conf == <<pin, expecting>>
files == <<cur, sent>>
saved == <<file_state, last, msg, got, ended>>
vars == <<pin, expecting, main, pc, link, wire, nonce, tries, typed, status,
          errs, selected, file_map, cur, sent, file_state, last, msg, got,
          ended>>

Side == {"S", "R"}
Other(s) == IF s = "S" THEN "R" ELSE "S"
NoKey == "none"
NotSent == MaxChunks + 1

(* The answer of the receiving user, and the body of RTCFileListResponse.  *)
NoAnswer == [st |-> "open", files |-> {}]
Declined == [st |-> "Declined", files |-> {}]
Accepted(sel) == [st |-> "Ok", files |-> sel]

RTCStatus == {"SdpExchanged", "Connected", "PinRequired", "TooManyAttempts",
              "Declined", "Finished", "Error"}

(* A key of either side is an ed25519 key, that of a stranger may be RSA.  *)
SignatureMethod(key) == IF key \in Side THEN "ed25519" ELSE "rsa-pss"
(* generate_token_nonce: the five parts of a token.                        *)
Token(s, n) ==
  [hash_method |-> "sha256", hash |-> <<s, n>>, salt |-> n,
   sign_method |-> SignatureMethod(s), signature |-> [by |-> s, of |-> <<s, n>>]]

(* Messages.  "bin" is binary, every other type is a string.               *)
RTCNonceMessage(s) == [t |-> "nonce", v |-> s]
RTCTokenRequest(n) == [t |-> "token", v |-> Token("S", n)]
RTCTokenResponse(st, n) == [t |-> "tokenres", st |-> st, v |-> Token("R", n)]
RTCPinMessage(p) == [t |-> "pin", v |-> p]
RTCPinReceivingResponse(st) == [t |-> "pinres", v |-> st]
RTCSendFileHeaderRequest(f) == [t |-> "header", v |-> f]
RTCSendFileResponse(f) == [t |-> "fileres", v |-> f]
Delimiter == [t |-> "delim"]
InChunks(body) == <<[t |-> "bin", v |-> body], Delimiter>>
RTCPinSendingResponse(body) == InChunks(body)
RTCFileListResponse(body) == InChunks(body)

(* receive_rx.recv(): the next message is of type t.                       *)
Next1(s, t) == wire[s] # <<>> /\ wire[s][1].t = t
(* receive_string_from_chunks: binary messages up to a string.             *)
NextBody(s) == Len(wire[s]) >= 2 /\ wire[s][1].t = "bin"

(* Side s consumes n messages, sends ms (into the void once the link is    *)
(* down), reports sts and goes on at p.                                    *)
Do(s, n, ms, sts, p) ==
  /\ wire' = [wire EXCEPT ![s] = SubSeq(@, n + 1, Len(@)),
                          ![Other(s)] = IF link = "open" THEN @ \o ms ELSE @]
  /\ status' = [status EXCEPT ![s] = @ \cup sts]
  /\ pc' = [pc EXCEPT ![s] = p]

-----------------------------------------------------------------------------
Init ==
  /\ pin \in [Side -> Pin \cup {NoPin}]
  /\ expecting \in [Side -> {NoKey, "S", "R", "X"}]
  /\ \A s \in Side : expecting[s] # s
  /\ main = [s \in Side |-> "start"]
  /\ pc = [s \in Side |-> "init"]
  /\ link = "new"
  /\ wire = [s \in Side |-> <<>>]
  /\ nonce = [s \in Side |-> <<>>]
  /\ tries = [s \in Side |-> 0]
  /\ typed = [s \in Side |-> {}]
  /\ status = [s \in Side |-> {}]
  /\ errs = [s \in Side |-> {}]
  /\ selected = NoAnswer
  /\ file_map = {}
  /\ cur = NoId /\ sent = [f \in Id |-> NotSent]
  /\ file_state = NoId /\ last = NoId /\ msg = Delimiter
  /\ got = [f \in Id |-> <<>>] /\ ended = {}

-----------------------------------------------------------------------------
(* The main parts.                                                         *)

SendOffer ==
  /\ main["S"] = "start"
  /\ main' = [main EXCEPT !["S"] = "offered"]
  /\ UNCHANGED <<conf, pc, link, wire, nonce, tries, typed, status, errs,
                 selected, file_map, files, saved>>

SdpExchanged(s) ==
  /\ main' = [main EXCEPT ![s] = "running"]
  /\ status' = [status EXCEPT ![s] = @ \cup {"SdpExchanged"}]
  /\ UNCHANGED <<conf, pc, wire, nonce, tries, typed, errs, selected,
                 file_map, files, saved>>

SendAnswer ==
  /\ main["S"] = "offered" /\ main["R"] = "start"
  /\ SdpExchanged("R")
  /\ UNCHANGED link

GotAnswer ==
  /\ main["S"] = "offered" /\ main["R"] # "start"
  /\ SdpExchanged("S")
  /\ link' = "open"

(* Closing drops what the other side has not received yet.                 *)
Close(s) ==
  /\ main' = [main EXCEPT ![s] = "finished"]
  /\ status' = [status EXCEPT ![s] = @ \cup {"Finished"}]
  /\ link' = "down"
  /\ \E n \in 0..Len(wire[Other(s)]) :
       wire' = [wire EXCEPT ![Other(s)] = SubSeq(@, 1, n)]
  /\ UNCHANGED <<conf, pc, nonce, tries, typed, errs, selected, file_map,
                 files, saved>>

TaskDone(s) == main[s] = "running" /\ pc[s] = "done" /\ Close(s)

Disconnected(s) == main[s] = "running" /\ link = "down" /\ Close(s)

(* An error of the task ends the call: no Finished and no close.           *)
TaskFailed(s) ==
  /\ main[s] = "running" /\ pc[s] = "failed"
  /\ main' = [main EXCEPT ![s] = "failed"]
  /\ status' = [status EXCEPT ![s] = @ \cup {"Error"}]
  /\ UNCHANGED <<conf, pc, link, wire, nonce, tries, typed, errs, selected,
                 file_map, files, saved>>

(* The network is lost, with what it carried.                              *)
NetworkLost ==
  /\ link = "open"
  /\ link' = "down"
  /\ \E n \in 0..Len(wire["S"]), m \in 0..Len(wire["R"]) :
       wire' = [s \in Side |-> SubSeq(wire[s], 1, IF s = "S" THEN n ELSE m)]
  /\ UNCHANGED <<conf, main, pc, nonce, tries, typed, status, errs, selected,
                 file_map, files, saved>>

(* A send fails once the link is down, and the error ends the task; within *)
(* a file it ends that file only (SendFileFails).                          *)
SendFails(s) ==
  /\ link = "down" /\ pc[s] \notin {"done", "failed"}
  /\ s = "S" => cur = NoId
  /\ Do(s, 0, <<>>, {}, "failed")
  /\ UNCHANGED <<conf, main, link, nonce, tries, typed, errs, selected,
                 file_map, files, saved>>

-----------------------------------------------------------------------------
(* Nonces and tokens.                                                      *)

BeforeFiles == <<conf, main, link, errs, selected, file_map, files, saved>>

DataChannelOpens ==
  /\ pc["S"] = "init" /\ link = "open"
  /\ Do("S", 0, <<RTCNonceMessage("S")>>, {}, "nonce")
  /\ UNCHANGED <<BeforeFiles, nonce, tries, typed>>

ReceiveNonceR ==
  /\ pc["R"] = "init" /\ Next1("R", "nonce")
  /\ nonce' = [nonce EXCEPT !["R"] = <<wire["R"][1].v, "R">>]
  /\ Do("R", 1, <<RTCNonceMessage("R")>>, {}, "token")
  /\ UNCHANGED <<BeforeFiles, tries, typed>>

ReceiveNonceS ==
  /\ pc["S"] = "nonce" /\ Next1("S", "nonce")
  /\ nonce' = [nonce EXCEPT !["S"] = <<"S", wire["S"][1].v>>]
  /\ Do("S", 1, <<RTCTokenRequest(nonce'["S"])>>, {}, "token")
  /\ UNCHANGED <<BeforeFiles, tries, typed>>

(* crypto::token::verify_token_nonce, in the order of its checks.          *)
VerifyTokenNonce_AnyKey(key, token, n) == token.salt = n    \* mutant
VerifyTokenNonce(key, token, n) ==
  /\ token.hash_method = "sha256"
  /\ token.sign_method = SignatureMethod(key)
  /\ token.salt = n
  /\ token.hash = <<key, token.salt>>
  /\ token.signature = [by |-> key, of |-> token.hash]
VerifyToken(s, token) ==
  expecting[s] = NoKey \/ VerifyTokenNonce(expecting[s], token, nonce[s])

ReceiveToken ==
  /\ pc["R"] = "token" /\ Next1("R", "token")
  /\ IF ~VerifyToken("R", wire["R"][1].v)
     THEN Do("R", 1, <<RTCTokenResponse("InvalidSignature", <<>>)>>, {},
             "failed")
     ELSE IF pin["R"] = NoPin
     THEN Do("R", 1, <<RTCTokenResponse("Ok", nonce["R"])>>, {}, "list")
     ELSE Do("R", 1, <<RTCTokenResponse("PinRequired", nonce["R"])>>,
             {"PinRequired"}, "verify")
  /\ UNCHANGED <<BeforeFiles, nonce, tries, typed>>

(* What the sending task does once the receiver's PIN is settled: its own  *)
(* challenge, announced to the receiver, or the file list.                 *)
SendList(n) ==
  Do("S", n, RTCPinSendingResponse([st |-> "Ok", files |-> Offered]),
     {"Connected"}, "list")
ChallengeOrList(n) ==
  IF pin["S"] = NoPin
  THEN SendList(n)
  ELSE Do("S", n, RTCPinSendingResponse([st |-> "PinRequired"]),
          {"PinRequired"}, "verify")

ReceiveTokenResponse ==
  /\ pc["S"] = "token" /\ Next1("S", "tokenres")
  /\ LET res == wire["S"][1] IN
     IF res.st = "InvalidSignature" \/ ~VerifyToken("S", res.v)
     THEN Do("S", 1, <<>>, {}, "failed")
     ELSE IF res.st = "PinRequired"
     THEN Do("S", 1, <<>>, {"PinRequired"}, "askpin")
     ELSE ChallengeOrList(1)
  /\ UNCHANGED <<BeforeFiles, nonce, tries, typed>>

-----------------------------------------------------------------------------
(* PIN challenges.                                                         *)

(* The user answers the PIN question of handle_pin.                        *)
SendPin(s, p) ==
  /\ pc[s] = "askpin"
  /\ typed' = [typed EXCEPT ![s] = @ \cup {p}]
  /\ Do(s, 0, <<RTCPinMessage(p)>>, {}, "pinwait")
  /\ UNCHANGED <<BeforeFiles, nonce, tries>>

(* The app goes away while the user is asked for the PIN.                  *)
PinNotProvided(s) ==
  /\ pc[s] = "askpin"
  /\ Do(s, 0, <<>>, {}, "failed")
  /\ UNCHANGED <<BeforeFiles, nonce, tries, typed>>

(* One round of verify_pin: s compares the PIN it receives.                *)
PinMatches_Any(s, p) == TRUE                                \* mutant
PinMatches(s, p) == p = pin[s]
LastTry_Late(s) == tries[s] > MaxTries                      \* mutant
LastTry(s) == tries[s] + 1 >= MaxTries
VerifyPinResult_Text(s, st) == <<RTCPinReceivingResponse(st)>>   \* mutant
VerifyPinResult(s, st) == IF s = "S" THEN RTCPinSendingResponse([st |-> st])
                          ELSE <<RTCPinReceivingResponse(st)>>
VerifyPin(s) ==
  /\ pc[s] = "verify" /\ Next1(s, "pin")
  /\ tries' = [tries EXCEPT ![s] = @ + 1]
  /\ IF PinMatches(s, wire[s][1].v)
     THEN IF s = "S" THEN SendList(1)
          ELSE Do("R", 1, <<RTCPinReceivingResponse("Ok")>>, {}, "list")
     ELSE IF LastTry(s)
     THEN Do(s, 1, VerifyPinResult(s, "TooManyAttempts"),
             {"TooManyAttempts"}, "failed")
     ELSE Do(s, 1, VerifyPinResult(s, "PinRequired"), {}, "verify")
  /\ UNCHANGED <<BeforeFiles, nonce, typed>>

(* handle_pin of the sender: the verdict of the receiver.                  *)
PinResponseS ==
  /\ pc["S"] = "pinwait" /\ Next1("S", "pinres")
  /\ LET res == wire["S"][1].v IN
     IF res = "Ok" THEN ChallengeOrList(1)
     ELSE IF res = "PinRequired"
     THEN Do("S", 1, <<>>, {"PinRequired"}, "askpin")
     ELSE Do("S", 1, <<>>, {"TooManyAttempts"}, "failed")
  /\ UNCHANGED <<BeforeFiles, nonce, tries, typed>>

(* The receiver hears about the sender's PIN: first notice, or the verdict *)
(* on a PIN it sent.  Ok carries the file list.                            *)
PinResponseR ==
  /\ pc["R"] \in {"list", "pinwait"} /\ NextBody("R")
  /\ LET res == wire["R"][1].v.st IN
     IF res = "PinRequired"
     THEN Do("R", 2, <<>>, {"PinRequired"}, "askpin")
     ELSE IF res = "TooManyAttempts"
     THEN Do("R", 2, <<>>, IF pc["R"] = "list" THEN {"Error"}
                           ELSE {"TooManyAttempts"}, "failed")
     ELSE Do("R", 2, <<>>, {"Connected"}, "selecting")
  /\ UNCHANGED <<BeforeFiles, nonce, tries, typed>>

-----------------------------------------------------------------------------
(* Selection.                                                              *)

SendSelection(sel) ==
  /\ pc["R"] = "selecting"
  /\ selected' = Accepted(sel)
  /\ Do("R", 0, RTCFileListResponse(Accepted(sel)), {}, "receiving")
  /\ UNCHANGED <<conf, main, link, nonce, tries, typed, errs, file_map, files,
                 saved>>

Decline ==
  /\ pc["R"] = "selecting"
  /\ selected' = Declined
  /\ Do("R", 0, RTCFileListResponse(Declined), {}, "done")
  /\ UNCHANGED <<conf, main, link, nonce, tries, typed, errs, file_map, files,
                 saved>>

(* The app drops the selection: the task returns Ok and says nothing.      *)
DropSelection ==
  /\ pc["R"] = "selecting"
  /\ Do("R", 0, <<>>, {}, "done")
  /\ UNCHANGED <<BeforeFiles, nonce, tries, typed>>

ReceiveSelection ==
  /\ pc["S"] = "list" /\ NextBody("S")
  /\ IF wire["S"][1].v = Declined
     THEN /\ Do("S", 2, <<>>, {"Declined"}, "done")
          /\ UNCHANGED file_map
     ELSE /\ Do("S", 2, <<>>, {}, "sending")
          /\ file_map' = wire["S"][1].v.files
  /\ UNCHANGED <<conf, main, link, nonce, tries, typed, errs, selected, files,
                 saved>>

(* The app no longer listens for the selection.                            *)
SelectionNotPublished ==
  /\ pc["S"] = "list" /\ NextBody("S") /\ wire["S"][1].v # Declined
  /\ Do("S", 2, <<>>, {"Error"}, "failed")
  /\ UNCHANGED <<BeforeFiles, nonce, tries, typed>>

-----------------------------------------------------------------------------
(* The sending loop.                                                       *)

Sending == <<conf, main, link, nonce, tries, typed, selected, file_map, saved>>

SendFile(f) ==
  /\ pc["S"] = "sending" /\ cur = NoId
  /\ sent[f] = NotSent /\ f \notin errs["S"]
  /\ IF f \in file_map
     THEN /\ Do("S", 0, <<RTCSendFileHeaderRequest(f)>>, {}, "sending")
          /\ cur' = f /\ sent' = [sent EXCEPT ![f] = 0]
          /\ UNCHANGED errs
     ELSE /\ errs' = [errs EXCEPT !["S"] = @ \cup {f}]
          /\ UNCHANGED <<pc, wire, status, files>>
  /\ UNCHANGED Sending

SendChunk ==
  /\ pc["S"] = "sending" /\ cur # NoId /\ sent[cur] < MaxChunks
  /\ sent' = [sent EXCEPT ![cur] = @ + 1]
  /\ Do("S", 0, <<[t |-> "bin", v |-> <<cur, sent'[cur]>>]>>, {}, "sending")
  /\ UNCHANGED <<Sending, errs, cur>>

(* The header or a chunk could not be sent: on to the next file.           *)
SendFileFails(f) ==
  /\ pc["S"] = "sending" /\ link = "down"
  /\ f = cur \/ (cur = NoId /\ f \in file_map /\ sent[f] = NotSent)
  /\ f \notin errs["S"]
  /\ cur' = NoId
  /\ errs' = [errs EXCEPT !["S"] = @ \cup {f}]
  /\ UNCHANGED <<Sending, pc, wire, status, sent>>

EndFile ==
  /\ pc["S"] = "sending" /\ cur # NoId
  /\ cur' = NoId
  /\ UNCHANGED <<Sending, pc, wire, status, errs, sent>>

(* The app drops send_tx: delimiter, then one message is awaited.          *)
AfterDelimiter_Done == "done"                               \* mutant
AfterDelimiter == "confirm"
EndSending ==
  /\ pc["S"] = "sending" /\ cur = NoId
  /\ Do("S", 0, <<Delimiter>>, {}, AfterDelimiter)
  /\ UNCHANGED <<Sending, errs, files>>

Confirm ==
  /\ pc["S"] = "confirm" /\ wire["S"] # <<>>
  /\ Do("S", 1, <<>>, {}, "done")
  /\ UNCHANGED <<Sending, errs, files>>

-----------------------------------------------------------------------------
(* The receiving loop.                                                     *)

Receiving == <<conf, main, link, nonce, tries, typed, selected, file_map,
               files>>

(* A string ends the current file; its result is awaited from the app.     *)
EndOfFile ==
  /\ pc["R"] = "receiving" /\ file_state # NoId
  /\ Next1("R", "header") \/ Next1("R", "delim")
  /\ file_state' = NoId /\ last' = file_state
  /\ ended' = ended \cup {file_state}
  /\ msg' = wire["R"][1]
  /\ Do("R", 1, <<>>, {}, "result")
  /\ UNCHANGED <<Receiving, errs, got>>

(* A header opens a file that was selected and offered.                    *)
OpenFile_Unchecked(f) == file_state' = f /\ UNCHANGED errs  \* mutant
OpenFile_Silent(f) ==                                       \* mutant
  /\ file_state' = IF f \in selected.files /\ f \in Offered THEN f ELSE NoId
  /\ UNCHANGED errs
OpenFile(f) ==
  IF f \in selected.files /\ f \in Offered
  THEN file_state' = f /\ UNCHANGED errs
  ELSE errs' = [errs EXCEPT !["R"] = @ \cup {f}] /\ UNCHANGED file_state

ReceiveHeader ==
  /\ pc["R"] = "receiving" /\ file_state = NoId /\ Next1("R", "header")
  /\ OpenFile(wire["R"][1].v)
  /\ Do("R", 1, <<>>, {}, "receiving")
  /\ UNCHANGED <<Receiving, last, msg, got, ended>>

(* The app reports the result, which goes to the sender; then the string   *)
(* that ended the file counts: the delimiter ends the task, a header opens *)
(* the next file.                                                          *)
SendFileStatus ==
  /\ pc["R"] = "result"
  /\ last' = NoId
  /\ IF msg = Delimiter
     THEN /\ Do("R", 0, <<RTCSendFileResponse(last)>>, {}, "done")
          /\ UNCHANGED <<file_state, errs>>
     ELSE /\ Do("R", 0, <<RTCSendFileResponse(last)>>, {}, "receiving")
          /\ OpenFile(msg.v)
  /\ UNCHANGED <<Receiving, msg, got, ended>>

(* A delimiter where a header is expected does not parse.                  *)
HeaderUnparsable ==
  /\ pc["R"] = "receiving" /\ file_state = NoId /\ Next1("R", "delim")
  /\ Do("R", 1, <<>>, {}, "failed")
  /\ UNCHANGED <<Receiving, errs, saved>>

ReceiveBinary ==
  /\ pc["R"] = "receiving" /\ Next1("R", "bin")
  /\ IF file_state # NoId
     THEN /\ got' = [got EXCEPT ![file_state] = Append(@, wire["R"][1].v)]
          /\ UNCHANGED errs
     ELSE /\ errs' = [errs EXCEPT !["R"] = @ \cup {"unknown"}]
          /\ UNCHANGED got
  /\ Do("R", 1, <<>>, {}, "receiving")
  /\ UNCHANGED <<Receiving, file_state, last, msg, ended>>

(* The app has dropped the receiver of the current file.                   *)
FileReceiverDropped ==
  /\ pc["R"] = "receiving" /\ file_state # NoId /\ Next1("R", "bin")
  /\ Do("R", 1, <<>>, {}, "failed")
  /\ UNCHANGED <<Receiving, errs, saved>>

-----------------------------------------------------------------------------
Task(s) ==
  \/ VerifyPin(s)
  \/ s = "S" /\ \/ DataChannelOpens \/ ReceiveNonceS \/ ReceiveTokenResponse
                \/ PinResponseS \/ ReceiveSelection \/ Confirm
  \/ s = "R" /\ \/ ReceiveNonceR \/ ReceiveToken \/ PinResponseR \/ EndOfFile
                \/ ReceiveHeader \/ HeaderUnparsable \/ ReceiveBinary
Main(s) ==
  \/ TaskDone(s) \/ TaskFailed(s) \/ Disconnected(s)
  \/ s = "S" /\ (SendOffer \/ GotAnswer)
  \/ s = "R" /\ SendAnswer
(* What the apps do that carries the transfer through.                     *)
SenderApp ==
  \/ \E p \in Pin : SendPin("S", p)
  \/ EndFile \/ EndSending
ReceiverApp ==
  \/ \E p \in Pin : SendPin("R", p)
  \/ \E sel \in SUBSET Id : SendSelection(sel)
  \/ Decline \/ SendFileStatus
App(s) == (s = "S" /\ SenderApp) \/ (s = "R" /\ ReceiverApp)
(* What an app may do besides.                                             *)
AppMay ==
  \/ \E f \in Id : SendFile(f) \/ SendFileFails(f)
  \/ SendChunk
  \/ \E s \in Side : PinNotProvided(s)
  \/ DropSelection \/ SelectionNotPublished \/ FileReceiverDropped

Next ==
  \/ \E s \in Side : Task(s) \/ Main(s) \/ App(s) \/ SendFails(s)
  \/ AppMay
  \/ NetworkLost

Spec == Init /\ [][Next]_vars

(* The runtime polls every task and the ICE agent notices a lost peer; the *)
(* users answer, the sending app ends its files and then closes the        *)
(* channel, the receiving app reports each file.                           *)
Fairness == \A s \in Side : WF_vars(Task(s)) /\ WF_vars(Main(s))
                            /\ WF_vars(App(s))
FairSpec == Spec /\ Fairness

-----------------------------------------------------------------------------
(* Properties.                                                             *)

Waiting == {"init", "nonce", "token", "verify", "askpin", "pinwait", "list",
            "selecting", "sending", "confirm", "receiving", "result"}
(* The tasks have sent or shown the file list.                             *)
Listed(s) == "Connected" \in status[s]

(* Type correctness of the state of both calls.                            *)
PTypeOK ==
  /\ pin \in [Side -> Pin \cup {NoPin}]
  /\ expecting \in [Side -> {NoKey, "S", "R", "X"}]
  /\ main \in [Side -> {"start", "offered", "running", "finished", "failed"}]
  /\ pc \in [Side -> Waiting \cup {"done", "failed"}]
  /\ link \in {"new", "open", "down"}
  /\ tries \in [Side -> 0..MaxTries]
  /\ typed \in [Side -> SUBSET Pin]
  /\ errs \in [Side -> SUBSET (Id \cup {"unknown"})]
  /\ file_map \in SUBSET Id
  /\ cur \in Id \cup {NoId} /\ sent \in [Id -> 0..NotSent]
  /\ file_state \in Id \cup {NoId} /\ last \in Id \cup {NoId}
  /\ ended \in SUBSET Id

(* No file list leaves the sender, and none is shown by the receiver,      *)
(* before the other user has typed the PIN that guards it (verify_pin and  *)
(* handle_pin on both sides), however the two challenges interleave.       *)
PinGate ==
  \A s \in Side : Listed(s) =>
    \A o \in Side : pin[o] = NoPin \/ pin[o] \in typed[Other(o)]

(* Both sides hold the same nonce once both have listed, and a side that   *)
(* expects a public key lists only with the owner of that key (tokens are  *)
(* verified against the nonce each side put together itself).              *)
Authenticated ==
  /\ \A s \in Side : Listed(s) => expecting[s] \in {NoKey, Other(s)}
  /\ Listed("R") => nonce["S"] = nonce["R"]

(* Whenever a task looks at the next message it is of a type the code      *)
(* parses there, except for a delimiter after no file or after a rejected  *)
(* one: the two sequential programs never lose step.                       *)
InStep ==
  /\ wire["S"] # <<>> =>
       LET t == wire["S"][1].t IN
       /\ pc["S"] = "nonce" => t = "nonce"
       /\ pc["S"] = "token" => t = "tokenres"
       /\ pc["S"] \in {"askpin", "pinwait"} => t = "pinres"
       /\ pc["S"] = "verify" => t = "pin"
       /\ pc["S"] = "list" => t = "bin"
       /\ pc["S"] \in {"sending", "confirm"} => t = "fileres"
  /\ wire["R"] # <<>> =>
       LET t == wire["R"][1].t IN
       /\ pc["R"] = "init" => t = "nonce"
       /\ pc["R"] = "token" => t = "token"
       /\ pc["R"] = "verify" => t = "pin"
       /\ pc["R"] \in {"list", "askpin", "pinwait"} => t = "bin"
       /\ pc["R"] = "receiving" /\ file_state = NoId /\ t = "delim"
            => errs["R"] # {} \/ \A f \in Id : sent[f] = NotSent

(* The bytes the receiving app gets under a file's name are that file's,   *)
(* in order and without a gap, and all of them once the file has ended,    *)
(* also when a rejected file's header and bytes come between.              *)
Chunk(f) == [i \in 1..sent[f] |-> <<f, i>>]
NoMixing ==
  \A f \in Id :
    /\ got[f] # <<>> => got[f] = SubSeq(Chunk(f), 1, Len(got[f]))
    /\ f \in ended => f \in selected.files \cap Offered /\ got[f] = Chunk(f)

(* A receiving task that ends on the delimiter has accounted for every     *)
(* file the sender began: it was received to its end or reported on        *)
(* error_tx.                                                               *)
DoneMeansAccounted ==
  pc["R"] = "done" /\ selected.st = "Ok" =>
    \A f \in Id : sent[f] # NotSent => f \in ended \cup errs["R"]

(* The sender says Declined only when the receiving user declined, and     *)
(* with a single file its task ends only after that file was received to   *)
(* its end (the one response it waits for).                                *)
SenderLearns ==
  /\ "Declined" \in status["S"] => selected = Declined
  /\ \A f \in Id :
       /\ pc["S"] = "done" /\ selected.st = "Ok"
       /\ {g \in Id : sent[g] # NotSent} = {f}
       => f \in ended

(* Both calls return, or one of them has returned an error (a lost         *)
(* connection included).                                                   *)
Settles ==
  \A s \in Side :
    main[s] = "running" ~> main[s] # "running" \/ main[Other(s)] = "failed"

(* An error is final for both: "Error occurred. Connection is closed." and *)
(* "the sending peer may close the connection due to InvalidSignature".    *)
ErrorClosesBoth ==
  \A s \in Side : main[s] = "failed" ~> main[Other(s)] # "running"

(* When the sending task ends after sending files, the last file was       *)
(* received to its end: the receiver takes care that its last status is    *)
(* sent.                                                                   *)
LastStatusAwaited ==
  pc["S"] = "done" /\ selected.st = "Ok" =>
    \A f \in Offered : sent[f] # NotSent => f \in ended
=============================================================================

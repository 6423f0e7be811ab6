-------------------------- MODULE SignalingClient --------------------------
(***************************************************************************)
(* The client end of a signaling connection (core/src/webrtc/signaling.rs: *)
(* connect, start_listener, the callbacks for answers), the bridge that    *)
(* hands its messages to the app (connect of app/rust/src/api/webrtc.rs)   *)
(* and the calls of send_offer that use it (core/src/webrtc/peer.rs).      *)
(*                                                                         *)
(* A message of the server travels: socket, reader task, channel of one,   *)
(* listener task, channel of AppCap, app.  Join, Update, Left, Offer and   *)
(* Error are told apart by nobody on the way and are one kind, "note".     *)
(***************************************************************************)
EXTENDS Naturals, Sequences, FiniteSets

CONSTANTS
  Session,   \* session ids of the offers this client sends
  AppCap,    \* capacity of the channel to the app (16 in the code)
  MaxNotes   \* bound: notes the server sends

ASSUME ClientAssumption == AppCap \in Nat \ {0} /\ MaxNotes \in Nat

VARIABLES
  ws,          \* the socket: "open", "closed"
  inbox,       \* messages of the server in the socket
  reader,      \* message the reader task holds, as a sequence
  client_ch,   \* Hello is in the channel connect waits on
  receive_ch,  \* channel of capacity one between reader and listener
  phase,       \* connect: "connecting", "ready", "draining", "ended", "panicked"
  listener,    \* message the listener task holds, as a sequence
  app_ch,      \* channel to the app
  seen,        \* messages the app got
  send_ch,     \* channel of capacity one to the sender task
  sender,      \* the sender task: "on", "done"
  outbox,      \* sessions whose offer left by the socket
  offer,       \* send_offer of each session: "none", "queued", "waiting",
               \* "answered", "failed"
  on_answer,   \* sessions with a callback
  given        \* history: all messages of the server, in order

vars == <<ws, inbox, reader, client_ch, receive_ch, phase, listener, app_ch,
          seen, send_ch, sender, outbox, offer, on_answer, given>>
inVars == <<reader, client_ch, receive_ch, listener, app_ch, seen>>
outVars == <<send_ch, sender, outbox>>

Hello == [t |-> "hello"]
Note == [t |-> "note"]
Answer(s) == [t |-> "answer", session |-> s]
Message == {Hello, Note} \cup {Answer(s) : s \in Session}
Other == "other"   \* an Update or an Answer of this client
Elems(q) == {q[i] : i \in 1..Len(q)}
Count(q, m) == Cardinality({i \in 1..Len(q) : q[i] = m})

Init ==
  /\ ws = "open" /\ phase = "connecting"
  /\ inbox = <<>> /\ reader = <<>> /\ client_ch = FALSE /\ receive_ch = <<>>
  /\ listener = <<>> /\ app_ch = <<>> /\ seen = <<>>
  /\ send_ch = <<>> /\ sender = "on" /\ outbox = {}
  /\ offer = [s \in Session |-> "none"] /\ on_answer = {}
  /\ given = <<>>

-----------------------------------------------------------------------------
(* The server and the remote peers.                                        *)

Gives(m) ==
  /\ ws = "open"
  /\ inbox' = Append(inbox, m) /\ given' = Append(given, m)
  /\ UNCHANGED <<ws, inVars, phase, outVars, offer, on_answer>>

ServerHello == Hello \notin Elems(given) /\ Gives(Hello)
ServerNote == Count(given, Note) < MaxNotes /\ Gives(Note)
ServerAnswer(s) ==
  s \in outbox /\ Answer(s) \notin Elems(given) /\ Gives(Answer(s))

SocketCloses ==
  /\ ws = "open" /\ ws' = "closed"
  /\ UNCHANGED <<inbox, inVars, phase, outVars, offer, on_answer, given>>

-----------------------------------------------------------------------------
(* The reader task and connect.                                            *)

Read ==
  /\ reader = <<>> /\ inbox # <<>>
  /\ reader' = <<Head(inbox)>> /\ inbox' = Tail(inbox)
  /\ client_ch' = (client_ch \/ Head(inbox) = Hello)
  /\ UNCHANGED <<ws, receive_ch, phase, listener, app_ch, seen, outVars,
                 offer, on_answer, given>>

Forward ==
  /\ reader # <<>> /\ receive_ch = <<>>
  /\ receive_ch' = reader /\ reader' = <<>>
  /\ UNCHANGED <<ws, inbox, client_ch, phase, listener, app_ch, seen, outVars,
                 offer, on_answer, given>>

ReaderDone == ws = "closed" /\ inbox = <<>> /\ reader = <<>>

Step(from, to) ==
  /\ phase = from /\ phase' = to
  /\ UNCHANGED <<ws, inbox, inVars, outVars, offer, on_answer, given>>

(* client_rx.recv().await.unwrap(), then start_listener.                   *)
HelloSignalled_Late == Hello \in Elems(receive_ch)          \* mutant
HelloSignalled == client_ch
Connected == HelloSignalled /\ Step("connecting", "ready")
ConnectPanics == ReaderDone /\ ~client_ch /\ Step("connecting", "panicked")
(* on_connection has returned.                                             *)
OnConnection == Step("ready", "draining")

-----------------------------------------------------------------------------
(* The listener task and the app.                                          *)

Listening == phase \in {"ready", "draining"}

(* The callbacks an answer calls, which are removed.                       *)
Called_Any == IF receive_ch[1].t = "answer" THEN on_answer ELSE {}  \* mutant
Called_Lone ==                                              \* mutant
  {s \in on_answer : receive_ch[1] = Answer(s) /\ on_answer = {s}}
Called == {s \in on_answer : receive_ch[1] = Answer(s)}

(* Every message goes on to the app.                                       *)
PassedOn_Unclaimed == IF Called = {} THEN receive_ch ELSE <<>>   \* mutant
PassedOn == receive_ch

Listen ==
  /\ Listening /\ listener = <<>> /\ receive_ch # <<>>
  /\ listener' = PassedOn /\ receive_ch' = <<>>
  /\ on_answer' = on_answer \ Called
  /\ offer' = [s \in Session |-> IF s \in Called THEN "answered" ELSE offer[s]]
  /\ UNCHANGED <<ws, inbox, reader, client_ch, phase, app_ch, seen, outVars,
                 given>>

AppRoom_OffByOne == Len(app_ch) <= AppCap                   \* mutant
AppRoom == Len(app_ch) < AppCap
ToApp ==
  /\ Listening /\ listener # <<>> /\ AppRoom
  /\ app_ch' = app_ch \o listener /\ listener' = <<>>
  /\ UNCHANGED <<ws, inbox, reader, client_ch, receive_ch, phase, seen,
                 outVars, offer, on_answer, given>>

SinkAdd ==
  /\ phase = "draining" /\ app_ch # <<>>
  /\ seen' = Append(seen, Head(app_ch)) /\ app_ch' = Tail(app_ch)
  /\ UNCHANGED <<ws, inbox, reader, client_ch, receive_ch, phase, listener,
                 outVars, offer, on_answer, given>>

(* Reader, then listener, then the channel to the app have ended.          *)
StreamEnds ==
  /\ ReaderDone /\ receive_ch = <<>> /\ listener = <<>> /\ app_ch = <<>>
  /\ Step("draining", "ended")

-----------------------------------------------------------------------------
(* Sending.                                                                *)

Out == <<ws, inbox, inVars, phase, given>>

(* signaling.send_offer: waits for room in the channel to the sender task. *)
SendOffer(s) ==
  /\ Listening /\ offer[s] = "none" /\ sender = "on" /\ send_ch = <<>>
  /\ send_ch' = <<s>> /\ offer' = [offer EXCEPT ![s] = "queued"]
  /\ UNCHANGED <<Out, sender, outbox, on_answer>>

SendOfferFails(s) ==
  /\ Listening /\ offer[s] = "none" /\ sender = "done"
  /\ offer' = [offer EXCEPT ![s] = "failed"]
  /\ UNCHANGED <<Out, outVars, on_answer>>

(* send_update, or send_answer of accept_offer.                            *)
SendOther ==
  /\ Listening /\ sender = "on" /\ send_ch = <<>>
  /\ send_ch' = <<Other>>
  /\ UNCHANGED <<Out, sender, outbox, offer, on_answer>>

(* Only then is the callback registered.                                   *)
OnAnswer(s) ==
  /\ offer[s] = "queued"
  /\ offer' = [offer EXCEPT ![s] = "waiting"]
  /\ on_answer' = on_answer \cup {s}
  /\ UNCHANGED <<Out, outVars>>

(* The sender task writes a message; a failed write, also of the ping that *)
(* follows 120 silent seconds, ends it.                                    *)
WriteMessage ==
  /\ sender = "on" /\ send_ch # <<>>
  /\ send_ch' = <<>>
  /\ IF ws = "open" THEN outbox' = outbox \cup (Elems(send_ch) \ {Other})
                         /\ UNCHANGED sender
     ELSE sender' = "done" /\ UNCHANGED outbox
  /\ UNCHANGED <<Out, offer, on_answer>>

PingFails ==
  /\ sender = "on" /\ send_ch = <<>> /\ ws = "closed"
  /\ sender' = "done"
  /\ UNCHANGED <<Out, send_ch, outbox, offer, on_answer>>

-----------------------------------------------------------------------------
Inbound == Read \/ Forward \/ Listen \/ ToApp
Connect == Connected \/ ConnectPanics \/ OnConnection \/ SinkAdd \/ StreamEnds
Outbound == WriteMessage \/ PingFails \/ \E s \in Session : OnAnswer(s)
Environment ==
  \/ ServerHello \/ ServerNote \/ SocketCloses \/ SendOther
  \/ \E s \in Session : ServerAnswer(s) \/ SendOffer(s) \/ SendOfferFails(s)

Next == Inbound \/ Connect \/ Outbound \/ Environment

Spec == Init /\ [][Next]_vars

(* The runtime polls each task, and on_connection of the app returns.      *)
Fairness ==
  /\ WF_vars(Read) /\ WF_vars(Forward) /\ WF_vars(Listen) /\ WF_vars(ToApp)
  /\ WF_vars(Connect) /\ WF_vars(WriteMessage \/ PingFails)
  /\ \A s \in Session : WF_vars(OnAnswer(s))
FairSpec == Spec /\ Fairness

-----------------------------------------------------------------------------
(* Properties.                                                             *)

(* Type correctness; every channel respects its capacity.                  *)
CTypeOK ==
  /\ ws \in {"open", "closed"} /\ client_ch \in BOOLEAN
  /\ phase \in {"connecting", "ready", "draining", "ended", "panicked"}
  /\ \A q \in {inbox, reader, receive_ch, listener, app_ch, seen, given} :
       q \in Seq(Message)
  /\ Len(reader) <= 1 /\ Len(receive_ch) <= 1 /\ Len(listener) <= 1
  /\ Len(app_ch) <= AppCap
  /\ send_ch \in Seq(Session \cup {Other}) /\ Len(send_ch) <= 1
  /\ sender \in {"on", "done"}
  /\ outbox \in SUBSET Session /\ on_answer \in SUBSET Session
  /\ offer \in [Session -> {"none", "queued", "waiting", "answered", "failed"}]

(* Through four hops and two tasks the app gets the messages of the server *)
(* in the order in which they were sent, none lost and none twice.         *)
Fifo ==
  given = seen \o app_ch \o listener \o receive_ch \o reader \o inbox

(* send_offer continues only with an answer the server sent for its own    *)
(* session, and its callback is called once: a session waits exactly while *)
(* its callback is registered.                                             *)
CallbackOfSession ==
  /\ on_answer = {s \in Session : offer[s] = "waiting"}
  /\ \A s \in Session : offer[s] = "answered" =>
       Answer(s) \in Elems(seen \o app_ch \o listener)

(* connect returns and every message reaches the app, provided at most one *)
(* message precedes Hello: the channel of one and the reader's hands are   *)
(* all the room there is while connect waits for Hello.                    *)
Early == {i \in 1..Len(given) : \A j \in 1..i : given[j] # Hello}
EverythingArrives ==
  \A n \in 1..MaxNotes + 1 :
    (Hello \in Elems(given) /\ Cardinality(Early) <= 1 /\ Len(given) >= n)
      ~> Len(seen) >= n

(* An answer still on its way when the callback is registered reaches it.  *)
Upstream == receive_ch \o reader \o inbox
RegisteredAnswered ==
  \A s \in Session :
    offer[s] = "waiting" /\ Answer(s) \in Elems(Upstream)
      ~> offer[s] = "answered"

(* "Adds a callback to be called when an answer having a specific          *)
(* session_id is received."                                                *)
AnswerCalled ==
  \A s \in Session : Answer(s) \in Elems(given) ~> offer[s] = "answered"
=============================================================================

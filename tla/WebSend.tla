------------------------------- MODULE WebSend -------------------------------
(***************************************************************************)
(* "Share via link": browsers ask for the shared files over HTTP, the user *)
(* of the app answers on the web send page.  SendController                *)
(* (app/lib/provider/network/server/controller/send_controller.dart) with  *)
(* checkPin (common.dart) and WebSendPage (app/lib/pages), which restarts  *)
(* the server to share, again when encryption is switched, and to leave.   *)
(*                                                                         *)
(* A handler suspends only while it waits for the user; the answer of the  *)
(* user wakes it in the same turn of the event loop.  The page runs from   *)
(* the bound server to the restored settings in one turn, too.             *)
(***************************************************************************)
EXTENDS Naturals

CONSTANTS
  Ip, NoIp,
  Req, IpOf,      \* prepare-download requests, and the address of each
  Pin, NoPin,
  AutoSetting,    \* settings.shareViaLinkAutoAccept
  MaxInits        \* bound: initialisations of the page

None == "none"
Accepted == "accepted"

ASSUME WebSendAssumption ==
  /\ NoIp \notin Ip /\ NoPin \notin Pin
  /\ None \notin Req /\ Accepted \notin Req
  /\ IpOf \in [Req -> Ip]
  /\ AutoSetting \in BOOLEAN
  /\ MaxInits \in Nat

VARIABLES
  page,         \* _stateEnum, and how far a restart has come
  before,       \* beforeAutoAccept and beforePin of _init
  online,       \* the server is running
  on,           \* its webSendState is not null, and in it:
  pin, autoAccept,
  sessions,     \*   per address: a request to answer, Accepted or None
  pinAttempts,
  answer,       \* what became of each request
  inits,
  wanted,       \* what the user has chosen (history)
  granted,      \* addresses let in and not turned away since (history)
  served,       \* what each address got since: the list, a file (history)
  latest        \* the latest request stored for an address (history)

state == <<online, on, pin, autoAccept, sessions, pinAttempts>>
history == <<wanted, granted, served, latest>>
vars == <<page, before, inits, state, answer, history>>

Settings(a, p) == [autoAccept |-> a, pin |-> p]
NoSessions == [i \in Ip |-> None]

Init ==
  /\ page = "new"
  /\ before = Settings(AutoSetting, NoPin)
  /\ online \in BOOLEAN
  /\ on = FALSE /\ pin = NoPin /\ autoAccept = AutoSetting
  /\ sessions = NoSessions
  /\ pinAttempts = [i \in Ip |-> 0]
  /\ answer = [r \in Req |-> "idle"]
  /\ inits = 0
  /\ wanted = Settings(AutoSetting, NoPin)
  /\ granted = {} /\ served = {}
  /\ latest = [i \in Ip |-> None]

-----------------------------------------------------------------------------
(* prepare-download.                                                       *)

(* The session named by the query is accepted and belongs to the address.  *)
Permitted_AnyIp(sid, i) == on /\ sid # NoIp /\ sessions[sid] = Accepted   \* mutant
Permitted(sid, i) == on /\ sid # NoIp /\ sessions[sid] = Accepted /\ sid = i

Answer(r, code) == answer' = [answer EXCEPT ![r] = code]
Arrives(r) == online /\ answer[r] = "idle"

NotInitialized(r) ==
  /\ Arrives(r) /\ ~on
  /\ Answer(r, "403")
  /\ UNCHANGED <<page, before, inits, state, history>>

AlreadyPermitted(r, sid) ==
  /\ Arrives(r) /\ Permitted(sid, IpOf[r])
  /\ Answer(r, "200")
  /\ served' = served \cup {<<IpOf[r], "list">>}
  /\ UNCHANGED <<page, before, inits, state, wanted, granted, latest>>

PinCorrect(i, p) == pin = NoPin \/ (pinAttempts[i] < 3 /\ p = pin)
(* checkPin answers 401 or 429; a missing PIN is not counted.              *)
PinRefused(r, sid, p) ==
  LET i == IpOf[r] IN
  /\ Arrives(r) /\ on /\ ~Permitted(sid, i) /\ ~PinCorrect(i, p)
  /\ \/ /\ pinAttempts[i] >= 3
        /\ Answer(r, "429") /\ UNCHANGED pinAttempts
     \/ /\ pinAttempts[i] < 3 /\ p # NoPin
        /\ pinAttempts' = [pinAttempts EXCEPT ![i] = @ + 1]
        /\ Answer(r, IF pinAttempts[i] = 2 THEN "429" ELSE "401")
     \/ /\ pinAttempts[i] < 3 /\ p = NoPin
        /\ Answer(r, "401") /\ UNCHANGED pinAttempts
  /\ UNCHANGED <<page, before, inits, online, on, pin, autoAccept, sessions,
                 history>>

(* The request becomes the session of its address, whatever was there, and *)
(* waits for the user unless requests are accepted automatically.          *)
Asks(r, sid, p) ==
  LET i == IpOf[r] IN
  /\ Arrives(r) /\ on /\ ~Permitted(sid, i) /\ PinCorrect(i, p)
  /\ latest' = [latest EXCEPT ![i] = r]
  /\ IF autoAccept
     THEN /\ sessions' = [sessions EXCEPT ![i] = Accepted]
          /\ Answer(r, "200")
          /\ granted' = granted \cup {i} /\ served' = served \cup {<<i, "list">>}
     ELSE /\ sessions' = [sessions EXCEPT ![i] = r]
          /\ Answer(r, "waiting")
          /\ UNCHANGED <<granted, served>>
  /\ UNCHANGED <<page, before, inits, online, on, pin, autoAccept, pinAttempts,
                 wanted>>

(* download: every file of the share, in a session of the address.         *)
Download(i, sid) ==
  /\ online /\ Permitted(sid, i)
  /\ served' = served \cup {<<i, "file">>}
  /\ UNCHANGED <<page, before, inits, state, answer, wanted, granted, latest>>

-----------------------------------------------------------------------------
(* The user answers on the page, which wakes the waiting handler.          *)

AcceptRequest(i) ==
  /\ page = "running" /\ sessions[i] \in Req
  /\ sessions' = [sessions EXCEPT ![i] = Accepted]
  /\ Answer(sessions[i], "200")
  /\ granted' = granted \cup {i} /\ served' = served \cup {<<i, "list">>}
  /\ UNCHANGED <<page, before, inits, online, on, pin, autoAccept, pinAttempts,
                 wanted, latest>>

Removed_All(i) == NoSessions                                \* mutant
Removed(i) == [sessions EXCEPT ![i] = None]
DeclineRequest(i) ==
  /\ page = "running" /\ sessions[i] \in Req
  /\ sessions' = Removed(i)
  /\ Answer(sessions[i], "403")
  /\ granted' = granted \ {i} /\ served' = {x \in served : x[1] # i}
  /\ UNCHANGED <<page, before, inits, online, on, pin, autoAccept, pinAttempts,
                 wanted, latest>>

(* The check box: a PIN is asked for, or the PIN is removed.               *)
SetWebSendPin(p) ==
  /\ page = "running" /\ (pin = NoPin) = (p # NoPin)
  /\ pin' = p
  /\ wanted' = [wanted EXCEPT !.pin = p]
  /\ UNCHANGED <<page, before, inits, online, on, autoAccept, sessions,
                 pinAttempts, answer, granted, served, latest>>

SetWebSendAutoAccept ==
  /\ page = "running"
  /\ autoAccept' = ~autoAccept
  /\ wanted' = [wanted EXCEPT !.autoAccept = ~autoAccept]
  /\ UNCHANGED <<page, before, inits, online, on, pin, sessions, pinAttempts,
                 answer, granted, served, latest>>

-----------------------------------------------------------------------------
(* The page.                                                               *)

(* _init, of a page just opened or of a running one whose encryption is    *)
(* switched, reads the settings of a running share, then sleeps.           *)
Before_Fresh == Settings(AutoSetting, NoPin)                \* mutant
Before == IF on THEN Settings(autoAccept, pin)
          ELSE Settings(AutoSetting, NoPin)
PageInit ==
  /\ page \in {"new", "running", "left"} /\ inits < MaxInits
  /\ inits' = inits + 1
  /\ page' = "initializing"
  /\ before' = Before
  /\ wanted' = IF page = "running" THEN wanted ELSE Settings(AutoSetting, NoPin)
  /\ UNCHANGED <<state, answer, granted, served, latest>>

Leave ==
  /\ page = "running"
  /\ page' = "stopping"
  /\ UNCHANGED <<before, inits, state, answer, history>>

(* stopServer cuts every connection; a waiting handler is never woken.     *)
Stop ==
  /\ \/ page = "initializing" /\ page' = "starting"
     \/ page = "stopping" /\ page' = "reverting"
  /\ online' = FALSE /\ on' = FALSE
  /\ sessions' = NoSessions
  /\ answer' = [r \in Req |-> IF answer[r] = "waiting" THEN "cut" ELSE answer[r]]
  /\ granted' = {} /\ served' = {}
  /\ UNCHANGED <<before, inits, pin, autoAccept, pinAttempts, wanted, latest>>

(* startServer, initializeWebSend and the settings of before.              *)
StartSharing ==
  /\ page = "starting"
  /\ page' = "running"
  /\ online' = TRUE /\ on' = TRUE
  /\ autoAccept' = before.autoAccept /\ pin' = before.pin
  /\ sessions' = NoSessions
  /\ pinAttempts' = [i \in Ip |-> 0]
  /\ UNCHANGED <<before, inits, answer, history>>

StartNormal ==
  /\ page = "reverting"
  /\ page' = "left"
  /\ online' = TRUE
  /\ UNCHANGED <<before, inits, on, pin, autoAccept, sessions, pinAttempts,
                 answer, history>>

(* An error of startServer: shown by _init, and not handled on leaving.    *)
StartFails ==
  /\ \/ page = "starting" /\ page' = "error"
     \/ page = "reverting" /\ page' = "stuck"
  /\ UNCHANGED <<before, inits, state, answer, history>>

-----------------------------------------------------------------------------
Request(r) ==
  \/ NotInitialized(r)
  \/ \E sid \in Ip \cup {NoIp} :
       \/ AlreadyPermitted(r, sid)
       \/ \E p \in Pin \cup {NoPin} : PinRefused(r, sid, p) \/ Asks(r, sid, p)
User ==
  \/ \E i \in Ip : AcceptRequest(i) \/ DeclineRequest(i)
  \/ \E p \in Pin \cup {NoPin} : SetWebSendPin(p)
  \/ SetWebSendAutoAccept \/ PageInit \/ Leave

Next ==
  \/ \E r \in Req : Request(r)
  \/ \E i \in Ip, sid \in Ip \cup {NoIp} : Download(i, sid)
  \/ User
  \/ Stop \/ StartSharing \/ StartNormal \/ StartFails

Spec == Init /\ [][Next]_vars

-----------------------------------------------------------------------------
(* Properties.                                                             *)

WTypeOK ==
  /\ page \in {"new", "initializing", "starting", "running", "stopping",
               "reverting", "left", "error", "stuck"}
  /\ before \in [autoAccept : BOOLEAN, pin : Pin \cup {NoPin}]
  /\ wanted \in [autoAccept : BOOLEAN, pin : Pin \cup {NoPin}]
  /\ online \in BOOLEAN /\ on \in BOOLEAN
  /\ pin \in Pin \cup {NoPin} /\ autoAccept \in BOOLEAN
  /\ sessions \in [Ip -> Req \cup {Accepted, None}]
  /\ pinAttempts \in [Ip -> 0..3]
  /\ answer \in [Req -> {"idle", "waiting", "200", "401", "403", "429", "cut"}]
  /\ inits \in 0..MaxInits
  /\ granted \subseteq Ip /\ served \subseteq Ip \X {"list", "file"}
  /\ latest \in [Ip -> Req \cup {None}]

(* The list and the files go only to addresses that the user, or automatic *)
(* acceptance, has let into this share and the user has not turned away    *)
(* since, whatever session a browser names and whichever of several        *)
(* requests of an address was answered.                                    *)
OnlyGrantedServed == \A x \in served : x[1] \in granted

(* What the page offers to answer is the latest request of its address and *)
(* a handler still waits for it; the latest request of an address, while   *)
(* it waits, is offered: answering others never strands it.  (An earlier   *)
(* request of the address is stranded: its handler is replaced.)           *)
LatestAnswerable ==
  \A i \in Ip : \A r \in Req :
    sessions[i] = r <=> latest[i] = r /\ answer[r] = "waiting"

(* A share the page shows has the PIN and the automatic acceptance that    *)
(* the user chose, also after encryption was switched, which restarts the  *)
(* server and initialises the share without a PIN.                         *)
SettingsKept ==
  page = "running" => on /\ Settings(autoAccept, pin) = wanted
=============================================================================

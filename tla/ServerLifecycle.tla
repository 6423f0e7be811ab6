--------------------------- MODULE ServerLifecycle ---------------------------
(***************************************************************************)
(* startServer, stopServer and restartServer of                            *)
(* app/lib/provider/network/server/server_provider.dart, called by the     *)
(* start of the app, the button of the settings and the web send page.     *)
(* Calls overlap: each of them awaits the binding or closing of a socket.  *)
(* What runs between two awaits is one step (one isolate, one event loop). *)
(*                                                                         *)
(* A call binds at most one HttpServer, which is named after the call.     *)
(***************************************************************************)
EXTENDS Naturals, FiniteSets

CONSTANTS
  Call,          \* calls of the three functions
  SettingsPort,  \* the port of the settings, 0 included
  FreePorts,     \* ports the system picks from when asked for port 0
  NoState        \* the ServerState is null

ASSUME LifecycleAssumption ==
  /\ SettingsPort \in Nat /\ FreePorts \subseteq Nat \ {0}
  /\ NoState \notin [server : Call, port : Nat, https : BOOLEAN]

VARIABLES
  state,     \* ServerState?: its httpServer, port and https
  sockets,   \* listening sockets: [server, port, https]
  call,      \* where each call is, and the protocol it asks for
  overlapped \* two calls have been under way at the same time (history)

vars == <<state, sockets, call, overlapped>>

Running == {"closing", "restarting", "port", "any", "http"}
Binding == {"port", "any", "http"}
UnderWay == {c \in Call : call[c].at \in Running}
(* The sockets of the HttpServer that call c has bound.                    *)
SocketsOf(c) == {k \in sockets : k.server = c}

Init ==
  /\ state = NoState
  /\ sockets = {}
  /\ call = [c \in Call |-> [at |-> "idle", https |-> FALSE]]
  /\ overlapped = FALSE

Goes(c, at) == call' = [call EXCEPT ![c].at = at]
Begins(c, at, https) ==
  /\ call[c].at = "idle"
  /\ call' = [call EXCEPT ![c] = [at |-> at, https |-> https]]
  /\ overlapped' = (overlapped \/ UnderWay # {})

-----------------------------------------------------------------------------
MayStart == state = NoState

StartServer(c, https) ==
  /\ Begins(c, IF MayStart THEN "port" ELSE "done", https)
  /\ UNCHANGED <<state, sockets>>

(* A closed server stops listening at once; close() completes later.       *)
Close == sockets' = IF state = NoState THEN sockets
                    ELSE sockets \ SocketsOf(state.server)

StopServer(c) ==
  /\ Begins(c, IF state = NoState THEN "done" ELSE "closing", FALSE)
  /\ Close
  /\ UNCHANGED state
RestartServer(c, https) ==
  /\ Begins(c, IF state = NoState THEN "port" ELSE "restarting", https)
  /\ Close
  /\ UNCHANGED state

AfterStop_Kept == state                                     \* mutant
AfterStop == NoState
Closed(c) ==
  /\ call[c].at \in {"closing", "restarting"}
  /\ state' = AfterStop
  /\ Goes(c, IF call[c].at = "closing" THEN "done" ELSE "port")
  /\ UNCHANGED <<sockets, overlapped>>

-----------------------------------------------------------------------------
(* The attempts of startServer: the port of the settings, any port, then   *)
(* HTTP on the port of the settings.  The routes are installed and the     *)
(* state is stored as soon as an attempt succeeds.                         *)

Ports(c) == IF call[c].at = "any" \/ SettingsPort = 0 THEN FreePorts
            ELSE {SettingsPort}
FinalHttps(c) == call[c].https /\ call[c].at # "http"
FinalPort(c, p) == IF call[c].at = "port" THEN SettingsPort ELSE p

Bound(c, p) ==
  /\ call[c].at \in Binding
  /\ p \in Ports(c) /\ \A k \in sockets : k.port # p
  /\ sockets' = sockets \cup {[server |-> c, port |-> p, https |-> FinalHttps(c)]}
  /\ state' = [server |-> c, port |-> FinalPort(c, p), https |-> FinalHttps(c)]
  /\ Goes(c, "done")
  /\ UNCHANGED overlapped

(* SocketException: the port is taken, or binding fails for another reason.*)
BindFails(c) ==
  /\ call[c].at \in Binding
  /\ Goes(c, IF call[c].at = "port" THEN "any"
             ELSE IF call[c].at = "any" /\ call[c].https THEN "http" ELSE "failed")
  /\ UNCHANGED <<state, sockets, overlapped>>

(* TlsException: caught around the first attempt only.                     *)
TlsFails(c) ==
  /\ call[c].at \in {"port", "any"} /\ call[c].https
  /\ Goes(c, IF call[c].at = "port" THEN "http" ELSE "failed")
  /\ UNCHANGED <<state, sockets, overlapped>>

-----------------------------------------------------------------------------
Next ==
  \E c \in Call :
    \/ \E https \in BOOLEAN : StartServer(c, https) \/ RestartServer(c, https)
    \/ StopServer(c) \/ Closed(c)
    \/ \E p \in FreePorts \cup {SettingsPort} : Bound(c, p)
    \/ BindFails(c) \/ TlsFails(c)

Spec == Init /\ [][Next]_vars

-----------------------------------------------------------------------------
(* Properties.                                                             *)

ServerState == [server : Call, port : Nat, https : BOOLEAN]
LTypeOK ==
  /\ state \in ServerState \cup {NoState}
  /\ sockets \subseteq ServerState
  /\ call \in [Call -> [at : Running \cup {"idle", "done", "failed"},
                        https : BOOLEAN]]
  /\ overlapped \in BOOLEAN

(* However the calls interleave and whichever attempts fail, the stored    *)
(* state is that of a listening server, protocol included, except while a  *)
(* stopServer is closing it: the app never shows a server that is gone.    *)
StateServes ==
  state # NoState =>
    \/ \E c \in Call : call[c].at \in {"closing", "restarting"}
    \/ \E k \in SocketsOf(state.server) : k.https = state.https

(* Calls that do not overlap leave exactly the server of the stored state  *)
(* listening, or none, also after a failed start or restart.               *)
AloneIsExact ==
  ~overlapped /\ UnderWay = {} =>
    \A k \in sockets : state # NoState /\ k.server = state.server

(* The stored state tells the truth about what listens: it never names a   *)
(* server that is gone, and nothing listens unseen unless calls overlapped.*)
StateMatches == StateServes /\ AloneIsExact

(* "It is a singleton provider, so only one server can be running at a     *)
(* time" (server_provider.dart).                                           *)
OneServer == \A k, l \in sockets : k.server = l.server

(* "the new state is always valid, so we can repair user's setting"        *)
(* (settings_tab_controller.dart): the stored port is the one bound.       *)
StateIsValid ==
  state # NoState =>
    \A k \in SocketsOf(state.server) : k.port = state.port
=============================================================================

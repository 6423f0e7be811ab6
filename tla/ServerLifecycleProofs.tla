------------------------ MODULE ServerLifecycleProofs ------------------------
(***************************************************************************)
(* Theorems about ServerLifecycle, for any number of overlapping calls and *)
(* any ports.                                                              *)
(***************************************************************************)
EXTENDS ServerLifecycle, TLAPS

USE LifecycleAssumption

(* As long as calls have not overlapped, nothing listens but the stored    *)
(* server, and nothing at all while a call is under way.                   *)
Alone ==
  ~overlapped =>
    /\ \A c, d \in UnderWay : c = d
    /\ UnderWay # {} => sockets = {}
    /\ (\E c \in Call : call[c].at \in Binding) => state = NoState
    /\ \A k \in sockets : state # NoState /\ k.server = state.server

IInv == LTypeOK /\ StateServes /\ Alone

LEMMA InitIInv == Init => IInv
<1> SUFFICES ASSUME Init PROVE IInv OBVIOUS
<1>1. \A c \in Call : call[c] = [at |-> "idle", https |-> FALSE] BY DEF Init
<1>2. LTypeOK
  <2>1. call \in [Call -> [at : Running \cup {"idle", "done", "failed"}, https : BOOLEAN]]
    BY DEF Init
  <2> QED BY <2>1 DEF Init, LTypeOK
<1>3. UnderWay = {} /\ \A c \in Call : call[c].at \notin Binding
  BY <1>1 DEF UnderWay, Running, Binding
<1> QED BY <1>2, <1>3 DEF Init, IInv, StateServes, Alone

(* What the beginning of a call changes.                                   *)
LEMMA BeginsCall ==
  ASSUME LTypeOK, NEW c \in Call, NEW at, NEW https, Begins(c, at, https)
  PROVE  /\ call[c].at = "idle" /\ call'[c].at = at /\ call'[c].https = https
         /\ \A d \in Call \ {c} : call'[d] = call[d]
BY DEF Begins, LTypeOK

LEMMA GoesCall ==
  ASSUME LTypeOK, NEW c \in Call, NEW at, Goes(c, at)
  PROVE  /\ call'[c].at = at /\ call'[c].https = call[c].https
         /\ \A d \in Call \ {c} : call'[d] = call[d]
BY DEF Goes, LTypeOK

LEMMA NextType == LTypeOK /\ [Next]_vars => LTypeOK'
<1> SUFFICES ASSUME LTypeOK, [Next]_vars PROVE LTypeOK' OBVIOUS
<1> DEFINE At == Running \cup {"idle", "done", "failed"}
<1>0. call \in [Call -> [at : At, https : BOOLEAN]] /\ overlapped \in BOOLEAN
      /\ sockets \subseteq ServerState /\ state \in ServerState \cup {NoState}
  BY DEF LTypeOK
<1>1. ASSUME NEW c \in Call, NEW at \in At, NEW https \in BOOLEAN, Begins(c, at, https)
      PROVE  call' \in [Call -> [at : At, https : BOOLEAN]] /\ overlapped' \in BOOLEAN
  <2>1. call' \in [Call -> [at : At, https : BOOLEAN]] BY <1>0, <1>1 DEF Begins
  <2>2. overlapped' \in BOOLEAN BY <1>1, Zenon DEF Begins
  <2> QED BY <2>1, <2>2
<1>2. ASSUME NEW c \in Call, NEW at \in At, Goes(c, at)
      PROVE  call' \in [Call -> [at : At, https : BOOLEAN]]
  BY <1>0, <1>2 DEF Goes
<1>3. {"idle", "done", "failed", "closing", "restarting", "port", "any", "http"} \subseteq At
  BY DEF Running
<1>4. Close => sockets' \subseteq ServerState BY <1>0 DEF Close
<1> HIDE DEF At
<1>5. ASSUME NEW c \in Call, NEW https \in BOOLEAN, StartServer(c, https) PROVE LTypeOK'
  <2>1. PICK at \in At : Begins(c, at, https) BY <1>3, <1>5 DEF StartServer
  <2> QED BY <1>0, <1>1, <1>5, <2>1 DEF StartServer, LTypeOK, At
<1>6. ASSUME NEW c \in Call, NEW https \in BOOLEAN, RestartServer(c, https) PROVE LTypeOK'
  <2>1. PICK at \in At : Begins(c, at, https) BY <1>3, <1>6 DEF RestartServer
  <2> QED BY <1>0, <1>1, <1>4, <1>6, <2>1 DEF RestartServer, LTypeOK, At
<1>7. ASSUME NEW c \in Call, StopServer(c) PROVE LTypeOK'
  <2>1. PICK at \in At : Begins(c, at, FALSE) BY <1>3, <1>7 DEF StopServer
  <2> QED BY <1>0, <1>1, <1>4, <1>7, <2>1 DEF StopServer, LTypeOK, At
<1>8. ASSUME NEW c \in Call, Closed(c) PROVE LTypeOK'
  <2>1. PICK at \in At : Goes(c, at) BY <1>3, <1>8 DEF Closed
  <2> QED BY <1>0, <1>2, <1>8, <2>1 DEF Closed, AfterStop, LTypeOK, At
<1>9. ASSUME NEW c \in Call, NEW p \in FreePorts \cup {SettingsPort}, Bound(c, p) PROVE LTypeOK'
  <2>1. Goes(c, "done") /\ "done" \in At BY <1>3, <1>9 DEF Bound
  <2>2. FinalHttps(c) \in BOOLEAN BY Zenon DEF FinalHttps
  <2>3. p \in Nat /\ FinalPort(c, p) \in Nat BY DEF FinalPort
  <2>4. /\ [server |-> c, port |-> p, https |-> FinalHttps(c)] \in ServerState
        /\ [server |-> c, port |-> FinalPort(c, p), https |-> FinalHttps(c)] \in ServerState
    BY <2>2, <2>3 DEF ServerState
  <2> QED BY <1>0, <1>2, <1>9, <2>1, <2>4 DEF Bound, LTypeOK, At
<1>10. ASSUME NEW c \in Call, BindFails(c) \/ TlsFails(c) PROVE LTypeOK'
  <2>1. PICK at \in At : Goes(c, at) BY <1>3, <1>10 DEF BindFails, TlsFails
  <2> QED BY <1>0, <1>2, <1>10, <2>1 DEF BindFails, TlsFails, LTypeOK, At
<1>11. CASE UNCHANGED vars BY <1>11 DEF vars, LTypeOK
<1> QED BY <1>5, <1>6, <1>7, <1>8, <1>9, <1>10, <1>11 DEF Next

LEMMA NextServes == IInv /\ [Next]_vars => StateServes'
<1> SUFFICES ASSUME IInv, [Next]_vars PROVE StateServes' OBVIOUS
<1>0. LTypeOK /\ StateServes BY DEF IInv
<1>1. ASSUME NEW c \in Call, NEW https \in BOOLEAN, StartServer(c, https) PROVE StateServes'
  <2>1. PICK at : Begins(c, at, https) BY <1>1 DEF StartServer
  <2>2. \A d \in Call : call[d].at \in {"closing", "restarting"} => call'[d] = call[d]
    BY <1>0, <2>1, BeginsCall
  <2> QED BY <1>0, <1>1, <2>2 DEF StartServer, StateServes, SocketsOf
<1>2. ASSUME NEW c \in Call, NEW https \in BOOLEAN, RestartServer(c, https) PROVE StateServes'
  BY <1>0, <1>2, BeginsCall DEF RestartServer, StateServes
<1>3. ASSUME NEW c \in Call, StopServer(c) PROVE StateServes'
  BY <1>0, <1>3, BeginsCall DEF StopServer, StateServes
<1>4. ASSUME NEW c \in Call, Closed(c) PROVE StateServes'
  BY <1>4 DEF Closed, AfterStop, StateServes
<1>5. ASSUME NEW c \in Call, NEW p, Bound(c, p) PROVE StateServes'
  <2> DEFINE k == [server |-> c, port |-> p, https |-> FinalHttps(c)]
  <2>1. k \in sockets' /\ k.server = state'.server /\ k.https = state'.https
    BY <1>5 DEF Bound
  <2> HIDE DEF k
  <2> QED BY <2>1 DEF StateServes, SocketsOf
<1>6. ASSUME NEW c \in Call, BindFails(c) \/ TlsFails(c) PROVE StateServes'
  <2>1. PICK at : Goes(c, at) /\ call[c].at \in Binding /\ UNCHANGED <<state, sockets>>
    BY <1>6 DEF BindFails, TlsFails, Binding
  <2> QED BY <1>0, <2>1, GoesCall DEF StateServes, SocketsOf, Binding
<1>7. CASE UNCHANGED vars BY <1>0, <1>7 DEF vars, StateServes, SocketsOf
<1> QED BY <1>1, <1>2, <1>3, <1>4, <1>5, <1>6, <1>7 DEF Next

LEMMA BoundState ==
  ASSUME NEW c \in Call, NEW p \in FreePorts \cup {SettingsPort}
  PROVE  [server |-> c, port |-> FinalPort(c, p), https |-> FinalHttps(c)] # NoState
<1>1. FinalHttps(c) \in BOOLEAN BY Zenon DEF FinalHttps
<1>2. FinalPort(c, p) \in Nat BY DEF FinalPort
<1> QED BY <1>1, <1>2

LEMMA NextAlone == IInv /\ [Next]_vars => Alone'
<1> SUFFICES ASSUME IInv, [Next]_vars, ~overlapped' PROVE Alone' BY DEF Alone
<1>0. LTypeOK /\ Alone BY DEF IInv
<1>1. ~overlapped /\ (\A c \in Call : \A at, https : Begins(c, at, https) => UnderWay = {})
  BY <1>0 DEF Next, StartServer, RestartServer, StopServer, Closed, Bound, BindFails, TlsFails,
     Begins, vars, LTypeOK
<1>2. /\ \A c, d \in UnderWay : c = d
      /\ UnderWay # {} => sockets = {}
      /\ (\E c \in Call : call[c].at \in Binding) => state = NoState
      /\ \A k \in sockets : state # NoState /\ k.server = state.server
  BY <1>0, <1>1 DEF Alone
<1>3. ASSUME NEW c \in Call, NEW at, NEW https, Begins(c, at, https), UNCHANGED state,
             at \in Running => sockets' = {}, at \in Binding => state = NoState,
             sockets' \subseteq sockets
      PROVE  Alone'
  <2>1. UnderWay = {} BY <1>1, <1>3
  <2>2. UnderWay' \subseteq {c} /\ (UnderWay' # {} => at \in Running)
    BY <1>0, <1>3, <2>1, BeginsCall DEF UnderWay
  <2>3. ASSUME NEW d \in Call, call'[d].at \in Binding PROVE state' = NoState
    BY <1>0, <1>3, <2>1, <2>3, BeginsCall DEF UnderWay, Running, Binding
  <2> QED BY <1>2, <1>3, <2>2, <2>3 DEF Alone
<1>4. ASSUME NEW c \in Call, NEW at, Goes(c, at), c \in UnderWay
      PROVE  /\ UnderWay = {c} /\ sockets = {} /\ UnderWay' \subseteq {c}
             /\ (at \notin Running => UnderWay' = {})
             /\ \A d \in Call : call'[d].at \in Binding => d = c /\ at \in Binding
  <2>1. UnderWay = {c} /\ sockets = {} BY <1>2, <1>4
  <2>2. \A d \in Call \ {c} : call[d].at \notin Running BY <2>1 DEF UnderWay
  <2> QED BY <1>0, <1>4, <2>1, <2>2, GoesCall DEF UnderWay, Running, Binding
<1>5. ASSUME NEW c \in Call, NEW https \in BOOLEAN, StartServer(c, https) PROVE Alone'
  <2>1. CASE state = NoState
    <3>1. Begins(c, "port", https) /\ UNCHANGED <<state, sockets>>
      BY <1>5, <2>1 DEF StartServer, MayStart
    <3>2. sockets' = {} BY <1>2, <2>1, <3>1
    <3> QED BY <1>3, <2>1, <3>1, <3>2
  <2>2. CASE state # NoState
    <3>1. Begins(c, "done", https) /\ UNCHANGED <<state, sockets>>
      BY <1>5, <2>2 DEF StartServer, MayStart
    <3>2. "done" \notin Running /\ "done" \notin Binding BY DEF Running, Binding
    <3> QED BY <1>3, <3>1, <3>2
  <2> QED BY <2>1, <2>2
<1>6. Close => sockets' = {}
  BY <1>2 DEF Close, SocketsOf
<1>7. ASSUME NEW c \in Call, NEW https \in BOOLEAN, RestartServer(c, https) PROVE Alone'
  <2>1. PICK at : Begins(c, at, https) /\ (at \in Binding => state = NoState)
    BY <1>7 DEF RestartServer, Binding
  <2>2. UNCHANGED state /\ sockets' = {} BY <1>6, <1>7 DEF RestartServer
  <2> QED BY <1>3, <2>1, <2>2
<1>8. ASSUME NEW c \in Call, StopServer(c) PROVE Alone'
  <2>0. "done" \notin Binding /\ "closing" \notin Binding BY DEF Binding
  <2>1. PICK at \in {"done", "closing"} : Begins(c, at, FALSE)
    BY <1>8 DEF StopServer
  <2>2. UNCHANGED state /\ sockets' = {} BY <1>6, <1>8 DEF StopServer
  <2> QED BY <1>3, <2>0, <2>1, <2>2
<1>9. ASSUME NEW c \in Call, Closed(c) PROVE Alone'
  <2>1. PICK at : Goes(c, at) /\ c \in UnderWay BY <1>9 DEF Closed, UnderWay, Running
  <2>2. state' = NoState /\ UNCHANGED sockets BY <1>9 DEF Closed, AfterStop
  <2> QED BY <1>4, <2>1, <2>2 DEF Alone
<1>10. ASSUME NEW c \in Call, NEW p \in FreePorts \cup {SettingsPort}, Bound(c, p)
       PROVE  Alone'
  <2>1. Goes(c, "done") /\ c \in UnderWay BY <1>10 DEF Bound, UnderWay, Running, Binding
  <2>2. "done" \notin Running /\ "done" \notin Binding BY DEF Running, Binding
  <2>3. sockets = {} /\ UnderWay' = {} /\ \A d \in Call : call'[d].at \notin Binding
    BY <1>4, <2>1, <2>2
  <2>4. /\ sockets' = {[server |-> c, port |-> p, https |-> FinalHttps(c)]}
        /\ state' = [server |-> c, port |-> FinalPort(c, p), https |-> FinalHttps(c)]
    BY <1>10, <2>3 DEF Bound
  <2>5. state' # NoState
    BY <2>4, BoundState
  <2> QED BY <2>3, <2>4, <2>5 DEF Alone
<1>11. ASSUME NEW c \in Call, BindFails(c) \/ TlsFails(c) PROVE Alone'
  <2>1. PICK at : Goes(c, at) /\ c \in UnderWay /\ call[c].at \in Binding
                  /\ UNCHANGED <<state, sockets>>
    BY <1>11 DEF BindFails, TlsFails, UnderWay, Running, Binding
  <2>2. state = NoState BY <1>2, <2>1
  <2> QED BY <1>4, <2>1, <2>2 DEF Alone
<1>12. CASE UNCHANGED vars BY <1>0, <1>12 DEF vars, Alone, UnderWay
<1> QED BY <1>5, <1>7, <1>8, <1>9, <1>10, <1>11, <1>12 DEF Next

LEMMA NextIInv == IInv /\ [Next]_vars => IInv'
BY NextType, NextServes, NextAlone DEF IInv

-----------------------------------------------------------------------------
(* The stored state is that of a listening server, protocol included,      *)
(* except while a stopServer is closing one (server_provider.dart), for    *)
(* any number of overlapping starts, stops and restarts; and calls that    *)
(* never overlap leave nothing else listening, after failed attempts, too. *)
THEOREM StateIsTrue == Spec => []StateMatches
<1>1. IInv => StateMatches BY DEF IInv, Alone, AloneIsExact, StateMatches
<1> QED BY <1>1, InitIInv, NextIInv, PTL DEF Spec
=============================================================================

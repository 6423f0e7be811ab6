---------------------------- MODULE WebSendProofs ----------------------------
(***************************************************************************)
(* Theorems about WebSend, for any addresses, requests, PINs and number of *)
(* initialisations.                                                        *)
(***************************************************************************)
EXTENDS WebSend, TLAPS

USE WebSendAssumption

(* An accepted session is one of an address that was let in.               *)
Let == \A i \in Ip : sessions[i] = Accepted => i \in granted
(* A request is only ever stored for its own address.                      *)
Own == \A i \in Ip : \A r \in Req : latest[i] = r => IpOf[r] = i
(* The page carries the settings of the user through a restart, and no     *)
(* session lives through it.                                               *)
Carried ==
  /\ page = "starting" => ~online /\ sessions = NoSessions
  /\ page \in {"initializing", "starting"} => before = wanted
  /\ page \in {"new", "starting", "reverting", "left"} => ~on

IInv ==
  /\ WTypeOK
  /\ OnlyGrantedServed /\ Let
  /\ LatestAnswerable /\ Own
  /\ SettingsKept /\ Carried

LEMMA InitIInv == Init => IInv
<1> SUFFICES ASSUME Init PROVE IInv OBVIOUS
<1>1. WTypeOK
  <2>1. Settings(AutoSetting, NoPin) \in [autoAccept : BOOLEAN, pin : Pin \cup {NoPin}]
    BY DEF Settings
  <2>2. latest \in [Ip -> Req \cup {None}] /\ sessions \in [Ip -> Req \cup {Accepted, None}]
    BY DEF Init, NoSessions
  <2>3. /\ pinAttempts \in [Ip -> 0..3] /\ inits \in 0..MaxInits
        /\ answer \in [Req -> {"idle", "waiting", "200", "401", "403", "429", "cut"}]
    BY DEF Init
  <2>4. online \in BOOLEAN /\ on \in BOOLEAN /\ autoAccept \in BOOLEAN
    BY Zenon DEF Init
  <2> QED BY <2>1, <2>2, <2>3, <2>4 DEF Init, WTypeOK
<1>2. OnlyGrantedServed /\ Let
  BY DEF Init, OnlyGrantedServed, Let, NoSessions, None, Accepted
<1>3. LatestAnswerable /\ Own BY DEF Init, LatestAnswerable, Own, NoSessions
<1>4. SettingsKept /\ Carried BY DEF Init, SettingsKept, Carried
<1> QED BY <1>1, <1>2, <1>3, <1>4 DEF IInv

-----------------------------------------------------------------------------
LEMMA RequestKeeps ==
  ASSUME IInv, NEW r \in Req, Request(r)
  PROVE  IInv'
<1>t. IpOf[r] \in Ip OBVIOUS
<1>0. WTypeOK /\ OnlyGrantedServed /\ Let /\ LatestAnswerable /\ Own /\ SettingsKept /\ Carried
  BY DEF IInv
<1>1. CASE NotInitialized(r)
  <2>1. WTypeOK' BY <1>0, <1>1 DEF NotInitialized, Answer, WTypeOK, state, history
  <2>2. OnlyGrantedServed' /\ Let'
    BY <1>0, <1>1 DEF NotInitialized, OnlyGrantedServed, Let, state, history
  <2>3. LatestAnswerable' /\ Own'
    BY <1>0, <1>1 DEF NotInitialized, Arrives, Answer, LatestAnswerable, Own, WTypeOK, state, history
  <2>4. SettingsKept' /\ Carried'
    BY <1>0, <1>1 DEF NotInitialized, Arrives, SettingsKept, Carried, state, history
  <2> QED BY <2>1, <2>2, <2>3, <2>4 DEF IInv
<1>2. ASSUME NEW sid \in Ip \cup {NoIp}, AlreadyPermitted(r, sid) PROVE IInv'
  <2>1. WTypeOK' BY <1>t, <1>0, <1>2 DEF AlreadyPermitted, Answer, WTypeOK, state
  <2>2. OnlyGrantedServed' /\ Let'
    BY <1>t, <1>0, <1>2 DEF AlreadyPermitted, Permitted, OnlyGrantedServed, Let, state
  <2>3. LatestAnswerable' /\ Own'
    BY <1>0, <1>2 DEF AlreadyPermitted, Arrives, Answer, LatestAnswerable, Own, WTypeOK, state
  <2>4. SettingsKept' /\ Carried'
    BY <1>0, <1>2 DEF AlreadyPermitted, Arrives, SettingsKept, Carried, state
  <2> QED BY <2>1, <2>2, <2>3, <2>4 DEF IInv
<1>3. ASSUME NEW sid \in Ip \cup {NoIp}, NEW p \in Pin \cup {NoPin}, PinRefused(r, sid, p)
      PROVE  IInv'
  <2>0. PICK code \in {"401", "429"} : answer' = [answer EXCEPT ![r] = code]
    BY <1>3 DEF PinRefused, Answer
  <2>1. WTypeOK'
    <3>1. pinAttempts' \in [Ip -> 0..3]
      BY <1>t, <1>0, <1>3 DEF PinRefused, WTypeOK
    <3> QED BY <1>0, <1>3, <2>0, <3>1 DEF PinRefused, WTypeOK, history
  <2>2. OnlyGrantedServed' /\ Let'
    BY <1>0, <1>3 DEF PinRefused, OnlyGrantedServed, Let, history
  <2>3. LatestAnswerable' /\ Own'
    BY <1>0, <1>3, <2>0 DEF PinRefused, Arrives, LatestAnswerable, Own, WTypeOK, history
  <2>4. SettingsKept' /\ Carried'
    BY <1>0, <1>3 DEF PinRefused, Arrives, SettingsKept, Carried, history
  <2> QED BY <2>1, <2>2, <2>3, <2>4 DEF IInv
<1>4. ASSUME NEW sid \in Ip \cup {NoIp}, NEW p \in Pin \cup {NoPin}, Asks(r, sid, p)
      PROVE  IInv'
  <2> DEFINE i == IpOf[r]
  <2>0. /\ online /\ answer[r] = "idle" /\ latest' = [latest EXCEPT ![i] = r]
        /\ UNCHANGED <<page, before, inits, online, on, pin, autoAccept, pinAttempts, wanted>>
    BY <1>4 DEF Asks, Arrives
  <2>a. CASE autoAccept
    <3>0. /\ sessions' = [sessions EXCEPT ![i] = Accepted]
          /\ answer' = [answer EXCEPT ![r] = "200"]
          /\ granted' = granted \cup {i} /\ served' = served \cup {<<i, "list">>}
      BY <1>4, <2>a DEF Asks, Answer
    <3>1. WTypeOK' BY <1>t, <1>0, <2>0, <3>0 DEF WTypeOK
    <3>2. OnlyGrantedServed' /\ Let'
      BY <1>t, <1>0, <3>0 DEF OnlyGrantedServed, Let, WTypeOK
    <3>3. LatestAnswerable' /\ Own'
      BY <1>t, <1>0, <2>0, <3>0 DEF LatestAnswerable, Own, WTypeOK
    <3>4. SettingsKept' /\ Carried' BY <1>0, <2>0 DEF SettingsKept, Carried
    <3> QED BY <3>1, <3>2, <3>3, <3>4 DEF IInv
  <2>b. CASE ~autoAccept
    <3>0. /\ sessions' = [sessions EXCEPT ![i] = r]
          /\ answer' = [answer EXCEPT ![r] = "waiting"]
          /\ UNCHANGED <<granted, served>>
      BY <1>4, <2>b DEF Asks, Answer
    <3>1. WTypeOK' BY <1>t, <1>0, <2>0, <3>0 DEF WTypeOK
    <3>2. OnlyGrantedServed' /\ Let'
      BY <1>t, <1>0, <3>0 DEF OnlyGrantedServed, Let, WTypeOK
    <3>3. LatestAnswerable' /\ Own'
      BY <1>t, <1>0, <2>0, <3>0 DEF LatestAnswerable, Own, WTypeOK
    <3>4. SettingsKept' /\ Carried' BY <1>0, <2>0 DEF SettingsKept, Carried
    <3> QED BY <3>1, <3>2, <3>3, <3>4 DEF IInv
  <2> QED BY <2>a, <2>b
<1> QED BY <1>1, <1>2, <1>3, <1>4 DEF Request

LEMMA DownloadKeeps ==
  ASSUME IInv, NEW i \in Ip, NEW sid \in Ip \cup {NoIp}, Download(i, sid)
  PROVE  IInv'
<1>1. WTypeOK' BY DEF IInv, Download, WTypeOK, state
<1>2. OnlyGrantedServed' /\ Let'
  BY DEF IInv, Download, Permitted, OnlyGrantedServed, Let, state
<1>3. LatestAnswerable' /\ Own' BY DEF IInv, Download, LatestAnswerable, Own, state
<1>4. SettingsKept' /\ Carried' BY DEF IInv, Download, SettingsKept, Carried, state
<1> QED BY <1>1, <1>2, <1>3, <1>4 DEF IInv

LEMMA UserKeeps ==
  ASSUME IInv, User
  PROVE  IInv'
<1>0. WTypeOK /\ OnlyGrantedServed /\ Let /\ LatestAnswerable /\ Own /\ SettingsKept /\ Carried
  BY DEF IInv
<1>1. ASSUME NEW i \in Ip, AcceptRequest(i) PROVE IInv'
  <2>1. WTypeOK' BY <1>0, <1>1 DEF AcceptRequest, Answer, WTypeOK
  <2>2. OnlyGrantedServed' /\ Let'
    BY <1>0, <1>1 DEF AcceptRequest, OnlyGrantedServed, Let, WTypeOK
  <2>3. LatestAnswerable' /\ Own'
    BY <1>0, <1>1 DEF AcceptRequest, Answer, LatestAnswerable, Own, WTypeOK
  <2>4. SettingsKept' /\ Carried' BY <1>0, <1>1 DEF AcceptRequest, SettingsKept, Carried
  <2> QED BY <2>1, <2>2, <2>3, <2>4 DEF IInv
<1>2. ASSUME NEW i \in Ip, DeclineRequest(i) PROVE IInv'
  <2>1. WTypeOK' BY <1>0, <1>2 DEF DeclineRequest, Removed, Answer, WTypeOK
  <2>2. OnlyGrantedServed' /\ Let'
    BY <1>0, <1>2 DEF DeclineRequest, Removed, OnlyGrantedServed, Let, WTypeOK, None, Accepted
  <2>3. LatestAnswerable' /\ Own'
    BY <1>0, <1>2 DEF DeclineRequest, Removed, Answer, LatestAnswerable, Own, WTypeOK
  <2>4. SettingsKept' /\ Carried' BY <1>0, <1>2 DEF DeclineRequest, SettingsKept, Carried
  <2> QED BY <2>1, <2>2, <2>3, <2>4 DEF IInv
<1>3. ASSUME NEW p \in Pin \cup {NoPin}, SetWebSendPin(p) PROVE IInv'
  <2>1. WTypeOK' BY <1>0, <1>3 DEF SetWebSendPin, WTypeOK
  <2>2. OnlyGrantedServed' /\ Let' BY <1>0, <1>3 DEF SetWebSendPin, OnlyGrantedServed, Let
  <2>3. LatestAnswerable' /\ Own' BY <1>0, <1>3 DEF SetWebSendPin, LatestAnswerable, Own
  <2>4. SettingsKept' /\ Carried'
    BY <1>0, <1>3 DEF SetWebSendPin, SettingsKept, Carried, Settings
  <2> QED BY <2>1, <2>2, <2>3, <2>4 DEF IInv
<1>4. CASE SetWebSendAutoAccept
  <2>1. WTypeOK' BY <1>0, <1>4 DEF SetWebSendAutoAccept, WTypeOK
  <2>2. OnlyGrantedServed' /\ Let' BY <1>0, <1>4 DEF SetWebSendAutoAccept, OnlyGrantedServed, Let
  <2>3. LatestAnswerable' /\ Own' BY <1>0, <1>4 DEF SetWebSendAutoAccept, LatestAnswerable, Own
  <2>4. SettingsKept' /\ Carried'
    BY <1>0, <1>4 DEF SetWebSendAutoAccept, SettingsKept, Carried, Settings
  <2> QED BY <2>1, <2>2, <2>3, <2>4 DEF IInv
<1>5. CASE PageInit
  <2>1. WTypeOK' BY <1>0, <1>5 DEF PageInit, Before, Settings, WTypeOK, state
  <2>2. OnlyGrantedServed' /\ Let' BY <1>0, <1>5 DEF PageInit, OnlyGrantedServed, Let, state
  <2>3. LatestAnswerable' /\ Own' BY <1>0, <1>5 DEF PageInit, LatestAnswerable, Own, state
  <2>4. SettingsKept' /\ Carried'
    BY <1>0, <1>5 DEF PageInit, Before, SettingsKept, Carried, state
  <2> QED BY <2>1, <2>2, <2>3, <2>4 DEF IInv
<1>6. CASE Leave
  <2>1. WTypeOK' BY <1>0, <1>6 DEF Leave, WTypeOK, state, history
  <2>2. OnlyGrantedServed' /\ Let' BY <1>0, <1>6 DEF Leave, OnlyGrantedServed, Let, state, history
  <2>3. LatestAnswerable' /\ Own' BY <1>0, <1>6 DEF Leave, LatestAnswerable, Own, state, history
  <2>4. SettingsKept' /\ Carried' BY <1>0, <1>6 DEF Leave, SettingsKept, Carried, state, history
  <2> QED BY <2>1, <2>2, <2>3, <2>4 DEF IInv
<1> QED BY <1>1, <1>2, <1>3, <1>4, <1>5, <1>6 DEF User

LEMMA PageKeeps ==
  ASSUME IInv, Stop \/ StartSharing \/ StartNormal \/ StartFails
  PROVE  IInv'
<1>0. WTypeOK /\ OnlyGrantedServed /\ Let /\ LatestAnswerable /\ Own /\ SettingsKept /\ Carried
  BY DEF IInv
<1>1. CASE Stop
  <2>1. WTypeOK' BY <1>0, <1>1 DEF Stop, NoSessions, WTypeOK
  <2>2. OnlyGrantedServed' /\ Let'
    BY <1>0, <1>1 DEF Stop, NoSessions, OnlyGrantedServed, Let, None, Accepted
  <2>3. LatestAnswerable' /\ Own' BY <1>0, <1>1 DEF Stop, NoSessions, LatestAnswerable, Own
  <2>4. SettingsKept' /\ Carried' BY <1>0, <1>1 DEF Stop, SettingsKept, Carried
  <2> QED BY <2>1, <2>2, <2>3, <2>4 DEF IInv
<1>2. CASE StartSharing
  <2>1. WTypeOK' BY <1>0, <1>2 DEF StartSharing, NoSessions, WTypeOK, history
  <2>2. OnlyGrantedServed' /\ Let'
    BY <1>0, <1>2 DEF StartSharing, NoSessions, OnlyGrantedServed, Let, None, Accepted, history
  <2>3. LatestAnswerable' /\ Own'
    BY <1>0, <1>2 DEF StartSharing, Carried, LatestAnswerable, Own, history
  <2>4. SettingsKept' /\ Carried'
    <3>1. Settings(before.autoAccept, before.pin) = before BY <1>0 DEF Settings, WTypeOK
    <3>2. before = wanted BY <1>0, <1>2 DEF StartSharing, Carried
    <3>3. page' = "running" /\ on' /\ Settings(autoAccept', pin') = wanted'
      BY <1>2, <3>1, <3>2 DEF StartSharing, history
    <3> QED BY <3>3 DEF SettingsKept, Carried, Settings
  <2> QED BY <2>1, <2>2, <2>3, <2>4 DEF IInv
<1>3. CASE StartNormal
  <2>1. WTypeOK' BY <1>0, <1>3 DEF StartNormal, WTypeOK, history
  <2>2. OnlyGrantedServed' /\ Let' BY <1>0, <1>3 DEF StartNormal, OnlyGrantedServed, Let, history
  <2>3. LatestAnswerable' /\ Own' BY <1>0, <1>3 DEF StartNormal, LatestAnswerable, Own, history
  <2>4. SettingsKept' /\ Carried' BY <1>0, <1>3 DEF StartNormal, SettingsKept, Carried, history
  <2> QED BY <2>1, <2>2, <2>3, <2>4 DEF IInv
<1>4. CASE StartFails
  <2>1. WTypeOK' BY <1>0, <1>4 DEF StartFails, WTypeOK, state, history
  <2>2. OnlyGrantedServed' /\ Let'
    BY <1>0, <1>4 DEF StartFails, OnlyGrantedServed, Let, state, history
  <2>3. LatestAnswerable' /\ Own'
    BY <1>0, <1>4 DEF StartFails, LatestAnswerable, Own, state, history
  <2>4. SettingsKept' /\ Carried'
    BY <1>0, <1>4 DEF StartFails, SettingsKept, Carried, state, history
  <2> QED BY <2>1, <2>2, <2>3, <2>4 DEF IInv
<1> QED BY <1>1, <1>2, <1>3, <1>4

LEMMA NextIInv == IInv /\ [Next]_vars => IInv'
<1> SUFFICES ASSUME IInv, [Next]_vars PROVE IInv' OBVIOUS
<1>1. CASE Next BY <1>1, RequestKeeps, DownloadKeeps, UserKeeps, PageKeeps DEF Next
<1>2. CASE UNCHANGED vars
  BY <1>2 DEF vars, state, history, IInv, WTypeOK, OnlyGrantedServed, Let, LatestAnswerable,
     Own, SettingsKept, Carried
<1> QED BY <1>1, <1>2

-----------------------------------------------------------------------------
(* Lists and files go only to addresses let in by the user or by automatic *)
(* acceptance and not turned away since (the checks of prepare-download    *)
(* and download in send_controller.dart).                                  *)
THEOREM GrantedBeforeServed == Spec => []OnlyGrantedServed
<1>1. IInv => OnlyGrantedServed BY DEF IInv
<1> QED BY <1>1, InitIInv, NextIInv, PTL DEF Spec

(* The request shown for an address is its latest one and still waits, and *)
(* no answer to another address strands it (_respondRequest and the        *)
(* sessions of send_controller.dart).                                      *)
THEOREM LatestStays == Spec => []LatestAnswerable
<1>1. IInv => LatestAnswerable BY DEF IInv
<1> QED BY <1>1, InitIInv, NextIInv, PTL DEF Spec

(* A running share has the PIN and the automatic acceptance of its user,   *)
(* however often it is restarted (_init of web_send_page.dart).            *)
THEOREM SettingsSurvive == Spec => []SettingsKept
<1>1. IInv => SettingsKept BY DEF IInv
<1> QED BY <1>1, InitIInv, NextIInv, PTL DEF Spec
=============================================================================

------------------------------ MODULE Transfer ------------------------------
(***************************************************************************)
(* A sender and a receiver connected by HTTP: SendSession, which this      *)
(* module extends, on one device, ReceiveServer on the other.  The         *)
(* sender's /prepare-upload request is Me; other requests (of other        *)
(* devices) may arrive as well.  Each upload of a file is a request of its *)
(* own; /cancel calls are posted and their answers are discarded, in both  *)
(* directions.                                                             *)
(*                                                                         *)
(* A connection may break at any point: the sender's call then ends with   *)
(* an error while the receiver's handler goes on with what it has read.    *)
(***************************************************************************)
EXTENDS SendSession

CONSTANTS
  FileId,     \* the files of all devices; File are the sender's
  Req, Upload, Ip, IpOf, FilesOf, QuickReq, MessageReq, LegacyReq, PinSet, NoSession,
  Me,         \* the sender's request
  NoUpload,
  NoReq,      \* a /cancel without a session id
  Lossy       \* may connections break?

ASSUME TransferAssumption ==
  /\ Me \in Req \ LegacyReq
  /\ FilesOf[Me] = File
  /\ NoUpload \notin Upload
  /\ NoReq \notin Req
  /\ Lossy \in BOOLEAN

VARIABLES
  running, session, attempts, prep, presp, up, closing, granted, saved,
  task,       \* the HTTP request that carries each file, once it arrived
  toReceiver, \* /cancel calls on their way to the receiver
  toSender,   \* is a /cancel call on its way to the sender?
  quit,       \* history: the user cancelled, without ("blind") or with a session id
  left        \* history: files whose call broke while the receiver was at work on it

R == INSTANCE ReceiveServer WITH File <- FileId

(* What ReceiveServer assumes of its constants.                            *)
ASSUME ReceiverAssumption ==
  /\ Req # {} /\ FileId # {}
  /\ IpOf \in [Req -> Ip]
  /\ FilesOf \in [Req -> SUBSET FileId]
  /\ \A r, q \in Req : r # q => FilesOf[r] \cap FilesOf[q] = {}
  /\ QuickReq \subseteq Req
  /\ MessageReq \subseteq Req
  /\ LegacyReq \subseteq Req
  /\ QuickReq \cap MessageReq = {}
  /\ PinSet \in BOOLEAN
  /\ NoSession \notin R!Session

rvars == <<running, session, attempts, prep, presp, up, closing, granted, saved>>
nvars == <<task, toReceiver, toSender, quit, left>>
tvars == <<svars, rvars, nvars>>

TTypeOK ==
  /\ STypeOK /\ R!TypeOK
  /\ task \in [File -> Upload \cup {NoUpload}]
  /\ toReceiver \subseteq {Me, NoReq}
  /\ toSender \in BOOLEAN
  /\ quit \in {"no", "blind", "named"}
  /\ left \subseteq File

TInit ==
  /\ SInit /\ R!Init
  /\ task = [f \in File |-> NoUpload]
  /\ toReceiver = {}
  /\ toSender = FALSE
  /\ quit = "no"
  /\ left = {}

-----------------------------------------------------------------------------
(* /prepare-upload                                                         *)
Post == CreateSession /\ UNCHANGED <<rvars, nvars>>

Prepare ==
  /\ prep[Me] = "idle" => spc = "posted"
  /\ R!PrepareHandler(Me)
  /\ UNCHANGED <<svars, nvars>>

(* The answer carries the tokens of the files that were accepted.          *)
Answered(code) ==
  \/ code = 200 /\ PostAccepted({f \in File : <<Me, f>> \in granted})
  \/ code = 204 /\ PostNothing
  \/ code \notin {200, 204} /\ PostRefused(code)

PostAnswered ==
  /\ spc = "posted" /\ prep[Me] = "done" /\ presp[Me] # 0
  /\ Answered(presp[Me])
  /\ UNCHANGED <<rvars, nvars>>

PostBroken ==
  /\ Lossy /\ PostRefused(0)
  /\ UNCHANGED <<rvars, nvars>>

-----------------------------------------------------------------------------
(* /upload                                                                 *)
UploadArrives(u, f) ==
  /\ f \in Running /\ task[f] = NoUpload
  /\ R!UploadStarts(u, Me, f) \/ R!UploadRefused(u, Me, f)
  /\ task' = [task EXCEPT ![f] = u]
  /\ UNCHANGED <<svars, toReceiver, toSender, quit, left>>

(* The sender's call for file f returns.                                   *)
SenderRecords(f, ok) ==
  /\ \/ \E w \in Worker : worker[w] = f /\ TaskEnds(w, ok)
     \/ RetryEnds(f, ok)
  /\ task' = [task EXCEPT ![f] = NoUpload]
  /\ UNCHANGED <<rvars, toReceiver, toSender, quit>>

UploadAnswered(f) ==
  /\ f \in Running /\ task[f] # NoUpload
  /\ up[task[f]].pc = "done" /\ up[task[f]].code # 0
  /\ SenderRecords(f, up[task[f]].code = 200)
  /\ UNCHANGED left

(* The receiver is still handling the request that carries f.              *)
AtWork(f) == task[f] # NoUpload /\ up[task[f]].pc # "done"

UploadBroken(f) ==
  /\ f \in Running
  /\ Lossy
  /\ SenderRecords(f, FALSE)
  /\ left' = IF AtWork(f) THEN left \cup {f} ELSE left

(* cancelSession and cancelSessionByReceiver abort the running requests.   *)
UploadAborted(f) ==
  /\ f \in Running
  /\ quit # "no" \/ sstatus = "canceledByReceiver"
  /\ SenderRecords(f, FALSE)
  /\ UNCHANGED left

RetryFile(f) == Retry(f) /\ UNCHANGED <<rvars, nvars>>

-----------------------------------------------------------------------------
(* /cancel                                                                 *)
SenderCancels ==
  /\ CancelByUser
  /\ toReceiver' = toReceiver \cup {IF remote THEN Me ELSE NoReq}
  /\ quit' = IF remote THEN "named" ELSE "blind"
  /\ UNCHANGED <<rvars, task, toSender, left>>

CancelReachesReceiver(sid) ==
  /\ sid \in toReceiver
  /\ toReceiver' = toReceiver \ {sid}
  /\ \/ R!Cancel(IpOf[Me], sid)
     \/ ~ R!CancelAllowed(IpOf[Me], sid) /\ UNCHANGED rvars
  /\ UNCHANGED <<svars, task, toSender, quit, left>>

CancelLost(sid) ==
  /\ Lossy
  /\ sid \in toReceiver
  /\ toReceiver' = toReceiver \ {sid}
  /\ UNCHANGED <<svars, rvars, task, toSender, quit, left>>

(* Leaving the progress page tells the sender if the session is sending.   *)
ReceiverExits ==
  /\ R!ExitProgress
  /\ toSender' = (toSender \/ (session.id = Me /\ session.status = "sending"))
  /\ UNCHANGED <<svars, task, toReceiver, quit, left>>

(* The call is refused when no session has its id, or it is not sending,   *)
(* or when the sender's device is itself in a receive session.             *)
CancelReachesSender ==
  /\ toSender
  /\ toSender' = FALSE
  /\ CancelByReceiver \/ UNCHANGED svars
  /\ UNCHANGED <<rvars, task, toReceiver, quit, left>>

-----------------------------------------------------------------------------
(* What each device does by itself, and requests of other devices.         *)
SenderAlone ==
  /\ CloseSession \/ SetBackground
  /\ UNCHANGED <<rvars, nvars>>

SenderClears ==
  /\ ClearAllSessions
  /\ UNCHANGED <<rvars, nvars>>

ReceiverUser ==
  /\ (\E sel \in SUBSET FileId : R!Accept(sel)) \/ R!Decline \/ R!CloseCanceled
     \/ \E r \in Req : R!DelayedClose(r)
  /\ UNCHANGED <<svars, nvars>>

ReceiverWorks(u) == R!UploadHandler(u) /\ UNCHANGED <<svars, nvars>>

Restart == (R!Stop \/ R!Start) /\ UNCHANGED <<svars, nvars>>

OtherDevice(r) ==
  /\ r # Me
  /\ \/ R!PrepareHandler(r)
     \/ \E u \in Upload : \E f \in FilesOf[r] :
          /\ presp[r] = 200
          /\ R!UploadStarts(u, r, f) \/ R!UploadRefused(u, r, f)
     \/ R!Cancel(IpOf[r], r)
  /\ UNCHANGED <<svars, nvars>>

-----------------------------------------------------------------------------
Network ==
  \/ Prepare \/ PostAnswered
  \/ \E f \in File : UploadAnswered(f) \/ UploadAborted(f) \/ \E u \in Upload : UploadArrives(u, f)
  \/ \E sid \in {Me, NoReq} : CancelReachesReceiver(sid)
  \/ CancelReachesSender
Faults ==
  \/ PostBroken
  \/ \E f \in File : UploadBroken(f)
  \/ \E sid \in {Me, NoReq} : CancelLost(sid)
Users == Post \/ SenderCancels \/ ReceiverExits \/ SenderAlone \/ ReceiverUser

(* Both devices stay up, the receiver deals with this sender only, and     *)
(* failed files are retried when all are through.                          *)
Quiet ==
  \/ Network \/ Faults \/ Users
  \/ \E u \in Upload : ReceiverWorks(u)
  \/ \E f \in File : spc = "end" /\ RetryFile(f)

TNext ==
  \/ Network \/ Faults \/ Users
  \/ \E u \in Upload : ReceiverWorks(u)
  \/ \E f \in File : RetryFile(f)
  \/ SenderClears \/ Restart
  \/ \E r \in Req : OtherDevice(r)

(* Messages arrive and handlers run to their end; users owe nothing.       *)
TFairness ==
  /\ WF_tvars(Prepare) /\ WF_tvars(PostAnswered)
  /\ \A f \in File : WF_tvars(UploadAnswered(f)) /\ WF_tvars(UploadAborted(f))
                     /\ WF_tvars(\E u \in Upload : UploadArrives(u, f))
  /\ \A u \in Upload : WF_tvars(ReceiverWorks(u))
  /\ \A sid \in {Me, NoReq} : WF_tvars(CancelReachesReceiver(sid))
  /\ WF_tvars(CancelReachesSender)

TSpec == TInit /\ [][TNext]_tvars
QuietFairSpec == TInit /\ [][Quiet]_tvars /\ TFairness

-----------------------------------------------------------------------------
(* A file the sender shows as sent was written to disk by an upload of     *)
(* this very session, whatever broke, restarted or took over meanwhile.    *)
SentMeansSaved == \A f \in File :
  sfiles[f] = "finished" => \E u \in saved : up[u].req = Me /\ up[u].file = f

(* Nothing of this session is under way.                                   *)
AtRest ==
  /\ Running = {} /\ spc = "end"
  /\ toReceiver = {} /\ ~ toSender
  /\ \A u \in Upload : up[u].pc \in {"idle", "done"}

(* The sender's success is not contradicted: when nothing is under way and *)
(* the sender shows "finished" with every file sent, a receiver that still *)
(* shows the session shows "finished" too, even if answers were lost and   *)
(* files were sent again.  (Not so when an upload was left at the receiver *)
(* by a call that broke: it may fail after the file was sent again.)       *)
SuccessAgreed ==
  (/\ AtRest /\ sstatus = "finished" /\ R!Active /\ session.id = Me
   /\ left = {}
   /\ \A f \in File : sfiles[f] \in {"finished", "skipped"})
     => session.status = "finished"

(* Sending ends: whatever the receiver's user does, the answers, the       *)
(* aborts and the /cancel call bring the sender's session to an end.       *)
SendingEnds == (sstatus = "sending") ~> (sstatus # "sending")

ReceiverFreed == ~ (R!Active /\ session.id = Me /\ session.status \in {"waiting", "sending"})

(* A cancellation that names the session frees the receiver for others.    *)
NamedCancelFrees == (quit = "named") ~> ReceiverFreed

(* "Closes the send-session and sends a cancel event to the receiver."     *)
(* (send_session_service.dart l.464): the receiver does not stay in a      *)
(* session its sender has cancelled.                                       *)
CancelFrees == (quit # "no") ~> ReceiverFreed
=============================================================================

---------------------------- MODULE ReceiveServer ----------------------------
(***************************************************************************)
(* The receiving side of the HTTP protocol:                                *)
(* app/lib/provider/network/server/controller/receive_controller.dart,     *)
(* with checkPin (common.dart) and start/stop (server_provider.dart).      *)
(*                                                                         *)
(* The server holds AT MOST ONE receive session.  A sender asks for one    *)
(* with /prepare-upload (a member of Req; its session id is fresh, so it   *)
(* names the session too), the user accepts some files or declines, and    *)
(* every accepted file is uploaded by a request of its own (a member of    *)
(* Upload).  Dart is single-threaded: a handler runs without interruption  *)
(* between two awaits, and everything else may happen at an await.  Each   *)
(* action below is one such uninterrupted run.                             *)
(***************************************************************************)
EXTENDS Integers, FiniteSets

CONSTANTS
  Req,         \* /prepare-upload requests, and the sessions they ask for
  Upload,      \* /upload requests
  File,        \* file ids
  Ip,          \* addresses of senders
  IpOf,        \* the address a request comes from
  FilesOf,     \* the files a request offers
  QuickReq,    \* requests accepted without asking (quick save, favourites)
  MessageReq,  \* requests that carry a text message in the preview
  LegacyReq,   \* requests of senders that speak protocol 1.0
  PinSet,      \* is a receive PIN configured?
  NoSession

(* Senders name their files by fresh Uuids (send_session_service.dart      *)
(* l.69), so no two requests offer the same file id.                       *)
ASSUME ReqAssumption ==
  /\ Req # {} /\ File # {}
  /\ IpOf \in [Req -> Ip]
  /\ FilesOf \in [Req -> SUBSET File]
  /\ \A r, q \in Req : r # q => FilesOf[r] \cap FilesOf[q] = {}
  /\ QuickReq \subseteq Req
  /\ MessageReq \subseteq Req
  /\ LegacyReq \subseteq Req
  /\ QuickReq \cap MessageReq = {}
  /\ PinSet \in BOOLEAN

VARIABLES
  running,   \* state != null
  session,   \* ServerState.session
  attempts,  \* ServerState.pinAttempts
  prep,      \* where the handler of each /prepare-upload request is
  presp,     \* its answer (0: none yet)
  up,        \* the /upload requests
  closing,   \* closeSession calls scheduled with Future.delayed
  granted,   \* history: the <<session, file>> pairs that were accepted
  saved      \* history: the uploads whose bytes are on disk

vars == <<running, session, attempts, prep, presp, up, closing, granted, saved>>

-----------------------------------------------------------------------------
SessionStatus == {"waiting", "sending", "finished", "finishedWithErrors", "canceledBySender"}
FileStatus == {"none", "queue", "skipped", "sending", "failed", "finished"}
Session == [id : Req, status : SessionStatus, files : [File -> FileStatus], handler : BOOLEAN]

ASSUME SessionAssumption == NoSession \notin Session

AllowedStates == {"sending", "finishedWithErrors"}
MaxAttempts == 3

Active == session # NoSession
Receiving == Active /\ session.status \in AllowedStates
Files(s) == {f \in File : s.files[f] # "none"}

(* FileStatusIterable.isFinishedOrError                                    *)
IsFinishedOrError_Sending(s) ==  \* mutant: a running upload counts as done
  \A f \in Files(s) : s.files[f] \in {"skipped", "failed", "finished", "sending"}
IsFinishedOrError(s) == \A f \in Files(s) : s.files[f] \in {"skipped", "failed", "finished"}

TypeOK ==
  /\ running \in BOOLEAN
  /\ session \in Session \cup {NoSession}
  /\ attempts \in [Ip -> 0 .. MaxAttempts]
  /\ prep \in [Req -> {"idle", "checked", "waiting", "granted", "done"}]
  /\ presp \in [Req -> {0, 200, 204, 400, 401, 403, 409, 429}]
  /\ up \in [Upload -> [pc : {"idle", "saving", "history", "done"}, req : Req, file : File,
                        code : {0, 200, 403, 409, 500}]]
  /\ closing \subseteq Req
  /\ granted \subseteq Req \X File
  /\ saved \subseteq Upload

Init ==
  /\ running = TRUE
  /\ session = NoSession
  /\ attempts = [i \in Ip |-> 0]
  /\ prep = [r \in Req |-> "idle"]
  /\ presp = [r \in Req |-> 0]
  /\ up \in [Upload -> [pc : {"idle"}, req : {CHOOSE r \in Req : TRUE},
                        file : {CHOOSE f \in File : TRUE}, code : {0}]]
  /\ closing = {}
  /\ granted = {}
  /\ saved = {}

-----------------------------------------------------------------------------
(* /prepare-upload                                                         *)

PrepareAnswers(r, code) ==
  /\ prep' = [prep EXCEPT ![r] = "done"]
  /\ presp' = [presp EXCEPT ![r] = code]

(* The handler up to its first real await: blocked by a session?, checkPin.*)
(* An absent PIN is answered with 401 but is not an attempt.               *)
AttemptsLeft(r) == attempts[IpOf[r]] < MaxAttempts

PrepareBlocked(r) ==
  /\ running /\ prep[r] = "idle"
  /\ Active
  /\ PrepareAnswers(r, 409)
  /\ UNCHANGED <<running, session, attempts, up, closing, granted, saved>>

PreparePin(r, pin) ==
  /\ running /\ prep[r] = "idle"
  /\ ~ Active
  /\ PinSet
  /\ \/ /\ ~ AttemptsLeft(r)
        /\ PrepareAnswers(r, 429)
        /\ UNCHANGED attempts
     \/ /\ AttemptsLeft(r)
        /\ pin = "wrong"
        /\ attempts' = [attempts EXCEPT ![IpOf[r]] = @ + 1]
        /\ PrepareAnswers(r, IF attempts[IpOf[r]] = MaxAttempts - 1 THEN 429 ELSE 401)
     \/ /\ AttemptsLeft(r)
        /\ pin = "none"
        /\ PrepareAnswers(r, 401)
        /\ UNCHANGED attempts
  /\ UNCHANGED <<running, session, up, closing, granted, saved>>

PrepareChecked(r) ==
  /\ running /\ prep[r] = "idle"
  /\ ~ Active
  /\ PinSet => AttemptsLeft(r)
  /\ prep' = [prep EXCEPT ![r] = "checked"]
  /\ UNCHANGED <<running, session, attempts, presp, up, closing, granted, saved>>

(* After the body and the directories were awaited.                        *)
PrepareMalformed(r) ==
  /\ running /\ prep[r] = "checked"
  /\ PrepareAnswers(r, 400)
  /\ UNCHANGED <<running, session, attempts, up, closing, granted, saved>>

Selected(r, sel) ==
  [id |-> r, status |-> "sending", handler |-> FALSE,
   files |-> [f \in File |-> IF f \notin FilesOf[r] THEN "none"
                             ELSE IF f \in sel THEN "queue" ELSE "skipped"]]

(* The session is stored whether or not another one was stored meanwhile.  *)
PrepareRegisters(r) ==
  /\ running /\ prep[r] = "checked"
  /\ \/ /\ r \notin QuickReq
        /\ session' = [id |-> r, status |-> "waiting", handler |-> TRUE,
                       files |-> [f \in File |-> IF f \in FilesOf[r] THEN "queue" ELSE "none"]]
        /\ prep' = [prep EXCEPT ![r] = "waiting"]
        /\ UNCHANGED granted
     \/ /\ r \in QuickReq
        /\ session' = Selected(r, FilesOf[r])
        /\ prep' = [prep EXCEPT ![r] = "granted"]
        /\ granted' = granted \cup ({r} \X FilesOf[r])
  /\ UNCHANGED <<running, attempts, presp, up, closing, saved>>

(* The response follows a permission dialog on mobile platforms.           *)
PrepareResponds(r) ==
  /\ prep[r] = "granted"
  /\ PrepareAnswers(r, 200)
  /\ UNCHANGED <<running, session, attempts, up, closing, granted, saved>>

(* getState() of a stopped server throws; the request is never answered.   *)
PrepareThrows(r) ==
  /\ ~ running /\ prep[r] = "checked"
  /\ PrepareAnswers(r, 0)
  /\ UNCHANGED <<running, session, attempts, up, closing, granted, saved>>

-----------------------------------------------------------------------------
(* The user.  The buttons of the receive page act on the current session's *)
(* response handler, which wakes the waiting /prepare-upload handler.      *)

(* Accept is only offered while the request waits.                         *)
Accept(sel) ==
  /\ Active /\ session.handler
  /\ session.status = "waiting"
  /\ session.id \notin MessageReq
  /\ sel # {} /\ sel \subseteq FilesOf[session.id]
  /\ session' = Selected(session.id, sel)
  /\ granted' = granted \cup ({session.id} \X sel)
  /\ prep' = [prep EXCEPT ![session.id] = "granted"]
  /\ UNCHANGED <<running, attempts, presp, up, closing, saved>>

(* Closing a message, declining, or leaving the page.                      *)
Decline ==
  /\ Active /\ session.handler
  /\ PrepareAnswers(session.id, IF session.id \in MessageReq THEN 204 ELSE 403)
  /\ session' = NoSession
  /\ UNCHANGED <<running, attempts, up, closing, granted, saved>>

(* "Close" on the page of a cancelled request: the handler is never woken. *)
CloseCanceled ==
  /\ Active /\ session.handler
  /\ session.status = "canceledBySender"
  /\ session' = NoSession
  /\ UNCHANGED <<running, attempts, prep, presp, up, closing, granted, saved>>

(* Leaving the progress page: cancelSession when sending (the sender is    *)
(* notified), else closeSession.                                           *)
ExitProgress ==
  /\ Active /\ ~ session.handler
  /\ session' = NoSession
  /\ UNCHANGED <<running, attempts, prep, presp, up, closing, granted, saved>>

(* The close scheduled by a finished quick-save session.                   *)
DelayedClose(r) ==
  /\ r \in closing
  /\ closing' = closing \ {r}
  /\ session' = NoSession
  /\ UNCHANGED <<running, attempts, prep, presp, up, granted, saved>>

-----------------------------------------------------------------------------
(* /upload                                                                 *)

(* The token of a file is a fresh Uuid per session and null for skipped    *)
(* files, so presenting it means naming the session and an accepted file.  *)
TokenValid_AnyFile(r, f) == session.id = r /\ session.files[f] # "none"  \* mutant: no token check
TokenValid(r, f) == session.id = r /\ session.files[f] \notin {"none", "skipped"}

StateAllowsUpload_Always == TRUE   \* mutant: no state check
StateAllowsUpload == session.status \in AllowedStates

(* The checks and the status change are one run of the handler.            *)
UploadStarts(u, r, f) ==
  /\ running /\ up[u].pc = "idle"
  /\ Active
  /\ IpOf[r] = IpOf[session.id]
  /\ StateAllowsUpload
  /\ TokenValid(r, f)
  /\ session' = [session EXCEPT !.files[f] = "sending", !.status = "sending"]
  /\ up' = [up EXCEPT ![u] = [pc |-> "saving", req |-> r, file |-> f, code |-> 0]]
  /\ UNCHANGED <<running, attempts, prep, presp, closing, granted, saved>>

UploadRefused(u, r, f) ==
  /\ running /\ up[u].pc = "idle"
  /\ up' = [up EXCEPT ![u] =
       [pc |-> "done", req |-> r, file |-> f,
        code |-> IF ~ Active THEN 409
                 ELSE IF IpOf[r] # IpOf[session.id] THEN 403
                 ELSE IF ~ StateAllowsUpload THEN 409 ELSE 403]]
  /\ Active => ~ (IpOf[r] = IpOf[session.id] /\ StateAllowsUpload /\ TokenValid(r, f))
  /\ UNCHANGED <<running, session, attempts, prep, presp, closing, granted, saved>>

UploadAnswers(u, code) ==
  up' = [up EXCEPT ![u] = [pc |-> "done", req |-> @.req, file |-> @.file, code |-> code]]

(* fileFinished on the session stored NOW, whichever that is.              *)
Marked(s, f, status) == [s EXCEPT !.files[f] = status]

(* The tail of the handler: settle the session, answer.                    *)
Settled(s) ==
  IF s.status \in AllowedStates /\ IsFinishedOrError(s)
  THEN [s EXCEPT !.status = IF \E f \in Files(s) : s.files[f] = "failed"
                            THEN "finishedWithErrors" ELSE "finished"]
  ELSE s

UploadCode_Settled(s, f) ==   \* mutant: answers by the session, not by the file
  IF s.status \in {"finished", "finishedWithErrors"} THEN 200 ELSE 500
UploadCode(s, f) == IF s.files[f] = "finished" THEN 200 ELSE 500

Ends(u, s) ==
  /\ session' = Settled(s)
  /\ closing' = IF Settled(s) # s /\ s.id \in QuickReq THEN closing \cup {s.id} ELSE closing
  /\ UploadAnswers(u, UploadCode(Settled(s), up[u].file))

(* The answer when the session went away, or changed its state, meanwhile. *)
CodeWhenGone_Silent == 0   \* mutant: a return without a response
CodeWhenGone == 500

(* saveFile returned.  The session may have gone, changed its status, or   *)
(* be another one by now; a file the current session does not know makes   *)
(* Map.update throw, in the catch block too.                               *)
UploadSaved(u) ==
  /\ running /\ up[u].pc = "saving"
  /\ saved' = saved \cup {u}
  /\ \/ /\ ~ Receiving
        /\ UploadAnswers(u, CodeWhenGone)
        /\ UNCHANGED session
     \/ /\ Receiving
        /\ up[u].file \notin Files(session)
        /\ UploadAnswers(u, 0)
        /\ UNCHANGED session
     \/ /\ Receiving
        /\ up[u].file \in Files(session)
        /\ session' = Marked(session, up[u].file, "finished")
        /\ up' = [up EXCEPT ![u].pc = "history"]
  /\ UNCHANGED <<running, attempts, prep, presp, closing, granted>>

(* saveFile or the history entry threw: the catch block, then the tail.    *)
UploadFails(u) ==
  /\ running /\ up[u].pc \in {"saving", "history"}
  /\ \/ /\ ~ Active
        /\ UploadAnswers(u, CodeWhenGone)
        /\ UNCHANGED <<session, closing>>
     \/ /\ Active /\ up[u].file \notin Files(session)
        /\ UploadAnswers(u, 0)
        /\ UNCHANGED <<session, closing>>
     \/ /\ Active /\ up[u].file \in Files(session)
        /\ Ends(u, Marked(session, up[u].file, "failed"))
  /\ UNCHANGED <<running, attempts, prep, presp, granted, saved>>

(* The history entry was written.                                          *)
UploadRecorded(u) ==
  /\ running /\ up[u].pc = "history"
  /\ \/ /\ ~ Active
        /\ UploadAnswers(u, CodeWhenGone)
        /\ UNCHANGED <<session, closing>>
     \/ /\ Active
        /\ Ends(u, session)
  /\ UNCHANGED <<running, attempts, prep, presp, granted, saved>>

UploadThrows(u) ==
  /\ ~ running /\ up[u].pc \in {"saving", "history"}
  /\ UploadAnswers(u, 0)
  /\ UNCHANGED <<running, session, attempts, prep, presp, closing, granted, saved>>

-----------------------------------------------------------------------------
(* /cancel from the sender: no session id is needed while waiting, nor in  *)
(* protocol 1.0.  Requests that are refused change nothing.                *)
CancelAllowed_Waiting(ip, sid) ==   \* mutant: only a waiting session may be cancelled
  /\ running /\ Active
  /\ IpOf[session.id] = ip
  /\ session.status = "waiting"
CancelAllowed(ip, sid) ==
  /\ running /\ Active
  /\ IpOf[session.id] = ip
  /\ session.status = "waiting" \/ session.id \in LegacyReq \/ sid = session.id
  /\ session.status \in {"waiting", "sending"}

Cancel(ip, sid) ==
  /\ CancelAllowed(ip, sid)
  /\ session' = [session EXCEPT !.status = "canceledBySender"]
  /\ UNCHANGED <<running, attempts, prep, presp, up, closing, granted, saved>>

(* stopServer and startServer; the new state has fresh PIN attempts.       *)
Stop ==
  /\ running
  /\ running' = FALSE
  /\ session' = NoSession
  /\ UNCHANGED <<attempts, prep, presp, up, closing, granted, saved>>

Start ==
  /\ ~ running
  /\ running' = TRUE
  /\ attempts' = [i \in Ip |-> 0]
  /\ UNCHANGED <<session, prep, presp, up, closing, granted, saved>>

-----------------------------------------------------------------------------
PrepareHandler(r) ==
  \/ PrepareBlocked(r)
  \/ \E pin \in {"wrong", "none"} : PreparePin(r, pin)
  \/ PrepareChecked(r) \/ PrepareMalformed(r) \/ PrepareRegisters(r)
  \/ PrepareResponds(r) \/ PrepareThrows(r)
UploadRequest(u) ==
  \E r \in Req : \E f \in FilesOf[r] :
    presp[r] = 200 /\ (UploadStarts(u, r, f) \/ UploadRefused(u, r, f))
UploadHandler(u) == UploadSaved(u) \/ UploadFails(u) \/ UploadRecorded(u) \/ UploadThrows(u)
User == (\E sel \in SUBSET File : Accept(sel)) \/ Decline \/ CloseCanceled \/ ExitProgress

Next ==
  \/ \E r \in Req : PrepareHandler(r) \/ DelayedClose(r) \/ Cancel(IpOf[r], r)
  \/ \E u \in Upload : UploadRequest(u) \/ UploadHandler(u)
  \/ User
  \/ Stop \/ Start

Spec == Init /\ [][Next]_vars

-----------------------------------------------------------------------------
(* What the receiver promises.                                             *)

(* Bytes are only written for a file the user (or quick save) accepted in  *)
(* the session the upload names.                                           *)
OnlyGrantedSaved == \A u \in Upload :
  (up[u].pc \in {"saving", "history"} \/ u \in saved) => <<up[u].req, up[u].file>> \in granted

(* An upload answered with 200 has its bytes on disk.                      *)
AckMeansSaved == \A u \in Upload : up[u].code = 200 => u \in saved

(* When the receiver shows "finished", every accepted file of the session  *)
(* has been written by an upload of that session.                          *)
FinishedMeansSaved ==
  (Active /\ session.status = "finished") =>
    \A f \in FilesOf[session.id] : <<session.id, f>> \in granted =>
      \E u \in saved : up[u].req = session.id /\ up[u].file = f

(* "end of session" (session_status.dart): a session that is finished or   *)
(* cancelled changes its status no more; it can only be dropped.           *)
EndIsFinal ==
  [][(Active /\ session.status \in {"finished", "canceledBySender"}
      /\ session' # NoSession /\ session'.id = session.id)
       => session'.status = session.status]_vars

(* "block incoming requests when we are already in a session"              *)
(* (receive_controller.dart l.195): a session is not replaced by another.  *)
NoTakeover ==
  [][(Active /\ session' # NoSession) => session'.id = session.id]_vars
=============================================================================

----------------------------- MODULE SendSession -----------------------------
(***************************************************************************)
(* One session of the sending side:                                        *)
(* app/lib/features/send/provider/send_session_service.dart, driven by     *)
(* app/lib/features/send/controller/send_flow_controller.dart.             *)
(*                                                                         *)
(* The session is an entry of the provider's map; "none" means the entry   *)
(* is absent, and every update of an absent entry is ignored.  A fixed     *)
(* number of workers (one per upload isolate) share one queue of files.    *)
(* The user may retry a failed file while the workers still run.           *)
(* The answers of the receiver are inputs here; Transfer connects them.    *)
(***************************************************************************)
EXTENDS Integers, Sequences, FiniteSets

CONSTANTS
  File,       \* file ids
  Offered,    \* the files of the session, in the order of the map
  Isolates,   \* uploadIsolateCount
  NoFile,
  MaxRetries  \* bound on the retries the user asks for

ASSUME SendAssumption ==
  /\ Offered \in Seq(File) /\ Offered # <<>>
  /\ \A f \in File : \E k \in DOMAIN Offered : Offered[k] = f
  /\ \A j, k \in DOMAIN Offered : Offered[j] = Offered[k] => j = k   \* keys of a map
  /\ Isolates \in Nat \ {0}
  /\ NoFile \notin File
  /\ MaxRetries \in Nat

VARIABLES
  spc,        \* where startSession is
  sstatus,    \* SendSessionState.status
  sfiles,     \* the status of every file
  remote,     \* remoteSessionId is known
  background, \* SendSessionState.background
  queue,      \* the files in the queue the workers share
  worker,     \* the file each worker is sending
  retrying,   \* the files being sent by a retry
  retries     \* how often the user has retried

svars == <<spc, sstatus, sfiles, remote, background, queue, worker, retrying, retries>>

Worker == 1 .. Isolates
AllowedStates == {"sending", "finishedWithErrors"}
Exists == sstatus # "none"
Running == ({worker[w] : w \in Worker} \cup retrying) \ {NoFile}

EndStates == {"recipientBusy", "declined", "tooManyAttempts", "finished", "finishedWithErrors",
              "canceledBySender", "canceledByReceiver"}

STypeOK ==
  /\ spc \in {"idle", "posted", "pin", "loop", "end"}
  /\ sstatus \in {"none", "waiting", "sending"} \cup EndStates
  /\ sfiles \in [File -> {"queue", "skipped", "sending", "failed", "finished"}]
  /\ remote \in BOOLEAN
  /\ background \in BOOLEAN
  /\ queue \subseteq File
  /\ worker \in [Worker -> File \cup {NoFile}]
  /\ retrying \subseteq File
  /\ retries \in 0 .. MaxRetries

SInit ==
  /\ spc = "idle"
  /\ sstatus = "none"
  /\ sfiles = [f \in File |-> "queue"]
  /\ remote = FALSE
  /\ background = FALSE
  /\ queue = {}
  /\ worker = [w \in Worker |-> NoFile]
  /\ retrying = {}
  /\ retries = 0

-----------------------------------------------------------------------------
(* updateSession with a new status: nothing when the entry is gone.        *)
WithStatus(st) == IF Exists THEN st ELSE "none"

(* _finish: only a session that is still sending is settled; without       *)
(* errors a background session is removed.                                 *)
FinishStatus_Clean(files, bg) == IF bg THEN "none" ELSE "finished"  \* mutant: errors ignored
FinishStatus(files, bg) ==
  IF \E f \in File : files[f] = "failed" THEN "finishedWithErrors"
  ELSE IF bg THEN "none" ELSE "finished"

IsFinishedOrError(files) == \A f \in File : files[f] \in {"skipped", "failed", "finished"}

-----------------------------------------------------------------------------
(* createSession, and the first submitRequest.                             *)
CreateSession ==
  /\ spc = "idle"
  /\ spc' = "posted"
  /\ sstatus' = "waiting"
  /\ background' \in BOOLEAN
  /\ UNCHANGED <<sfiles, remote, queue, worker, retrying, retries>>

(* submitRequest came back with an error status, or threw (code 0).        *)
StatusOf(code) ==
  CASE code = 403 -> "declined"
    [] code = 409 -> "recipientBusy"
    [] code = 429 -> "tooManyAttempts"
    [] OTHER -> "finishedWithErrors"

PostRefused(code) ==
  /\ spc = "posted"
  /\ spc' = "end"
  /\ sstatus' = WithStatus(StatusOf(code))
  /\ UNCHANGED <<sfiles, remote, background, queue, worker, retrying, retries>>

(* 401: the PIN dialog; dismissing it cancels the session locally.         *)
PostPinRequired ==
  /\ spc = "posted"
  /\ spc' = "pin"
  /\ UNCHANGED <<sstatus, sfiles, remote, background, queue, worker, retrying, retries>>

PinEntered ==
  /\ spc = "pin"
  /\ spc' = IF Exists THEN "posted" ELSE "end"   \* "Session not found"
  /\ UNCHANGED <<sstatus, sfiles, remote, background, queue, worker, retrying, retries>>

PinDismissed ==
  /\ spc = "pin"
  /\ spc' = "end"
  /\ sstatus' = WithStatus("canceledBySender")
  /\ UNCHANGED <<sfiles, remote, background, queue, worker, retrying, retries>>

(* 204: nothing selected, the session is finished and closed.              *)
PostNothing ==
  /\ spc = "posted"
  /\ spc' = "end"
  /\ sstatus' = "none"
  /\ UNCHANGED <<sfiles, remote, background, queue, worker, retrying, retries>>

(* The status check at the start of sendFile.                              *)
MaySend_Unchecked(st) == TRUE   \* mutant: no status check
MaySend(st) == st \in AllowedStates

(* The queue is kept in the order of the map.  Skipped files have no token *)
(* and are passed over: the queue holds the others.                        *)
Before(f, g) == \E j, k \in DOMAIN Offered : j < k /\ Offered[j] = f /\ Offered[k] = g
First(q) == CHOOSE f \in q : \A g \in q : ~ Before(g, f)
Ahead(q, f) == Cardinality({g \in q : Before(g, f)})

(* What worker w takes first, when the workers start one after the other.  *)
FirstOf(q, w) ==
  IF \E f \in q : Ahead(q, f) = w - 1 THEN CHOOSE f \in q : Ahead(q, f) = w - 1 ELSE NoFile

(* The queue once the files in taken were taken from it.                   *)
Rest_Peek(q, taken) == q   \* mutant: first for removeFirst
Rest(q, taken) == q \ taken

(* 200: startUpload and _sendLoop up to the first await of every worker.   *)
PostAccepted(sel) ==
  /\ spc = "posted"
  /\ \/ /\ ~ Exists
        /\ spc' = "end"
        /\ UNCHANGED <<sstatus, sfiles, remote, queue, worker>>
     \/ /\ Exists
        /\ spc' = "loop"
        /\ remote' = TRUE
        /\ sstatus' = "sending"
        /\ worker' = [w \in Worker |-> FirstOf(sel, w)]
        /\ queue' = Rest(sel, {worker'[w] : w \in Worker})
        /\ sfiles' = [f \in File |-> IF f \notin sel THEN "skipped"
                                     ELSE IF \E w \in Worker : worker'[w] = f THEN "sending"
                                     ELSE "queue"]
  /\ UNCHANGED <<background, retrying, retries>>

-----------------------------------------------------------------------------
(* sendFile returned in worker w; it records the result, takes the next    *)
(* file, and the last worker to find the queue empty runs _finish.  When   *)
(* the session may not send, sendFile returns at once and the worker runs  *)
(* through the whole queue.                                                *)
Outcome(ok) == IF ok THEN "finished" ELSE "failed"

Recorded(f, ok) == IF Exists THEN [sfiles EXCEPT ![f] = Outcome(ok)] ELSE sfiles

TaskEnds(w, ok) ==
  LET f == worker[w]
      done == Recorded(f, ok)
      more == MaySend(sstatus) /\ queue # {}
      last == ~ more /\ \A v \in Worker \ {w} : worker[v] = NoFile
  IN  /\ f # NoFile
      /\ worker' = [worker EXCEPT ![w] = IF more THEN First(queue) ELSE NoFile]
      /\ queue' = IF more THEN Rest(queue, {First(queue)}) ELSE {}
      /\ sfiles' = IF more THEN [done EXCEPT ![First(queue)] = "sending"] ELSE done
      /\ sstatus' = IF last /\ sstatus = "sending" THEN FinishStatus(done, background) ELSE sstatus
      /\ spc' = IF last THEN "end" ELSE spc
      /\ UNCHANGED <<remote, background, retrying, retries>>

(* The retry button of a failed file, offered while the session exists.    *)
Retry(f) ==
  /\ Exists
  /\ sfiles[f] = "failed"
  /\ MaySend(sstatus)
  /\ retries < MaxRetries
  /\ retries' = retries + 1
  /\ sstatus' = "sending"
  /\ sfiles' = [sfiles EXCEPT ![f] = "sending"]
  /\ retrying' = retrying \cup {f}
  /\ UNCHANGED <<spc, remote, background, queue, worker>>

(* A retry settles the session when it was the last file to end.           *)
RetrySettles_Never(files) == FALSE   \* mutant: _finish is only run by the loop
RetrySettles(files) == Exists /\ IsFinishedOrError(files)

RetryEnds(f, ok) ==
  /\ f \in retrying
  /\ retrying' = retrying \ {f}
  /\ sfiles' = Recorded(f, ok)
  /\ sstatus' = IF RetrySettles(Recorded(f, ok)) /\ sstatus = "sending"
                THEN FinishStatus(Recorded(f, ok), background) ELSE sstatus
  /\ UNCHANGED <<spc, remote, background, queue, worker, retries>>

-----------------------------------------------------------------------------
(* cancelSession: the running uploads are cancelled (they end with an      *)
(* error), the receiver is notified, the entry is removed.                 *)
CancelByUser ==
  /\ Exists
  /\ sstatus' = "none"
  /\ UNCHANGED <<spc, sfiles, remote, background, queue, worker, retrying, retries>>

(* closeSession when the progress page of an ended session is left; and    *)
(* clearAllSessions when the send mode changes.  Neither tells anybody.    *)
CloseSession ==
  /\ sstatus \in EndStates
  /\ sstatus' = "none"
  /\ UNCHANGED <<spc, sfiles, remote, background, queue, worker, retrying, retries>>

ClearAllSessions ==
  /\ Exists /\ background
  /\ sstatus' = "none"
  /\ UNCHANGED <<spc, sfiles, remote, background, queue, worker, retrying, retries>>

(* The receiver's /cancel with our remoteSessionId.                        *)
CancelByReceiver ==
  /\ sstatus = "sending" /\ remote
  /\ sstatus' = "canceledByReceiver"
  /\ UNCHANGED <<spc, sfiles, remote, background, queue, worker, retrying, retries>>

SetBackground ==
  /\ sstatus \in {"waiting", "sending", "finishedWithErrors"}
  /\ background' = ~ background
  /\ UNCHANGED <<spc, sstatus, sfiles, remote, queue, worker, retrying, retries>>

-----------------------------------------------------------------------------
Posted ==
  \/ \E code \in {0, 403, 409, 429} : PostRefused(code)
  \/ PostPinRequired \/ PinEntered \/ PinDismissed \/ PostNothing
  \/ \E sel \in (SUBSET File) \ {{}} : PostAccepted(sel)
Uploads == \E ok \in BOOLEAN : (\E w \in Worker : TaskEnds(w, ok)) \/ (\E f \in File : RetryEnds(f, ok))
SUser == CancelByUser \/ CloseSession \/ ClearAllSessions \/ SetBackground

SNext ==
  \/ CreateSession \/ Posted \/ Uploads \/ SUser \/ CancelByReceiver
  \/ \E f \in File : Retry(f)

(* Every upload ends: rhttp fails a request whose connection breaks.       *)
SFairness ==
  /\ \A w \in Worker : WF_svars(\E ok \in BOOLEAN : TaskEnds(w, ok))
  /\ \A f \in File : WF_svars(\E ok \in BOOLEAN : RetryEnds(f, ok))

SSpec == SInit /\ [][SNext]_svars
SFairSpec == SSpec /\ SFairness

-----------------------------------------------------------------------------
(* The files of a live session that are shown as being sent are exactly    *)
(* those an upload, of the loop or of a retry, is running for: no file is  *)
(* left "sending" by a worker that went on, and none is sent unseen.       *)
SendingIsRunning == Exists => {f \in File : sfiles[f] = "sending"} = Running

(* No file is uploaded twice at a time: the workers and the retries work   *)
(* on different files, and none of these is still in the shared queue.     *)
NoFileTwice ==
  /\ \A v, w \in Worker : v # w /\ worker[v] # NoFile => worker[v] # worker[w]
  /\ \A w \in Worker : worker[w] \notin retrying
  /\ Exists => queue \cap Running = {}

(* Whatever the order in which workers and retries end, each file that is  *)
(* shown as being sent is uploaded exactly once at a time, and no other.   *)
UploadsExact == SendingIsRunning /\ NoFileTwice

(* "finished, // all files sent (end of session)" (session_status.dart):   *)
(* a finished session has sent every file the receiver selected.           *)
FinishedMeansSent ==
  sstatus = "finished" => \A f \in File : sfiles[f] \in {"finished", "skipped"}

(* The same as long as nothing was retried.                                *)
SentUnlessRetried == retries = 0 => FinishedMeansSent

(* The end states (finishedWithErrors excepted, which a retry reopens) are *)
(* only left by dropping the session; no worker that was still running and *)
(* no retry brings it back.                                                *)
SEndIsFinal ==
  [][(sstatus \in EndStates /\ sstatus # "finishedWithErrors")
        => sstatus' \in {sstatus, "none"}]_svars

(* A session that sends settles: the last upload, of the loop or of a      *)
(* retry, runs _finish.                                                    *)
Settles == (sstatus = "sending") ~> (sstatus # "sending")
=============================================================================

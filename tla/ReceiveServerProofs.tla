------------------------- MODULE ReceiveServerProofs -------------------------
(***************************************************************************)
(* Theorems about ReceiveServer, for any sets of requests, uploads, files  *)
(* and addresses.                                                          *)
(***************************************************************************)
EXTENDS ReceiveServer, TLAPS

(* The inductive invariant, in parts.                                      *)

(* A stored session belongs to a request whose handler stored it, and      *)
(* knows the files of that request.                                        *)
Known == Active =>
  /\ prep[session.id] \notin {"idle", "checked"}
  /\ \A f \in File : session.files[f] # "none" <=> f \in FilesOf[session.id]

(* In a session that takes uploads, the files with a token are the ones    *)
(* that were accepted.                                                     *)
Tokens == Receiving => \A f \in FilesOf[session.id] :
  session.files[f] # "skipped" <=> <<session.id, f>> \in granted

(* Nothing is granted before the user is asked, or while he is.            *)
Ungranted ==
  /\ \A r \in Req : prep[r] \in {"idle", "checked"} => \A f \in File : <<r, f>> \notin granted
  /\ Active /\ session.status = "waiting" => \A f \in File : <<session.id, f>> \notin granted

(* How far an upload is, against what is on disk.                          *)
Progress == \A u \in Upload :
  /\ up[u].pc \in {"saving", "history"} => up[u].file \in FilesOf[up[u].req]
  /\ up[u].pc = "history" => u \in saved
  /\ u \in saved => up[u].pc \in {"history", "done"}
  /\ up[u].code # 0 => up[u].pc = "done"

(* A file the session shows as finished was saved by an upload of it.      *)
Evidence == Active => \A f \in File : session.files[f] = "finished" =>
  \E u \in saved : up[u].req = session.id /\ up[u].file = f

IInv ==
  /\ TypeOK /\ Known /\ Tokens /\ Ungranted /\ Progress /\ Evidence
  /\ OnlyGrantedSaved /\ AckMeansSaved /\ FinishedMeansSaved

-----------------------------------------------------------------------------
(* Type correctness.                                                       *)

(* The session an accepted or quick-saved request gets.                    *)
LEMMA SelectedType ==
  ASSUME NEW r \in Req, NEW sel
  PROVE  /\ Selected(r, sel) \in Session
         /\ Selected(r, sel) # NoSession
<1> DEFINE files == [f \in File |-> IF f \notin FilesOf[r] THEN "none"
                                   ELSE IF f \in sel THEN "queue" ELSE "skipped"]
<1>1. files \in [File -> FileStatus]
  BY DEF FileStatus
<1>2. Selected(r, sel) = [id |-> r, status |-> "sending", handler |-> FALSE, files |-> files]
  BY DEF Selected
<1> HIDE DEF files
<1>3. Selected(r, sel) \in Session
  BY <1>1, <1>2 DEF Session, SessionStatus
<1> QED
  BY <1>3, SessionAssumption

(* The session as it is stored while the user is asked.                    *)
LEMMA WaitingType ==
  ASSUME NEW r \in Req, NEW s,
         s = [id |-> r, status |-> "waiting", handler |-> TRUE,
              files |-> [f \in File |-> IF f \in FilesOf[r] THEN "queue" ELSE "none"]]
  PROVE  s \in Session /\ s # NoSession
<1> DEFINE files == [f \in File |-> IF f \in FilesOf[r] THEN "queue" ELSE "none"]
<1>1. files \in [File -> FileStatus]
  BY DEF FileStatus
<1>2. s = [id |-> r, status |-> "waiting", handler |-> TRUE, files |-> files]
  OBVIOUS
<1> HIDE DEF files
<1>3. s \in Session
  BY <1>1, <1>2 DEF Session, SessionStatus
<1> QED
  BY <1>3, SessionAssumption

(* Marking a file changes nothing else of a session.                       *)
LEMMA MarkedType ==
  ASSUME NEW s \in Session, NEW f \in File, NEW st \in FileStatus
  PROVE  /\ Marked(s, f, st) \in Session
         /\ Marked(s, f, st).id = s.id
         /\ Marked(s, f, st).status = s.status
         /\ Marked(s, f, st).handler = s.handler
         /\ Marked(s, f, st).files = [s.files EXCEPT ![f] = st]
BY DEF Marked, Session

(* Settling changes at most the status of a session, and calls it finished *)
(* only when each of its files is skipped or finished.                     *)
LEMMA SettledType ==
  ASSUME NEW s \in Session
  PROVE  /\ Settled(s) \in Session
         /\ Settled(s).id = s.id
         /\ Settled(s).files = s.files
         /\ Settled(s).handler = s.handler
         /\ s.status \notin AllowedStates => Settled(s) = s
         /\ s.status \in AllowedStates => Settled(s).status \in AllowedStates \cup {"finished"}
         /\ s.status \in AllowedStates /\ Settled(s).status = "finished" =>
              \A f \in File : s.files[f] \in {"none", "skipped", "finished"}
<1>1. CASE s.status \in AllowedStates /\ IsFinishedOrError(s)
  <2> DEFINE st == IF \E f \in Files(s) : s.files[f] = "failed"
                   THEN "finishedWithErrors" ELSE "finished"
  <2>1. Settled(s) = [s EXCEPT !.status = st]
    BY <1>1 DEF Settled
  <2>2. st \in {"finishedWithErrors", "finished"}
    OBVIOUS
  <2>3. st = "finished" => \A f \in File : s.files[f] \in {"none", "skipped", "finished"}
    BY <1>1 DEF IsFinishedOrError, Files
  <2> HIDE DEF st
  <2> QED
    BY <1>1, <2>1, <2>2, <2>3 DEF Session, SessionStatus, AllowedStates
<1>2. CASE ~ (s.status \in AllowedStates /\ IsFinishedOrError(s))
  <2>1. Settled(s) = s
    BY <1>2 DEF Settled
  <2> QED
    BY <2>1 DEF AllowedStates
<1> QED
  BY <1>1, <1>2

(* The answer of an upload changes that upload only, and not what it is    *)
(* about.                                                                  *)
LEMMA AnswersType ==
  ASSUME TypeOK, NEW u \in Upload, NEW code \in {0, 200, 403, 409, 500}, UploadAnswers(u, code)
  PROVE  /\ up' \in [Upload -> [pc : {"idle", "saving", "history", "done"}, req : Req,
                                file : File, code : {0, 200, 403, 409, 500}]]
         /\ up'[u].pc = "done" /\ up'[u].code = code
         /\ up'[u].req = up[u].req /\ up'[u].file = up[u].file
         /\ \A v \in Upload \ {u} : up'[v] = up[v]
<1> DEFINE Rec == [pc : {"idle", "saving", "history", "done"}, req : Req,
                   file : File, code : {0, 200, 403, 409, 500}]
<1>1. up \in [Upload -> Rec] /\ up[u] \in Rec
  BY DEF TypeOK
<1> DEFINE new == [pc |-> "done", req |-> up[u].req, file |-> up[u].file, code |-> code]
<1>2. up' = [up EXCEPT ![u] = new]
  BY DEF UploadAnswers
<1>3. new \in Rec /\ new.pc = "done" /\ new.code = code
      /\ new.req = up[u].req /\ new.file = up[u].file
  BY <1>1
<1> HIDE DEF Rec, new
<1>4. up' \in [Upload -> Rec] /\ up'[u] = new /\ \A v \in Upload \ {u} : up'[v] = up[v]
  BY <1>1, <1>2, <1>3
<1> QED
  BY <1>3, <1>4 DEF Rec

(* The tail of the /upload handler keeps the types.                        *)
LEMMA EndsType ==
  ASSUME TypeOK, NEW u \in Upload, NEW s \in Session, Ends(u, s)
  PROVE  /\ session' \in Session
         /\ up' \in [Upload -> [pc : {"idle", "saving", "history", "done"}, req : Req,
                                file : File, code : {0, 200, 403, 409, 500}]]
         /\ closing' \subseteq Req
<1>1. session' \in Session
  BY SettledType DEF Ends
<1>2. closing' \subseteq Req
  BY DEF TypeOK, Ends, Session
<1>3. UploadAnswers(u, UploadCode(Settled(s), up[u].file))
  BY DEF Ends
<1>4. UploadCode(Settled(s), up[u].file) \in {0, 200, 403, 409, 500}
  BY DEF UploadCode
<1>5. up' \in [Upload -> [pc : {"idle", "saving", "history", "done"}, req : Req,
                         file : File, code : {0, 200, 403, 409, 500}]]
  BY <1>3, <1>4, AnswersType
<1> QED
  BY <1>1, <1>2, <1>5

(* Every step keeps the types.                                             *)
LEMMA TypeStep ==
  TypeOK /\ [Next]_vars => TypeOK'
<1> SUFFICES ASSUME TypeOK, [Next]_vars PROVE TypeOK'
  OBVIOUS
<1>1. CASE UNCHANGED vars
  BY <1>1 DEF TypeOK, vars
<1>2. ASSUME NEW r \in Req, PrepareHandler(r) PROVE TypeOK'
  <2>1. CASE PrepareRegisters(r)
    <3>1. session' \in Session
      BY <2>1, SelectedType, WaitingType DEF PrepareRegisters
    <3>2. granted' \subseteq Req \X File
      BY <2>1, ReqAssumption DEF PrepareRegisters, TypeOK
    <3> QED
      BY <2>1, <3>1, <3>2 DEF PrepareRegisters, TypeOK
  <2>2. ASSUME NEW pin, PreparePin(r, pin) PROVE TypeOK'
    <3>1. attempts' \in [Ip -> 0 .. MaxAttempts]
      BY <2>2, ReqAssumption DEF PreparePin, TypeOK, AttemptsLeft, MaxAttempts
    <3> QED
      BY <2>2, <3>1 DEF PreparePin, PrepareAnswers, TypeOK
  <2>3. CASE PrepareBlocked(r)
    BY <2>3 DEF PrepareBlocked, PrepareAnswers, TypeOK
  <2>4. CASE PrepareChecked(r)
    BY <2>4 DEF PrepareChecked, TypeOK
  <2>5. CASE PrepareMalformed(r)
    BY <2>5 DEF PrepareMalformed, PrepareAnswers, TypeOK
  <2>6. CASE PrepareResponds(r)
    BY <2>6 DEF PrepareResponds, PrepareAnswers, TypeOK
  <2>7. CASE PrepareThrows(r)
    BY <2>7 DEF PrepareThrows, PrepareAnswers, TypeOK
  <2> QED
    BY <1>2, <2>1, <2>2, <2>3, <2>4, <2>5, <2>6, <2>7 DEF PrepareHandler
<1>3. ASSUME NEW r \in Req, DelayedClose(r) PROVE TypeOK'
  BY <1>3 DEF DelayedClose, TypeOK
<1>4. ASSUME NEW r \in Req, Cancel(IpOf[r], r) PROVE TypeOK'
  <2>1. session \in Session
    BY <1>4 DEF Cancel, CancelAllowed, TypeOK, Active
  <2>2. session' \in Session
    BY <1>4, <2>1 DEF Cancel, Session, SessionStatus
  <2> QED
    BY <1>4, <2>2 DEF Cancel, TypeOK
<1>5. ASSUME NEW u \in Upload, UploadRequest(u) PROVE TypeOK'
  <2>1. PICK r \in Req, f \in File : UploadStarts(u, r, f) \/ UploadRefused(u, r, f)
    BY <1>5, ReqAssumption DEF UploadRequest
  <2>2. CASE UploadStarts(u, r, f)
    <3>1. session \in Session
      BY <2>2 DEF UploadStarts, TypeOK, Active
    <3>2. session' \in Session
      BY <2>2, <3>1 DEF UploadStarts, Session, SessionStatus, FileStatus
    <3> QED
      BY <2>2, <3>2 DEF UploadStarts, TypeOK
  <2>3. CASE UploadRefused(u, r, f)
    BY <2>3 DEF UploadRefused, TypeOK
  <2> QED
    BY <2>1, <2>2, <2>3
<1>6. ASSUME NEW u \in Upload, UploadHandler(u) PROVE TypeOK'
  <2> DEFINE f == up[u].file
  <2>1. f \in File
    BY DEF TypeOK
  <2>2. Active => session \in Session
    BY DEF TypeOK, Active
  <2>3. CASE UploadSaved(u)
    <3>1. session' \in Session \cup {NoSession}
      <4>1. CASE session' = Marked(session, f, "finished") /\ Active
        <5>1. "finished" \in FileStatus
          BY DEF FileStatus
        <5> QED
          BY <2>1, <2>2, <4>1, <5>1, MarkedType
      <4>2. CASE session' = session
        BY <4>2 DEF TypeOK
      <4> QED
        BY <2>3, <4>1, <4>2 DEF UploadSaved, Receiving
    <3> QED
      BY <2>3, <3>1 DEF UploadSaved, UploadAnswers, CodeWhenGone, TypeOK
  <2>4. CASE UploadFails(u)
    <3>1. CASE Active /\ f \in Files(session)
      <4>1. Ends(u, Marked(session, f, "failed"))
        BY <2>4, <3>1 DEF UploadFails
      <4>2. Marked(session, f, "failed") \in Session
        BY <2>1, <2>2, <3>1, MarkedType DEF FileStatus
      <4> QED
        BY <2>4, <4>1, <4>2, EndsType DEF UploadFails, TypeOK
    <3>2. CASE ~ (Active /\ f \in Files(session))
      BY <2>4, <3>2 DEF UploadFails, UploadAnswers, CodeWhenGone, TypeOK
    <3> QED
      BY <3>1, <3>2
  <2>5. CASE UploadRecorded(u)
    <3>1. CASE Active
      BY <2>2, <2>5, <3>1, EndsType DEF UploadRecorded, TypeOK
    <3>2. CASE ~ Active
      BY <2>5, <3>2 DEF UploadRecorded, UploadAnswers, CodeWhenGone, TypeOK
    <3> QED
      BY <3>1, <3>2
  <2>6. CASE UploadThrows(u)
    <3>1. UploadAnswers(u, 0)
      BY <2>6 DEF UploadThrows
    <3> QED
      BY <2>6, <3>1, AnswersType DEF UploadThrows, TypeOK
  <2> QED
    BY <1>6, <2>3, <2>4, <2>5, <2>6 DEF UploadHandler
<1>7. ASSUME NEW sel \in SUBSET File, Accept(sel) PROVE TypeOK'
  <2>1. session.id \in Req
    BY <1>7 DEF Accept, TypeOK, Active, Session
  <2>2. session' \in Session
    BY <1>7, <2>1, SelectedType DEF Accept
  <2> QED
    BY <1>7, <2>1, <2>2 DEF Accept, TypeOK
<1>8. CASE Decline
  <2>1. session.id \in Req
    BY <1>8 DEF Decline, TypeOK, Active, Session
  <2> QED
    BY <1>8, <2>1 DEF Decline, PrepareAnswers, TypeOK
<1>9. CASE CloseCanceled \/ ExitProgress
  BY <1>9 DEF CloseCanceled, ExitProgress, TypeOK
<1>10. CASE Stop \/ Start
  <2>1. attempts' \in [Ip -> 0 .. MaxAttempts]
    BY <1>10 DEF Stop, Start, TypeOK, MaxAttempts
  <2>2. running' \in BOOLEAN
    BY <1>10 DEF Stop, Start
  <2> QED
    BY <1>10, <2>1, <2>2 DEF Stop, Start, TypeOK
<1> QED
  BY <1>1, <1>2, <1>3, <1>4, <1>5, <1>6, <1>7, <1>8, <1>9, <1>10 DEF Next, User

(* The server starts without a session and without uploads.                *)
LEMMA InitType == Init => TypeOK
BY ReqAssumption DEF Init, TypeOK, MaxAttempts

(* TypeOK holds in every reachable state.                                  *)
THEOREM TypeCorrect == Spec => []TypeOK
BY InitType, TypeStep, PTL DEF Spec

-----------------------------------------------------------------------------
(* The safety of the receiver.                                             *)

(* A file id names the request that offers it.                             *)
LEMMA FileNamesRequest ==
  ASSUME NEW r \in Req, NEW q \in Req, NEW f \in FilesOf[r], f \in FilesOf[q]
  PROVE  r = q
BY ReqAssumption

(* Steps that touch neither uploads nor grants, and at most drop the       *)
(* session.                                                                *)
LEMMA Dropped ==
  ASSUME IInv, TypeOK', UNCHANGED <<up, granted, saved>>,
         session' = session \/ session' = NoSession,
         \A r \in Req : prep'[r] \in {"idle", "checked"} => prep[r] \in {"idle", "checked"}
  PROVE  IInv'
<1>1. CASE session' = NoSession
  BY <1>1 DEF IInv, Known, Tokens, Ungranted, Progress, Evidence, OnlyGrantedSaved,
              AckMeansSaved, FinishedMeansSaved, Active, Receiving
<1>2. CASE session' = session
  <2>1. Active => session.id \in Req
    BY DEF IInv, TypeOK, Active, Session
  <2>2. Known'
    BY <1>2, <2>1 DEF IInv, Known, Active
  <2>3. Ungranted'
    BY <1>2 DEF IInv, Ungranted, Active
  <2>4. (Tokens /\ Progress /\ Evidence)'
    BY <1>2 DEF IInv, Tokens, Progress, Evidence, Active, Receiving
  <2> QED
    BY <1>2, <2>2, <2>3, <2>4
    DEF IInv, OnlyGrantedSaved, AckMeansSaved, FinishedMeansSaved, Active
<1> QED
  BY <1>1, <1>2

(* An upload in progress that finds its file in the stored session belongs *)
(* to that session.                                                        *)
LEMMA OwnSession ==
  ASSUME IInv, NEW u \in Upload, up[u].pc \in {"saving", "history"},
         Active, up[u].file \in Files(session)
  PROVE  /\ up[u].req = session.id
         /\ up[u].file \in FilesOf[session.id]
         /\ <<session.id, up[u].file>> \in granted
<1>1. session \in Session /\ session.id \in Req /\ up[u].req \in Req /\ up[u].file \in File
  BY DEF IInv, TypeOK, Active, Session
<1>2. up[u].file \in FilesOf[session.id]
  BY <1>1 DEF IInv, Known, Files
<1>3. up[u].file \in FilesOf[up[u].req]
  BY DEF IInv, Progress
<1>4. up[u].req = session.id
  BY <1>1, <1>2, <1>3, FileNamesRequest
<1>5. <<up[u].req, up[u].file>> \in granted
  BY DEF IInv, OnlyGrantedSaved
<1> QED
  BY <1>2, <1>4, <1>5

(* /prepare-upload stores a session.                                       *)
LEMMA RegistersSafe ==
  ASSUME IInv, TypeOK', NEW r \in Req, PrepareRegisters(r)
  PROVE  IInv'
<1>1. /\ session' # NoSession /\ session' \in Session /\ session'.id = r
      /\ prep'[r] \in {"waiting", "granted"}
      /\ \A q \in Req \ {r} : prep'[q] = prep[q]
      /\ UNCHANGED <<up, saved>>
      /\ granted \subseteq granted'
  <2>1. CASE r \in QuickReq
    <3>1. session' = Selected(r, FilesOf[r])
      BY <2>1 DEF PrepareRegisters
    <3>2. session' # NoSession /\ session' \in Session /\ session'.id = r
      BY <3>1, SelectedType DEF Selected
    <3> QED
      BY <2>1, <3>2 DEF IInv, TypeOK, PrepareRegisters
  <2>2. CASE r \notin QuickReq
    <3>1. session' # NoSession /\ session' \in Session /\ session'.id = r
      BY <2>2, WaitingType DEF PrepareRegisters
    <3> QED
      BY <2>2, <3>1 DEF IInv, TypeOK, PrepareRegisters
  <2> QED
    BY <2>1, <2>2
<1>2. \A f \in File : <<r, f>> \notin granted
  BY DEF IInv, Ungranted, PrepareRegisters
<1>3. /\ session'.status = "waiting" \/ session'.status = "sending"
      /\ \A f \in File : f \in FilesOf[r] => session'.files[f] = "queue"
      /\ \A f \in File : f \notin FilesOf[r] => session'.files[f] = "none"
      /\ session'.status = "waiting" => granted' = granted
      /\ session'.status = "sending" => granted' = granted \cup ({r} \X FilesOf[r])
  BY DEF PrepareRegisters, Selected
<1>4. \A q \in Req : \A f \in File : q # r => (<<q, f>> \in granted' => <<q, f>> \in granted)
  BY <1>3
<1>5. Known'
  BY <1>1, <1>3 DEF Known, Active
<1>6. Tokens'
  <2>1. FilesOf[r] \subseteq File
    BY ReqAssumption
  <2>2. \A f \in FilesOf[r] : session'.files[f] = "queue"
    BY <1>3, <2>1
  <2>3. session'.status = "sending" => \A f \in FilesOf[r] : <<r, f>> \in granted'
    BY <1>3
  <2> QED
    BY <1>1, <1>3, <2>2, <2>3 DEF Tokens, Receiving, AllowedStates
<1>7. Ungranted'
  BY <1>1, <1>2, <1>3, <1>4 DEF IInv, Ungranted, Active
<1>8. Progress' /\ OnlyGrantedSaved' /\ AckMeansSaved'
  BY <1>1 DEF IInv, Progress, OnlyGrantedSaved, AckMeansSaved
<1>9. Evidence' /\ FinishedMeansSaved'
  BY <1>1, <1>3 DEF Evidence, FinishedMeansSaved, Active
<1> QED
  BY <1>5, <1>6, <1>7, <1>8, <1>9 DEF IInv

(* The user accepts.                                                       *)
LEMMA AcceptSafe ==
  ASSUME IInv, TypeOK', NEW sel \in SUBSET File, Accept(sel)
  PROVE  IInv'
<1> DEFINE r == session.id
<1>1. r \in Req /\ session' = Selected(r, sel) /\ session' # NoSession
  BY SelectedType DEF IInv, TypeOK, Accept, Active, Session
<1>2. /\ session'.id = r /\ session'.status = "sending"
      /\ \A f \in File : session'.files[f] = IF f \notin FilesOf[r] THEN "none"
                                            ELSE IF f \in sel THEN "queue" ELSE "skipped"
  BY <1>1 DEF Selected
<1>3. /\ prep'[r] = "granted" /\ \A q \in Req \ {r} : prep'[q] = prep[q]
      /\ granted' = granted \cup ({r} \X sel)
      /\ UNCHANGED <<up, saved>>
      /\ sel \subseteq FilesOf[r]
  BY <1>1 DEF IInv, TypeOK, Accept
<1>4. \A f \in File : <<r, f>> \notin granted
  BY DEF IInv, Ungranted, Accept
<1> HIDE DEF r
<1>5. \A q \in Req : \A f \in File : q # r => (<<q, f>> \in granted' => <<q, f>> \in granted)
  BY <1>3
<1>6. FilesOf[r] \subseteq File
  BY <1>1, ReqAssumption
<1>7. \A f \in File : <<r, f>> \in granted' <=> f \in sel
  BY <1>3, <1>4
<1>8. Known'
  BY <1>1, <1>2, <1>3 DEF Known, Active
<1>9. Tokens'
  BY <1>2, <1>6, <1>7 DEF Tokens
<1>10. Ungranted'
  BY <1>2, <1>3, <1>5 DEF IInv, Ungranted
<1>11. Progress' /\ OnlyGrantedSaved' /\ AckMeansSaved'
  BY <1>3 DEF IInv, Progress, OnlyGrantedSaved, AckMeansSaved
<1>12. Evidence' /\ FinishedMeansSaved'
  BY <1>2 DEF Evidence, FinishedMeansSaved
<1> QED
  BY <1>8, <1>9, <1>10, <1>11, <1>12 DEF IInv

(* The sender cancels.                                                     *)
LEMMA CancelSafe ==
  ASSUME IInv, TypeOK', NEW r \in Req, Cancel(IpOf[r], r)
  PROVE  IInv'
<1>1. session \in Session /\ Active /\ session' \in Session
  BY DEF IInv, TypeOK, Cancel, CancelAllowed, Active, Session, SessionStatus
<1>2. /\ session'.id = session.id /\ session'.status = "canceledBySender"
      /\ session'.files = session.files
      /\ UNCHANGED <<prep, up, granted, saved>>
  BY <1>1 DEF Cancel, Session
<1>3. Known' /\ Evidence'
  BY <1>1, <1>2 DEF IInv, Known, Evidence
<1>4. Tokens' /\ FinishedMeansSaved'
  BY <1>2 DEF Tokens, Receiving, AllowedStates, FinishedMeansSaved
<1>5. Ungranted' /\ Progress' /\ OnlyGrantedSaved' /\ AckMeansSaved'
  BY <1>2 DEF IInv, Ungranted, Progress, OnlyGrantedSaved, AckMeansSaved
<1> QED
  BY <1>3, <1>4, <1>5 DEF IInv

(* An /upload request is admitted.                                         *)
LEMMA StartsSafe ==
  ASSUME IInv, TypeOK', NEW u \in Upload, NEW r \in Req, NEW f \in FilesOf[r],
         UploadStarts(u, r, f)
  PROVE  IInv'
<1>1. session \in Session /\ Active /\ session.id = r /\ f \in File
  BY ReqAssumption DEF IInv, TypeOK, UploadStarts, TokenValid, Active
<1>2. /\ session'.id = r /\ session'.status = "sending" /\ session' # NoSession
      /\ session'.files = [session.files EXCEPT ![f] = "sending"]
      /\ session.files \in [File -> FileStatus]
  <2>1. session' = [session EXCEPT !.files[f] = "sending", !.status = "sending"]
    BY DEF UploadStarts
  <2>2. session' \in Session
    BY <1>1, <2>1 DEF Session, SessionStatus, FileStatus
  <2>3. session'.id = r /\ session'.status = "sending"
    BY <1>1, <2>1 DEF Session
  <2>4. session'.files = [session.files EXCEPT ![f] = "sending"]
    BY <1>1, <2>1 DEF Session
  <2>5. session.files \in [File -> FileStatus]
    BY <1>1 DEF Session
  <2> QED
    BY <2>2, <2>3, <2>4, <2>5, SessionAssumption
<1>3. /\ up'[u] = [pc |-> "saving", req |-> r, file |-> f, code |-> 0]
      /\ \A v \in Upload \ {u} : up'[v] = up[v]
      /\ up[u].pc = "idle"
      /\ UNCHANGED <<prep, granted, saved>>
  BY DEF IInv, TypeOK, UploadStarts
<1>4. u \notin saved
  BY <1>3 DEF IInv, Progress
<1>5. saved \subseteq Upload
  BY DEF IInv, TypeOK
<1>6. Receiving /\ session.files[f] # "skipped"
  BY <1>1 DEF UploadStarts, Receiving, StateAllowsUpload, TokenValid
<1>7. <<r, f>> \in granted
  BY <1>1, <1>6 DEF IInv, Tokens
<1>8. Known'
  BY <1>1, <1>2, <1>3 DEF IInv, Known
<1>9. Tokens'
  BY <1>1, <1>2, <1>3, <1>6, <1>7, ReqAssumption DEF IInv, Tokens
<1>10. Ungranted'
  BY <1>2, <1>3 DEF IInv, Ungranted
<1>11. Progress' /\ OnlyGrantedSaved' /\ AckMeansSaved'
  BY <1>3, <1>4, <1>7 DEF IInv, Progress, OnlyGrantedSaved, AckMeansSaved
<1>12. Evidence'
  <2> SUFFICES ASSUME NEW g \in File, session'.files[g] = "finished"
               PROVE  \E v \in saved' : up'[v].req = r /\ up'[v].file = g
    BY <1>2 DEF Evidence
  <2>1. session.files[g] = "finished"
    BY <1>2
  <2>2. \E v \in saved : up[v].req = r /\ up[v].file = g
    BY <1>1, <2>1 DEF IInv, Evidence
  <2> QED
    BY <1>3, <1>4, <1>5, <2>2
<1>13. FinishedMeansSaved'
  BY <1>2 DEF FinishedMeansSaved
<1> QED
  BY <1>8, <1>9, <1>10, <1>11, <1>12, <1>13 DEF IInv

(* An /upload request is refused.                                          *)
LEMMA RefusedSafe ==
  ASSUME IInv, TypeOK', NEW u \in Upload, NEW r \in Req, NEW f \in FilesOf[r],
         UploadRefused(u, r, f)
  PROVE  IInv'
<1>1. /\ up'[u].pc = "done" /\ up'[u].code # 200
      /\ \A v \in Upload \ {u} : up'[v] = up[v]
      /\ up[u].pc = "idle"
      /\ UNCHANGED <<session, prep, granted, saved>>
  BY DEF IInv, TypeOK, UploadRefused
<1>2. u \notin saved /\ saved \subseteq Upload
  BY <1>1 DEF IInv, Progress, TypeOK
<1>3. \A v \in saved : up'[v] = up[v]
  BY <1>1, <1>2
<1>4. Known' /\ Tokens' /\ Ungranted'
  BY <1>1 DEF IInv, Known, Tokens, Ungranted, Active, Receiving
<1>5. Progress' /\ OnlyGrantedSaved' /\ AckMeansSaved'
  BY <1>1, <1>2 DEF IInv, Progress, OnlyGrantedSaved, AckMeansSaved
<1>6. Evidence'
  BY <1>1, <1>3 DEF IInv, Evidence, Active
<1>7. FinishedMeansSaved'
  BY <1>1, <1>3 DEF IInv, FinishedMeansSaved, Active
<1> QED
  BY <1>4, <1>5, <1>6, <1>7 DEF IInv

(* An upload that is answered while the session is left alone, with        *)
(* anything but 200.                                                       *)
LEMMA UnansweredSafe ==
  ASSUME IInv, TypeOK', NEW u \in Upload, up[u].pc \in {"saving", "history"},
         NEW code \in {0, 500}, UploadAnswers(u, code),
         UNCHANGED <<session, prep, granted>>,
         saved' = saved \/ saved' = saved \cup {u}
  PROVE  IInv'
<1>1. /\ up'[u].pc = "done" /\ up'[u].code = code
      /\ up'[u].req = up[u].req /\ up'[u].file = up[u].file
      /\ \A v \in Upload \ {u} : up'[v] = up[v]
  BY AnswersType DEF IInv
<1>2. saved \subseteq Upload /\ saved \subseteq saved'
  BY DEF IInv, TypeOK
<1>3. \A v \in saved : up'[v].req = up[v].req /\ up'[v].file = up[v].file
  BY <1>1, <1>2
<1>4. Known' /\ Tokens' /\ Ungranted'
  BY DEF IInv, Known, Tokens, Ungranted, Active, Receiving
<1>5. Progress'
  BY <1>1 DEF IInv, Progress
<1>6. OnlyGrantedSaved'
  BY <1>1 DEF IInv, OnlyGrantedSaved
<1>7. AckMeansSaved'
  BY <1>1 DEF IInv, AckMeansSaved
<1>8. Evidence'
  BY <1>2, <1>3 DEF IInv, Evidence, Active
<1>9. FinishedMeansSaved'
  BY <1>2, <1>3 DEF IInv, FinishedMeansSaved, Active
<1> QED
  BY <1>4, <1>5, <1>6, <1>7, <1>8, <1>9 DEF IInv

(* saveFile returned and the session takes the file.                       *)
LEMMA MarkedSafe ==
  ASSUME IInv, TypeOK', NEW u \in Upload, up[u].pc = "saving",
         Receiving, up[u].file \in Files(session),
         session' = Marked(session, up[u].file, "finished"),
         up' = [up EXCEPT ![u].pc = "history"],
         saved' = saved \cup {u},
         UNCHANGED <<prep, granted>>
  PROVE  IInv'
<1> DEFINE f == up[u].file
<1>1. session \in Session /\ Active /\ f \in File /\ session.id \in Req
  BY DEF IInv, TypeOK, Receiving, Active, Session
<1>2. /\ session'.id = session.id /\ session'.status = session.status
      /\ session' # NoSession
      /\ session'.files = [session.files EXCEPT ![f] = "finished"]
      /\ session.files \in [File -> FileStatus]
  <2>1. "finished" \in FileStatus
    BY DEF FileStatus
  <2> QED
    BY <1>1, <2>1, MarkedType, SessionAssumption DEF Session
<1>3. /\ up'[u].pc = "history" /\ up'[u].code = up[u].code
      /\ up'[u].req = up[u].req /\ up'[u].file = f
      /\ \A v \in Upload \ {u} : up'[v] = up[v]
  BY DEF IInv, TypeOK
<1>4. f \in FilesOf[session.id] /\ <<session.id, f>> \in granted /\ up[u].req = session.id
  BY <1>1, OwnSession
<1>5. saved \subseteq Upload
  BY DEF IInv, TypeOK
<1>6. \A v \in saved : up'[v].req = up[v].req /\ up'[v].file = up[v].file
  BY <1>3, <1>5
<1> HIDE DEF f
<1>7. Known'
  BY <1>1, <1>2, <1>4 DEF IInv, Known
<1>8. Tokens'
  BY <1>1, <1>2, <1>4, ReqAssumption DEF IInv, Tokens
<1>9. Ungranted'
  BY <1>1, <1>2 DEF IInv, Ungranted
<1>10. up[u].code = 0
  BY DEF IInv, Progress
<1>11. Progress'
  BY <1>3, <1>4, <1>10 DEF IInv, Progress, f
<1>12. OnlyGrantedSaved'
  BY <1>3, <1>4 DEF IInv, OnlyGrantedSaved
<1>13. AckMeansSaved'
  BY <1>3 DEF IInv, AckMeansSaved
<1>14. Evidence'
  <2> SUFFICES ASSUME NEW g \in File, session'.files[g] = "finished"
               PROVE  \E v \in saved' : up'[v].req = session.id /\ up'[v].file = g
    BY <1>2 DEF Evidence
  <2>1. CASE g = f
    BY <1>3, <1>4, <2>1
  <2>2. CASE g # f
    <3>1. session.files[g] = "finished"
      BY <1>2, <2>2
    <3>2. \E v \in saved : up[v].req = session.id /\ up[v].file = g
      BY <1>1, <3>1 DEF IInv, Evidence
    <3> QED
      BY <1>6, <3>2
  <2> QED
    BY <2>1, <2>2
<1>15. FinishedMeansSaved'
  BY <1>2 DEF FinishedMeansSaved, Receiving, AllowedStates
<1> QED
  BY <1>7, <1>8, <1>9, <1>11, <1>12, <1>13, <1>14, <1>15 DEF IInv

(* The tail of the handler: the file is marked as failed or left as it is, *)
(* the session settles, and the upload is answered.                        *)
LEMMA EndsSafe ==
  ASSUME IInv, TypeOK', NEW u \in Upload, up[u].pc \in {"saving", "history"}, Active,
         NEW s \in Session, Ends(u, s), s.id = session.id, s.status = session.status,
         \A g \in File : (s.files[g] = "none" <=> session.files[g] = "none"),
         \A g \in File : s.files[g] = "finished" => session.files[g] = "finished",
         Receiving => \A g \in FilesOf[s.id] :
           (s.files[g] # "skipped" <=> session.files[g] # "skipped"),
         s.files[up[u].file] = "finished" => up[u].pc = "history",
         UNCHANGED <<prep, granted, saved>>
  PROVE  IInv'
<1>1. /\ session' = Settled(s) /\ session' \in Session /\ session' # NoSession
      /\ session'.id = session.id /\ session'.files = s.files
      /\ s.id \in Req
  BY SettledType, SessionAssumption DEF Ends, Session
<1>2. /\ session'.status = session.status \/ Receiving
      /\ Receiving => session'.status \in AllowedStates \cup {"finished"}
      /\ Receiving /\ session'.status = "finished" =>
           \A g \in File : s.files[g] \in {"none", "skipped", "finished"}
  BY <1>1, SettledType DEF Receiving
<1>3. FilesOf[s.id] \subseteq File
  BY <1>1, ReqAssumption
<1>4. UploadCode(Settled(s), up[u].file) = 200 => s.files[up[u].file] = "finished"
  BY <1>1 DEF UploadCode
<1>5. UploadCode(Settled(s), up[u].file) \in {0, 200, 403, 409, 500}
  BY DEF UploadCode
<1>6. /\ up'[u].pc = "done" /\ up'[u].code = UploadCode(Settled(s), up[u].file)
      /\ up'[u].req = up[u].req /\ up'[u].file = up[u].file
      /\ \A v \in Upload \ {u} : up'[v] = up[v]
  BY <1>5, AnswersType DEF IInv, Ends
<1>7. \A v \in saved : up'[v].req = up[v].req /\ up'[v].file = up[v].file
  BY <1>6 DEF IInv, TypeOK
<1>8. Known'
  BY <1>1 DEF IInv, Known
<1>9. Receiving' => Receiving
  BY <1>2 DEF Receiving
<1>10. Tokens'
  BY <1>1, <1>9 DEF IInv, Tokens
<1>11. Ungranted'
  <2>1. session'.status = "waiting" => session.status = "waiting"
    BY <1>2 DEF AllowedStates
  <2> QED
    BY <1>1, <2>1 DEF IInv, Ungranted
<1>12. Progress'
  BY <1>6 DEF IInv, Progress
<1>13. OnlyGrantedSaved'
  BY <1>6 DEF IInv, OnlyGrantedSaved
<1>14. AckMeansSaved'
  BY <1>4, <1>6 DEF IInv, AckMeansSaved, Progress
<1>15. Evidence'
  <2> SUFFICES ASSUME NEW g \in File, session'.files[g] = "finished"
               PROVE  \E v \in saved' : up'[v].req = session.id /\ up'[v].file = g
    BY <1>1 DEF Evidence
  <2>1. session.files[g] = "finished"
    BY <1>1
  <2>2. \E v \in saved : up[v].req = session.id /\ up[v].file = g
    BY <2>1 DEF IInv, Evidence
  <2> QED
    BY <1>7, <2>2
<1>16. FinishedMeansSaved'
  <2> SUFFICES ASSUME session'.status = "finished", NEW g \in FilesOf[session.id],
                      <<session.id, g>> \in granted
               PROVE  \E v \in saved' : up'[v].req = session.id /\ up'[v].file = g
    BY <1>1 DEF FinishedMeansSaved
  <2>1. CASE session.status = "finished"
    <3>1. \E v \in saved : up[v].req = session.id /\ up[v].file = g
      BY <2>1 DEF IInv, FinishedMeansSaved
    <3> QED
      BY <1>7, <3>1
  <2>2. CASE session.status # "finished"
    <3>1. Receiving /\ g \in File
      BY <1>2, <1>3, <2>2
    <3>2. session.files[g] # "skipped" /\ session.files[g] # "none"
      BY <3>1 DEF IInv, Tokens, Known
    <3>3. s.files[g] = "finished"
      BY <1>2, <3>1, <3>2
    <3>4. session'.files[g] = "finished"
      BY <1>1, <3>3
    <3> QED
      BY <1>1, <1>15, <3>1, <3>4 DEF Evidence, Active
  <2> QED
    BY <2>1, <2>2
<1> QED
  BY <1>8, <1>10, <1>11, <1>12, <1>13, <1>14, <1>15, <1>16 DEF IInv

(* The handlers of /upload after their first await.                        *)
LEMMA HandlerSafe ==
  ASSUME IInv, TypeOK', NEW u \in Upload, UploadHandler(u)
  PROVE  IInv'
<1> DEFINE f == up[u].file
<1>1. f \in File /\ (Active => session \in Session)
  BY DEF IInv, TypeOK, Active
<1>2. CASE UploadSaved(u)
  <2>1. CASE Receiving /\ f \in Files(session)
    BY <1>2, <2>1, MarkedSafe DEF UploadSaved
  <2>2. CASE ~ (Receiving /\ f \in Files(session))
    BY <1>2, <2>2, UnansweredSafe DEF UploadSaved, CodeWhenGone
  <2> QED
    BY <2>1, <2>2
<1>3. CASE UploadFails(u)
  <2>1. CASE Active /\ f \in Files(session)
    <3> DEFINE s == Marked(session, f, "failed")
    <3>1. Ends(u, s) /\ UNCHANGED <<prep, granted, saved>> /\ up[u].pc \in {"saving", "history"}
      BY <1>3, <2>1 DEF UploadFails
    <3>2. "failed" \in FileStatus
      BY DEF FileStatus
    <3>3. /\ s \in Session /\ s.id = session.id /\ s.status = session.status
          /\ s.files = [session.files EXCEPT ![f] = "failed"]
      BY <1>1, <2>1, <3>2, MarkedType
    <3>4. session.files \in [File -> FileStatus] /\ session.id \in Req
      BY <1>1, <2>1 DEF Session
    <3>5. f \in FilesOf[session.id] /\ <<session.id, f>> \in granted
      BY <2>1, <3>1, OwnSession
    <3>6. session.files[f] # "none"
      BY <2>1 DEF Files
    <3>7. Receiving => session.files[f] # "skipped"
      BY <3>5 DEF IInv, Tokens
    <3>8. FilesOf[session.id] \subseteq File
      BY <3>4, ReqAssumption
    <3> HIDE DEF s, f
    <3>9. \A g \in File : (s.files[g] = "none" <=> session.files[g] = "none")
      BY <3>3, <3>4, <3>6
    <3>10. \A g \in File : s.files[g] = "finished" => session.files[g] = "finished"
      BY <3>3, <3>4
    <3>11. Receiving => \A g \in FilesOf[s.id] :
             (s.files[g] # "skipped" <=> session.files[g] # "skipped")
      BY <3>3, <3>4, <3>7, <3>8
    <3>12. s.files[f] # "finished"
      BY <1>1, <3>3, <3>4
    <3> QED
      BY <2>1, <3>1, <3>3, <3>9, <3>10, <3>11, <3>12, EndsSafe DEF f
  <2>2. CASE ~ (Active /\ f \in Files(session))
    BY <1>3, <2>2, UnansweredSafe DEF UploadFails, CodeWhenGone
  <2> QED
    BY <2>1, <2>2
<1>4. CASE UploadRecorded(u)
  <2>1. CASE Active
    BY <1>1, <1>4, <2>1, EndsSafe DEF UploadRecorded
  <2>2. CASE ~ Active
    BY <1>4, <2>2, UnansweredSafe DEF UploadRecorded, CodeWhenGone
  <2> QED
    BY <2>1, <2>2
<1>5. CASE UploadThrows(u)
  BY <1>5, UnansweredSafe DEF UploadThrows
<1> QED
  BY <1>2, <1>3, <1>4, <1>5 DEF UploadHandler

(* Every step preserves the inductive invariant.                           *)
LEMMA SafeStep ==
  IInv /\ [Next]_vars => IInv'
<1> SUFFICES ASSUME IInv, [Next]_vars PROVE IInv'
  OBVIOUS
<1>1. TypeOK /\ TypeOK'
  BY TypeStep DEF IInv
<1>2. CASE UNCHANGED vars
  BY <1>1, <1>2, Dropped DEF vars
<1>3. ASSUME NEW r \in Req, PrepareHandler(r) PROVE IInv'
  <2>1. CASE PrepareRegisters(r)
    BY <1>1, <2>1, RegistersSafe
  <2>2. CASE ~ PrepareRegisters(r)
    <3>1. UNCHANGED <<session, up, granted, saved>>
      BY <1>3, <2>2 DEF PrepareHandler, PrepareBlocked, PreparePin, PrepareChecked,
                        PrepareMalformed, PrepareResponds, PrepareThrows
    <3>2. prep' = [prep EXCEPT ![r] = "done"]
          \/ (prep[r] = "idle" /\ prep' = [prep EXCEPT ![r] = "checked"])
      BY <1>3, <2>2 DEF PrepareHandler, PrepareBlocked, PreparePin, PrepareChecked,
                        PrepareMalformed, PrepareResponds, PrepareThrows, PrepareAnswers
    <3>3. \A q \in Req : prep'[q] \in {"idle", "checked"} => prep[q] \in {"idle", "checked"}
      BY <1>1, <3>2 DEF TypeOK
    <3> QED
      BY <1>1, <3>1, <3>3, Dropped
  <2> QED
    BY <2>1, <2>2
<1>4. ASSUME NEW r \in Req, DelayedClose(r) PROVE IInv'
  BY <1>1, <1>4, Dropped DEF DelayedClose
<1>5. ASSUME NEW r \in Req, Cancel(IpOf[r], r) PROVE IInv'
  BY <1>1, <1>5, CancelSafe
<1>6. ASSUME NEW u \in Upload, UploadRequest(u) PROVE IInv'
  BY <1>1, <1>6, StartsSafe, RefusedSafe DEF UploadRequest
<1>7. ASSUME NEW u \in Upload, UploadHandler(u) PROVE IInv'
  BY <1>1, <1>7, HandlerSafe
<1>8. ASSUME NEW sel \in SUBSET File, Accept(sel) PROVE IInv'
  BY <1>1, <1>8, AcceptSafe
<1>9. CASE Decline
  <2>1. \A q \in Req : prep'[q] \in {"idle", "checked"} => prep[q] \in {"idle", "checked"}
    BY <1>1, <1>9 DEF TypeOK, Decline, PrepareAnswers
  <2> QED
    BY <1>1, <1>9, <2>1, Dropped DEF Decline
<1>10. CASE CloseCanceled \/ ExitProgress \/ Stop \/ Start
  BY <1>1, <1>10, Dropped DEF CloseCanceled, ExitProgress, Stop, Start
<1> QED
  BY <1>2, <1>3, <1>4, <1>5, <1>6, <1>7, <1>8, <1>9, <1>10 DEF Next, User

(* The initial state satisfies the inductive invariant.                    *)
LEMMA InitSafe == Init => IInv
<1> SUFFICES ASSUME Init PROVE IInv
  OBVIOUS
<1>1. TypeOK
  BY InitType
<1>2. /\ ~ Active /\ granted = {} /\ saved = {}
      /\ \A u \in Upload : up[u].pc = "idle" /\ up[u].code = 0
  BY DEF Init, Active
<1> QED
  BY <1>1, <1>2 DEF IInv, Known, Tokens, Ungranted, Progress, Evidence, Receiving,
                    OnlyGrantedSaved, AckMeansSaved, FinishedMeansSaved

(* IInv holds in every reachable state.                                    *)
THEOREM ReceiverInvariant == Spec => []IInv
BY InitSafe, SafeStep, PTL DEF Spec

(* Whatever handlers interleave, sessions are replaced and servers         *)
(* restarted: bytes are written only for a file that was accepted in the   *)
(* session the upload names (the token check of _uploadHandler).           *)
THEOREM GrantedBeforeSaved == Spec => []OnlyGrantedSaved
<1>1. IInv => OnlyGrantedSaved
  BY DEF IInv
<1> QED
  BY <1>1, ReceiverInvariant, PTL

(* An upload that _uploadHandler answers with 200 has its bytes on disk.   *)
THEOREM AcknowledgedIsSaved == Spec => []AckMeansSaved
<1>1. IInv => AckMeansSaved
  BY DEF IInv
<1> QED
  BY <1>1, ReceiverInvariant, PTL

(* A session that the receiver shows as finished has every accepted file   *)
(* on disk, written by an upload of that session.                          *)
THEOREM FinishedIsSaved == Spec => []FinishedMeansSaved
<1>1. IInv => FinishedMeansSaved
  BY DEF IInv
<1> QED
  BY <1>1, ReceiverInvariant, PTL

-----------------------------------------------------------------------------
(* A step that keeps a finished or cancelled session keeps its status.     *)
LEMMA EndedStep ==
  ASSUME IInv, Next, Active, session.status \in {"finished", "canceledBySender"},
         session' # NoSession, session'.id = session.id
  PROVE  session'.status = session.status
<1>1. session \in Session /\ session.id \in Req
  BY DEF IInv, TypeOK, Active, Session
<1>2. session.status \notin AllowedStates
  BY DEF AllowedStates
<1>3. ASSUME NEW r \in Req, PrepareHandler(r) PROVE session'.status = session.status
  <2>1. CASE PrepareRegisters(r)
    <3>1. session'.id = r
      BY <2>1 DEF PrepareRegisters, Selected
    <3>2. prep[session.id] = "checked"
      BY <2>1, <3>1 DEF PrepareRegisters
    <3> QED
      BY <3>2 DEF IInv, Known
  <2>2. CASE ~ PrepareRegisters(r)
    BY <1>3, <2>2 DEF PrepareHandler, PrepareBlocked, PreparePin, PrepareChecked,
                      PrepareMalformed, PrepareResponds, PrepareThrows
  <2> QED
    BY <2>1, <2>2
<1>4. ASSUME NEW r \in Req, DelayedClose(r) PROVE session'.status = session.status
  BY <1>4 DEF DelayedClose
<1>5. ASSUME NEW r \in Req, Cancel(IpOf[r], r) PROVE session'.status = session.status
  BY <1>5 DEF Cancel, CancelAllowed
<1>6. ASSUME NEW u \in Upload, UploadRequest(u) PROVE session'.status = session.status
  BY <1>2, <1>6 DEF UploadRequest, UploadStarts, UploadRefused, StateAllowsUpload
<1>7. ASSUME NEW u \in Upload, UploadHandler(u) PROVE session'.status = session.status
  <2> DEFINE f == up[u].file
             s == Marked(session, f, "failed")
  <2>1. f \in File /\ "failed" \in FileStatus
    BY DEF IInv, TypeOK, FileStatus
  <2>2. s \in Session /\ s.status = session.status
    BY <1>1, <2>1, MarkedType
  <2>3. Settled(s).status = session.status /\ Settled(session) = session
    BY <1>1, <1>2, <2>2, SettledType
  <2> HIDE DEF s
  <2>4. session' \in {session, Settled(s), Settled(session)}
    BY <1>2, <1>7 DEF UploadHandler, UploadSaved, UploadFails, UploadRecorded, UploadThrows,
                      Ends, Receiving, s
  <2> QED
    BY <2>3, <2>4
<1>8. ASSUME NEW sel \in SUBSET File, Accept(sel) PROVE session'.status = session.status
  BY <1>8 DEF Accept
<1>9. CASE Decline \/ CloseCanceled \/ ExitProgress \/ Stop \/ Start
  BY <1>9 DEF Decline, CloseCanceled, ExitProgress, Stop, Start
<1> QED
  BY <1>3, <1>4, <1>5, <1>6, <1>7, <1>8, <1>9 DEF Next, User

(* "End of session": once finished or cancelled, a session keeps that      *)
(* status for as long as it is stored.                                     *)
THEOREM EndedForGood == Spec => EndIsFinal
<1>1. IInv /\ [Next]_vars =>
        [(Active /\ session.status \in {"finished", "canceledBySender"}
          /\ session' # NoSession /\ session'.id = session.id)
           => session'.status = session.status]_vars
  BY EndedStep
<1> QED
  BY <1>1, ReceiverInvariant, PTL DEF Spec, EndIsFinal
=============================================================================

--------------------------- MODULE TransferProofs ---------------------------
(***************************************************************************)
(* Theorems about SendSession, for any files, workers and retries, and     *)
(* about Transfer, for any receiver, requests and uploads.                 *)
(***************************************************************************)
EXTENDS Transfer, WellFoundedInduction, TLAPS

-----------------------------------------------------------------------------
(* The sender alone.                                                       *)

(* Until prepare-upload is answered the session is waiting or gone: the    *)
(* answer cannot find it ended.                                            *)
Unanswered == spc \in {"idle", "posted", "pin"} => sstatus \in {"none", "waiting"}

LEMMA InitUnanswered == SInit => Unanswered
BY DEF SInit, Unanswered

(* One step: the invariant is kept and no end state is left but to drop    *)
(* the session.                                                            *)
Kept == (sstatus \in EndStates /\ sstatus # "finishedWithErrors")
          => sstatus' \in {sstatus, "none"}

LEMMA NextUnanswered == Unanswered /\ [SNext]_svars => Unanswered' /\ Kept
<1> SUFFICES ASSUME Unanswered, [SNext]_svars PROVE Unanswered' /\ Kept OBVIOUS
<1> USE DEF Unanswered, Kept, EndStates
<1>1. CASE CreateSession BY <1>1 DEF CreateSession
<1>2. CASE Posted
  <2>1. ASSUME NEW code, PostRefused(code) PROVE Unanswered' /\ Kept
    BY <2>1 DEF PostRefused
  <2>2. CASE PostPinRequired \/ PinEntered \/ PinDismissed \/ PostNothing
    BY <2>2 DEF PostPinRequired, PinEntered, PinDismissed, PostNothing
  <2>3. ASSUME NEW sel, PostAccepted(sel) PROVE Unanswered' /\ Kept
    BY <2>3 DEF PostAccepted
  <2> QED BY <1>2, <2>1, <2>2, <2>3 DEF Posted
<1>3. CASE Uploads
  <2>1. ASSUME NEW w \in Worker, NEW ok \in BOOLEAN, TaskEnds(w, ok)
        PROVE  Unanswered' /\ Kept
    <3>1. \/ sstatus' = sstatus
          \/ sstatus = "sending" /\ sstatus' \in {"none", "finished", "finishedWithErrors"}
      BY <2>1 DEF TaskEnds, FinishStatus
    <3>2. spc' \in {spc, "end"} BY <2>1 DEF TaskEnds
    <3> QED BY <3>1, <3>2
  <2>2. ASSUME NEW f \in File, NEW ok \in BOOLEAN, RetryEnds(f, ok)
        PROVE  Unanswered' /\ Kept
    <3>1. \/ sstatus' = sstatus
          \/ sstatus = "sending" /\ sstatus' \in {"none", "finished", "finishedWithErrors"}
      BY <2>2 DEF RetryEnds, FinishStatus
    <3>2. spc' = spc BY <2>2 DEF RetryEnds
    <3> QED BY <3>1, <3>2
  <2> QED BY <1>3, <2>1, <2>2 DEF Uploads
<1>4. CASE SUser \/ CancelByReceiver
  BY <1>4 DEF SUser, CancelByUser, CloseSession, ClearAllSessions, SetBackground,
              CancelByReceiver
<1>5. ASSUME NEW f \in File, Retry(f) PROVE Unanswered' /\ Kept
  BY <1>5 DEF Retry, MaySend, AllowedStates
<1>6. CASE UNCHANGED svars BY <1>6 DEF svars
<1> QED BY <1>1, <1>2, <1>3, <1>4, <1>5, <1>6 DEF SNext

(* SEndIsFinal for every instance: no worker or retry that returns late,   *)
(* and no late answer, changes the status of a session that was cancelled, *)
(* refused or finished (sendFile, _finish and submitRequest of             *)
(* send_session_service.dart).                                             *)
THEOREM EndedForGood == SSpec => SEndIsFinal
<1>1. Unanswered /\ [SNext]_svars => [Kept]_svars BY NextUnanswered
<1>2. SInit /\ [][SNext]_svars => [][Kept]_svars
  BY InitUnanswered, NextUnanswered, <1>1, PTL
<1> QED BY <1>2 DEF SSpec, SEndIsFinal, Kept

-----------------------------------------------------------------------------
(* The shared queue.                                                       *)

(* A set of positions has a least one.                                     *)
LEMMA Least ==
  ASSUME NEW T, T \subseteq Nat, T # {}
  PROVE  \E m \in T : \A n \in T : m <= n
<1> DEFINE Lt == {ss \in Nat \X Nat : ss[1] < ss[2]}
<1>1. IsWellFoundedOn(Lt, Nat) BY NatLessThanWellFounded DEF OpToRel
<1>2. PICK m \in T : \A n \in T : ~ (<<n, m>> \in Lt)
  <2> HIDE DEF Lt
  <2> QED BY <1>1, WFMin
<1>3. \A n \in T : ~ (n < m) BY <1>2
<1> QED BY <1>3

(* removeFirst returns a file of the queue.                                *)
LEMMA FirstIn ==
  ASSUME NEW q, q \subseteq File, q # {}
  PROVE  First(q) \in q
<1>a. DOMAIN Offered \subseteq Nat BY SendAssumption
<1> DEFINE T == {k \in DOMAIN Offered : Offered[k] \in q}
<1>1. T # {} BY SendAssumption
<1>2. PICK m \in T : \A n \in T : m <= n
  <2> HIDE DEF T
  <2>1. T \subseteq Nat BY <1>a DEF T
  <2> QED BY <1>1, <2>1, Least
<1>3. \A g \in q : ~ Before(g, Offered[m])
  <2> SUFFICES ASSUME NEW j \in DOMAIN Offered, NEW k \in DOMAIN Offered,
                      j < k, Offered[j] \in q, Offered[k] = Offered[m]
               PROVE  FALSE
    BY DEF Before
  <2>1. k = m BY SendAssumption
  <2>2. m <= j BY <1>2
  <2> QED BY <1>a, <2>1, <2>2
<1>4. \E f \in q : \A g \in q : ~ Before(g, f) BY <1>3
<1> QED BY <1>4 DEF First

(* The files the workers take at first are different files of the session. *)
LEMMA FirstOfIn ==
  ASSUME NEW q, q \subseteq File
  PROVE  /\ \A w \in Worker : FirstOf(q, w) \in q \cup {NoFile}
         /\ \A v, w \in Worker :
              FirstOf(q, v) = FirstOf(q, w) /\ FirstOf(q, v) # NoFile => v = w
<1>1. ASSUME NEW w \in Worker
      PROVE  /\ FirstOf(q, w) \in q \cup {NoFile}
             /\ FirstOf(q, w) # NoFile => Ahead(q, FirstOf(q, w)) = w - 1
  <2>1. CASE \E f \in q : Ahead(q, f) = w - 1
    <3>1. FirstOf(q, w) = CHOOSE f \in q : Ahead(q, f) = w - 1 BY <2>1 DEF FirstOf
    <3> QED BY <2>1, <3>1
  <2>2. CASE ~ \E f \in q : Ahead(q, f) = w - 1 BY <2>2 DEF FirstOf
  <2> QED BY <2>1, <2>2
<1>2. ASSUME NEW v \in Worker, NEW w \in Worker,
             FirstOf(q, v) = FirstOf(q, w), FirstOf(q, v) # NoFile
      PROVE  v = w
  <2>1. v - 1 = w - 1 BY <1>1, <1>2
  <2>2. v \in Int /\ w \in Int BY SendAssumption DEF Worker
  <2> QED BY <2>1, <2>2
<1> QED BY <1>1, <1>2

-----------------------------------------------------------------------------
(* Type correctness.                                                       *)

(* The result of an upload is recorded as a status of its file.            *)
LEMMA RecordedType ==
  ASSUME STypeOK, NEW f \in File, NEW ok \in BOOLEAN
  PROVE  /\ Recorded(f, ok) \in [File -> {"queue", "skipped", "sending", "failed", "finished"}]
         /\ \A g \in File : Recorded(f, ok)[g] =
              IF g = f /\ Exists THEN Outcome(ok) ELSE sfiles[g]
         /\ Outcome(ok) \in {"finished", "failed"}
BY DEF STypeOK, Recorded, Outcome

(* _finish settles a session as finished, with or without errors, or drops *)
(* it.                                                                     *)
LEMMA FinishType ==
  ASSUME NEW files, NEW bg
  PROVE  /\ FinishStatus(files, bg) \in {"none", "finished", "finishedWithErrors"}
         /\ FinishStatus(files, bg) = "finished" => \A f \in File : files[f] # "failed"
BY DEF FinishStatus

(* Each step keeps the types.                                              *)
LEMMA STypeStep == STypeOK /\ [SNext]_svars => STypeOK'
<1> SUFFICES ASSUME STypeOK, [SNext]_svars PROVE STypeOK' OBVIOUS
<1>1. CASE CreateSession BY <1>1 DEF CreateSession, STypeOK
<1>2. CASE Posted
  <2>1. ASSUME NEW code, PostRefused(code) PROVE STypeOK'
    BY <2>1 DEF PostRefused, STypeOK, WithStatus, StatusOf, EndStates
  <2>2. CASE PostPinRequired \/ PinEntered \/ PinDismissed \/ PostNothing
    BY <2>2 DEF PostPinRequired, PinEntered, PinDismissed, PostNothing, STypeOK,
                WithStatus, EndStates
  <2>3. ASSUME NEW sel \in SUBSET File, PostAccepted(sel) PROVE STypeOK'
    <3>1. CASE ~ Exists BY <2>3, <3>1 DEF PostAccepted, STypeOK
    <3>2. CASE Exists
      <4>1. worker' \in [Worker -> File \cup {NoFile}]
        BY <2>3, <3>2, FirstOfIn DEF PostAccepted
      <4>2. queue' \subseteq File BY <2>3, <3>2 DEF PostAccepted, Rest
      <4>3. sfiles' \in [File -> {"queue", "skipped", "sending", "failed", "finished"}]
        BY <2>3, <3>2 DEF PostAccepted
      <4> QED BY <2>3, <3>2, <4>1, <4>2, <4>3 DEF PostAccepted, STypeOK
    <3> QED BY <3>1, <3>2
  <2> QED BY <1>2, <2>1, <2>2, <2>3 DEF Posted
<1>3. ASSUME NEW w \in Worker, NEW ok \in BOOLEAN, TaskEnds(w, ok) PROVE STypeOK'
  <2>1. worker[w] \in File BY <1>3 DEF TaskEnds, STypeOK
  <2>2. queue # {} => First(queue) \in queue BY FirstIn DEF STypeOK
  <2>3. queue' \subseteq File BY <1>3 DEF TaskEnds, Rest, STypeOK
  <2>4. worker' \in [Worker -> File \cup {NoFile}] BY <1>3, <2>2 DEF TaskEnds, STypeOK
  <2>5. sfiles' \in [File -> {"queue", "skipped", "sending", "failed", "finished"}]
    BY <1>3, <2>1, <2>2, RecordedType DEF TaskEnds
  <2>6. sstatus' \in {"none", "waiting", "sending"} \cup EndStates
    BY <1>3, FinishType DEF TaskEnds, STypeOK, EndStates
  <2>7. spc' \in {spc, "end"} /\ UNCHANGED <<remote, background, retrying, retries>>
    BY <1>3 DEF TaskEnds
  <2> QED BY <2>3, <2>4, <2>5, <2>6, <2>7 DEF STypeOK
<1>4. ASSUME NEW f \in File, NEW ok \in BOOLEAN, RetryEnds(f, ok) PROVE STypeOK'
  <2>1. sfiles' \in [File -> {"queue", "skipped", "sending", "failed", "finished"}]
    BY <1>4, RecordedType DEF RetryEnds
  <2>2. sstatus' \in {"none", "waiting", "sending"} \cup EndStates
    BY <1>4, FinishType DEF RetryEnds, STypeOK, EndStates
  <2> QED BY <1>4, <2>1, <2>2 DEF RetryEnds, STypeOK
<1>5. CASE SUser \/ CancelByReceiver
  BY <1>5 DEF SUser, CancelByUser, CloseSession, ClearAllSessions, SetBackground,
              CancelByReceiver, STypeOK, EndStates
<1>6. ASSUME NEW f \in File, Retry(f) PROVE STypeOK'
  BY <1>6, SendAssumption DEF Retry, STypeOK
<1>7. CASE UNCHANGED svars BY <1>7 DEF svars, STypeOK
<1> QED BY <1>1, <1>2, <1>3, <1>4, <1>5, <1>6, <1>7 DEF SNext, Uploads

-----------------------------------------------------------------------------
(* What is uploaded.                                                       *)

(* An upload of f is running.                                              *)
Sends(f) == (\E w \in Worker : worker[w] = f) \/ f \in retrying

(* UploadsExact, file by file.                                             *)
Exact ==
  /\ Exists => \A f \in File : sfiles[f] = "sending" <=> Sends(f)
  /\ \A v, w \in Worker : v # w /\ worker[v] # NoFile => worker[v] # worker[w]
  /\ \A w \in Worker : worker[w] \notin retrying
  /\ Exists => \A f \in queue : ~ Sends(f)

(* Before the answer of the receiver nothing has happened to the files.    *)
Untouched ==
  spc \in {"idle", "posted", "pin"} =>
    /\ queue = {} /\ retrying = {}
    /\ \A w \in Worker : worker[w] = NoFile
    /\ \A f \in File : sfiles[f] = "queue"

(* A queued file is shown as queued.                                       *)
Waits == Exists => \A f \in queue : sfiles[f] = "queue"

(* Without a retry, a session that sends still holds in its queue whatever *)
(* is shown as queued.                                                     *)
FirstRun ==
  retries = 0 =>
    /\ retrying = {}
    /\ sstatus = "sending" => \A f \in File : sfiles[f] = "queue" => f \in queue

IInv == STypeOK /\ Unanswered /\ Untouched /\ Exact /\ Waits /\ FirstRun /\ SentUnlessRetried

LEMMA ExactIs == STypeOK /\ Exact => UploadsExact
<1> SUFFICES ASSUME STypeOK, Exact PROVE UploadsExact OBVIOUS
<1>1. \A f : f \in Running <=> f # NoFile /\ Sends(f) BY DEF Running, Sends
<1>2. Running \subseteq File
  <2>1. retrying \subseteq File /\ \A w \in Worker : worker[w] \in File \cup {NoFile} BY DEF STypeOK
  <2> QED BY <2>1 DEF Running
<1>3. NoFile \notin File BY SendAssumption
<1>4. SendingIsRunning BY <1>1, <1>2, <1>3 DEF SendingIsRunning, Exact
<1>5. Exists => queue \cap Running = {} BY <1>1 DEF Exact
<1>6. NoFileTwice BY <1>5 DEF NoFileTwice, Exact
<1> QED BY <1>4, <1>6 DEF UploadsExact

LEMMA InitIInv == SInit => IInv
<1> SUFFICES ASSUME SInit PROVE IInv OBVIOUS
<1>1. STypeOK
  <2>1. 0 \in 0 .. MaxRetries BY SendAssumption
  <2>2. worker \in [Worker -> File \cup {NoFile}] BY DEF SInit
  <2>3. sfiles \in [File -> {"queue", "skipped", "sending", "failed", "finished"}] BY DEF SInit
  <2> QED BY <2>1, <2>2, <2>3 DEF SInit, STypeOK
<1>2. Untouched /\ Unanswered BY DEF SInit, Untouched, Unanswered
<1>3. ~ Exists /\ sstatus = "none" /\ retrying = {} BY DEF SInit, Exists
<1>4. \A v \in Worker : worker[v] = NoFile BY DEF SInit
<1> QED BY <1>1, <1>2, <1>3, <1>4 DEF IInv, Exact, Waits, FirstRun, SentUnlessRetried,
                                      FinishedMeansSent

(* A step that leaves files, queue and uploads alone, and neither starts   *)
(* nor finishes sending.                                                   *)
LEMMA Aside ==
  ASSUME IInv, STypeOK', Unanswered',
         UNCHANGED <<sfiles, queue, worker, retrying, retries>>,
         sstatus' \in {"finished", "sending"} => sstatus' = sstatus,
         sstatus = "none" /\ sstatus' # "none" => spc = "idle",
         spc' \in {"idle", "posted", "pin"} => spc \in {"idle", "posted", "pin"}
  PROVE  IInv'
<1> USE DEF IInv
<1>1. \A f : Sends(f)' = Sends(f) BY DEF Sends
<1>2. Untouched' BY DEF Untouched
<1>3. Exists' => Exists \/ spc = "idle" BY DEF Exists
<1>4. spc = "idle" => queue = {} /\ \A f \in File : ~ Sends(f) /\ sfiles[f] = "queue"
  <2>1. NoFile \notin File BY SendAssumption
  <2> QED BY <2>1 DEF Untouched, Sends
<1>5. Exact'
  <2>1. Exists' => \A f \in File : sfiles'[f] = "sending" <=> Sends(f)'
    BY <1>1, <1>3, <1>4 DEF Exact
  <2>2. Exists' => \A f \in queue' : ~ Sends(f)' BY <1>1, <1>3, <1>4 DEF Exact
  <2> QED BY <2>1, <2>2 DEF Exact
<1>6. Waits' BY <1>3, <1>4 DEF Waits
<1>7. FirstRun' /\ SentUnlessRetried' BY DEF FirstRun, SentUnlessRetried, FinishedMeansSent
<1> QED BY <1>2, <1>5, <1>6, <1>7

(* The workers start on a fresh session.                                   *)
LEMMA AcceptedStep ==
  ASSUME IInv, STypeOK', Unanswered', NEW sel \in SUBSET File, PostAccepted(sel), Exists
  PROVE  IInv'
<1> USE DEF IInv
<1>1. /\ spc' = "loop" /\ sstatus' = "sending" /\ retrying' = retrying /\ retries' = retries
      /\ worker' = [w \in Worker |-> FirstOf(sel, w)]
      /\ queue' = sel \ {worker'[w] : w \in Worker}
  BY DEF PostAccepted, Rest
<1>2. retrying = {} BY DEF PostAccepted, Untouched
<1>3. \A f \in File : sfiles'[f] = IF f \notin sel THEN "skipped"
                                   ELSE IF \E w \in Worker : worker'[w] = f THEN "sending"
                                   ELSE "queue"
  BY DEF PostAccepted
<1>4. \A f : Sends(f)' <=> \E w \in Worker : worker'[w] = f BY <1>1, <1>2 DEF Sends
<1>5. \A w \in Worker : worker'[w] \in sel \cup {NoFile} BY <1>1, FirstOfIn
<1>6. NoFile \notin File BY SendAssumption
<1>7. Exact'
  <2>1. \A f \in File : sfiles'[f] = "sending" <=> Sends(f)' BY <1>3, <1>4, <1>5, <1>6
  <2>2. \A v, w \in Worker : v # w /\ worker'[v] # NoFile => worker'[v] # worker'[w]
    BY <1>1, FirstOfIn
  <2>3. \A f \in queue' : ~ Sends(f)' BY <1>1, <1>4
  <2> QED BY <1>1, <1>2, <2>1, <2>2, <2>3 DEF Exact
<1>8. Waits' BY <1>1, <1>3 DEF Waits
<1>9. FirstRun' BY <1>1, <1>2, <1>3 DEF FirstRun
<1>10. Untouched' /\ SentUnlessRetried'
  BY <1>1 DEF Untouched, SentUnlessRetried, FinishedMeansSent
<1> QED BY <1>7, <1>8, <1>9, <1>10

(* A worker ends a file and takes the next, or is the last to end.         *)
LEMMA TaskStep ==
  ASSUME IInv, STypeOK', Unanswered', NEW w \in Worker, NEW ok \in BOOLEAN, TaskEnds(w, ok)
  PROVE  IInv'
<1> USE DEF IInv
<1> DEFINE f == worker[w]
           more == MaySend(sstatus) /\ queue # {}
           n == First(queue)
           last == ~ more /\ \A v \in Worker \ {w} : worker[v] = NoFile
<1>0. NoFile \notin File BY SendAssumption
<1>1. f \in File /\ f # NoFile BY DEF TaskEnds, STypeOK
<1>2. more => n \in queue /\ n \in File BY FirstIn DEF STypeOK
<1>3. /\ worker'[w] = (IF more THEN n ELSE NoFile)
      /\ \A v \in Worker \ {w} : worker'[v] = worker[v]
  BY DEF TaskEnds, STypeOK
<1>4. /\ queue' = (IF more THEN queue \ {n} ELSE {})
      /\ retrying' = retrying /\ retries' = retries /\ spc' \in {spc, "end"}
  BY DEF TaskEnds, Rest
<1>5. \A g \in File : sfiles'[g] = IF more /\ g = n THEN "sending"
                                   ELSE IF g = f /\ Exists THEN Outcome(ok) ELSE sfiles[g]
  <2>1. sfiles' = IF more THEN [Recorded(f, ok) EXCEPT ![n] = "sending"] ELSE Recorded(f, ok)
    BY DEF TaskEnds
  <2> QED BY <1>1, <2>1, RecordedType
<1>6. \/ sstatus' = sstatus
      \/ /\ last /\ sstatus = "sending"
         /\ sstatus' \in {"none", "finished", "finishedWithErrors"}
         /\ sstatus' = "finished" => \A g \in File : Recorded(f, ok)[g] # "failed"
  BY FinishType DEF TaskEnds
<1>7. Outcome(ok) \in {"finished", "failed"} BY DEF Outcome
<1>8. more => Exists BY DEF MaySend, AllowedStates, Exists
<1>9. Exists' => Exists BY <1>6 DEF Exists
<1>a. \A v \in Worker \ {w} : worker[v] # f BY <1>1 DEF Exact
<1>b. f \notin retrying BY DEF Exact
<1>c. more => ~ Sends(n) /\ n # f
  BY <1>2, <1>8 DEF Exact, Sends
<1> HIDE DEF more, n, f, last
<1>d. \A g \in File : Sends(g)' <=> (Sends(g) /\ g # f) \/ (more /\ g = n)
  <2>1. \A g \in File : (\E v \in Worker : worker'[v] = g)
                        <=> (\E v \in Worker \ {w} : worker[v] = g) \/ (more /\ g = n)
    BY <1>0, <1>3
  <2>2. \A g \in File : (Sends(g) /\ g # f)
                        <=> (\E v \in Worker \ {w} : worker[v] = g) \/ g \in retrying
    BY <1>a, <1>b DEF Sends, f
  <2> QED BY <1>4, <2>1, <2>2 DEF Sends
<1>10. Exact'
  <2>1. ASSUME Exists', NEW g \in File PROVE sfiles'[g] = "sending" <=> Sends(g)'
    <3>1. Exists /\ (sfiles[g] = "sending" <=> Sends(g)) BY <1>9, <2>1 DEF Exact
    <3>2. Outcome(ok) # "sending" BY <1>7
    <3>3. CASE more /\ g = n BY <1>5, <1>d, <3>3
    <3>4. CASE ~ (more /\ g = n) /\ g = f BY <1>5, <1>d, <3>1, <3>2, <3>4
    <3>5. CASE ~ (more /\ g = n) /\ g # f BY <1>5, <1>d, <3>1, <3>5
    <3> QED BY <3>3, <3>4, <3>5
  <2>2. ASSUME NEW u \in Worker, NEW v \in Worker, u # v, worker'[u] # NoFile
        PROVE  worker'[u] # worker'[v]
    <3>1. more => \A x \in Worker : worker[x] # n BY <1>c DEF Sends
    <3>2. CASE u = w BY <1>3, <2>2, <3>1, <3>2
    <3>3. CASE v = w BY <1>3, <2>2, <3>1, <3>3
    <3>4. CASE u # w /\ v # w BY <1>3, <2>2, <3>4 DEF Exact
    <3> QED BY <3>2, <3>3, <3>4
  <2>3. ASSUME NEW v \in Worker PROVE worker'[v] \notin retrying'
    <3>1. NoFile \notin retrying BY <1>0 DEF STypeOK
    <3>2. more => n \notin retrying BY <1>c DEF Sends
    <3> QED BY <1>3, <1>4, <3>1, <3>2 DEF Exact
  <2>4. ASSUME Exists', NEW g \in queue' PROVE ~ Sends(g)'
    <3>1. more /\ g \in queue /\ g # n BY <1>4, <2>4
    <3>2. ~ Sends(g) /\ g \in File BY <1>8, <3>1 DEF Exact, STypeOK
    <3> QED BY <1>d, <3>1, <3>2
  <2> QED BY <2>1, <2>2, <2>3, <2>4 DEF Exact
<1>11. Waits'
  <2> SUFFICES ASSUME Exists', NEW g \in queue' PROVE sfiles'[g] = "queue"
    BY DEF Waits
  <2>1. more /\ g \in queue /\ g # n /\ g \in File BY <1>4 DEF STypeOK
  <2>2. sfiles[g] = "queue" /\ ~ Sends(g) BY <1>8, <2>1 DEF Waits, Exact
  <2>3. g # f BY <2>2 DEF Sends, f
  <2> QED BY <1>5, <2>1, <2>2, <2>3
<1>12. Untouched'
  <2>1. spc \notin {"idle", "posted", "pin"} BY <1>1 DEF Untouched, f
  <2> QED BY <1>4, <2>1 DEF Untouched
<1>13. FirstRun'
  <2> SUFFICES ASSUME retries = 0, sstatus' = "sending",
                      NEW g \in File, sfiles'[g] = "queue"
               PROVE  g \in queue'
    BY <1>4 DEF FirstRun
  <2>1. sstatus = "sending" BY <1>6
  <2>2. Exists /\ MaySend(sstatus) BY <2>1 DEF Exists, MaySend, AllowedStates
  <2>3. sfiles[g] = "queue" /\ ~ (more /\ g = n) BY <1>5, <1>7, <2>2
  <2>4. g \in queue BY <2>1, <2>3 DEF FirstRun
  <2>5. more BY <2>2, <2>4 DEF more
  <2> QED BY <1>4, <2>3, <2>4, <2>5
<1>14. SentUnlessRetried'
  <2> SUFFICES ASSUME retries = 0, sstatus' = "finished", NEW g \in File
               PROVE  sfiles'[g] \in {"finished", "skipped"}
    BY <1>4 DEF SentUnlessRetried, FinishedMeansSent
  <2>1. CASE sstatus = "finished"
    <3>1. Exists /\ sfiles[f] = "sending"
      <4>1. Sends(f) BY DEF Sends, f
      <4> QED BY <1>1, <2>1, <4>1 DEF Exists, Exact
    <3>2. sfiles[f] \in {"finished", "skipped"}
      BY <1>1, <2>1 DEF SentUnlessRetried, FinishedMeansSent
    <3> QED BY <3>1, <3>2
  <2>2. CASE sstatus # "finished"
    <3>1. /\ last /\ sstatus = "sending"
          /\ \A h \in File : Recorded(f, ok)[h] # "failed"
      BY <1>6, <2>2
    <3>2. Exists /\ MaySend(sstatus) BY <3>1 DEF Exists, MaySend, AllowedStates
    <3>3. ~ more /\ queue = {} BY <3>1, <3>2 DEF last, more
    <3>4. sfiles'[g] = Recorded(f, ok)[g] BY <1>1, <1>5, <3>3, RecordedType
    <3>5. sfiles'[g] # "failed" BY <3>1, <3>4
    <3>6. sfiles'[g] # "queue"
      <4>1. sfiles[g] # "queue" BY <3>1, <3>3 DEF FirstRun
      <4> QED BY <1>5, <1>7, <3>3, <4>1
    <3>7. ~ Sends(g)'
      <4>1. \A v \in Worker : worker'[v] = NoFile BY <1>3, <3>1, <3>3 DEF last
      <4>2. retrying' = {} BY <1>4 DEF FirstRun
      <4> QED BY <1>0, <4>1, <4>2 DEF Sends
    <3>8. sfiles'[g] # "sending"
      <4>1. Exists' BY DEF Exists
      <4> QED BY <1>10, <3>7, <4>1 DEF Exact
    <3>9. sfiles'[g] \in {"queue", "skipped", "sending", "failed", "finished"}
      BY DEF STypeOK
    <3> QED BY <3>5, <3>6, <3>8, <3>9
  <2> QED BY <2>1, <2>2
<1> QED BY <1>10, <1>11, <1>12, <1>13, <1>14

(* The user retries a failed file.                                         *)
LEMMA RetryStep ==
  ASSUME IInv, STypeOK', Unanswered', NEW f \in File, Retry(f)
  PROVE  IInv'
<1> USE DEF IInv
<1>1. /\ Exists /\ sfiles[f] = "failed" /\ sstatus' = "sending"
      /\ UNCHANGED <<spc, queue, worker>> /\ retrying' = retrying \cup {f}
  BY DEF Retry
<1>2. retries' # 0 BY DEF Retry, STypeOK
<1>3. \A g \in File : sfiles'[g] = IF g = f THEN "sending" ELSE sfiles[g]
  BY DEF Retry, STypeOK
<1>4. ~ Sends(f) /\ f \notin queue BY <1>1 DEF Exact, Waits
<1>5. \A g : Sends(g)' <=> Sends(g) \/ g = f BY <1>1 DEF Sends
<1>6. queue \subseteq File BY DEF STypeOK
<1>7. Exact'
  <2>1. \A g \in File : sfiles'[g] = "sending" <=> Sends(g)' BY <1>1, <1>3, <1>5 DEF Exact
  <2>2. \A v \in Worker : worker'[v] \notin retrying' BY <1>1, <1>4 DEF Exact, Sends
  <2>3. \A g \in queue' : ~ Sends(g)' BY <1>1, <1>4, <1>5 DEF Exact
  <2> QED BY <1>1, <2>1, <2>2, <2>3 DEF Exact
<1>8. Waits' BY <1>1, <1>3, <1>4, <1>6 DEF Waits
<1>9. Untouched' BY <1>1 DEF Untouched
<1>10. FirstRun' /\ SentUnlessRetried' BY <1>2 DEF FirstRun, SentUnlessRetried
<1> QED BY <1>7, <1>8, <1>9, <1>10

(* A retry ends.                                                           *)
LEMMA RetryEndStep ==
  ASSUME IInv, STypeOK', Unanswered', NEW f \in File, NEW ok \in BOOLEAN, RetryEnds(f, ok)
  PROVE  IInv'
<1> USE DEF IInv
<1>1. /\ f \in retrying /\ retrying' = retrying \ {f}
      /\ UNCHANGED <<spc, queue, worker, retries>>
  BY DEF RetryEnds
<1>2. retries # 0 BY <1>1 DEF FirstRun
<1>3. \A g \in File : sfiles'[g] = IF g = f /\ Exists THEN Outcome(ok) ELSE sfiles[g]
  BY RecordedType DEF RetryEnds
<1>4. Outcome(ok) \in {"finished", "failed"} BY DEF Outcome
<1>5. Exists' => Exists
  BY FinishType DEF RetryEnds, Exists
<1>6. \A g : Sends(g)' <=> Sends(g) /\ g # f
  <2>1. \A w \in Worker : worker[w] # f BY <1>1 DEF Exact
  <2> QED BY <1>1, <2>1 DEF Sends
<1>7. Sends(f) BY <1>1 DEF Sends
<1>8. Exact'
  <2>1. ASSUME Exists', NEW g \in File PROVE sfiles'[g] = "sending" <=> Sends(g)'
    BY <1>3, <1>4, <1>5, <1>6, <2>1 DEF Exact
  <2>2. Exists' => \A g \in queue' : ~ Sends(g)' BY <1>1, <1>5, <1>6 DEF Exact
  <2>3. \A v \in Worker : worker'[v] \notin retrying' BY <1>1 DEF Exact
  <2> QED BY <1>1, <2>1, <2>2, <2>3 DEF Exact
<1>9. Waits'
  <2> SUFFICES ASSUME Exists', NEW g \in queue' PROVE sfiles'[g] = "queue" BY DEF Waits
  <2>1. g \in queue /\ g \in File BY <1>1 DEF STypeOK
  <2>2. g # f BY <1>5, <1>7, <2>1 DEF Exact
  <2> QED BY <1>3, <1>5, <2>1, <2>2 DEF Waits
<1>10. Untouched' BY <1>1 DEF Untouched
<1>11. FirstRun' /\ SentUnlessRetried' BY <1>1, <1>2 DEF FirstRun, SentUnlessRetried
<1> QED BY <1>8, <1>9, <1>10, <1>11

(* Every step keeps the invariant.                                         *)
LEMMA NextIInv == IInv /\ [SNext]_svars => IInv'
<1> SUFFICES ASSUME IInv, [SNext]_svars PROVE IInv' OBVIOUS
<1>0. STypeOK' /\ Unanswered' BY STypeStep, NextUnanswered DEF IInv
<1>u. Unanswered BY DEF IInv
<1>1. CASE CreateSession BY <1>0, <1>1, Aside DEF CreateSession
<1>2. ASSUME NEW code, PostRefused(code) PROVE IInv'
  BY <1>0, <1>2, Aside DEF PostRefused, WithStatus, StatusOf, Exists
<1>3. CASE PostPinRequired \/ PinEntered \/ PinDismissed \/ PostNothing
  BY <1>0, <1>3, Aside DEF PostPinRequired, PinEntered, PinDismissed, PostNothing,
                           WithStatus, Exists
<1>4. ASSUME NEW sel \in SUBSET File, PostAccepted(sel) PROVE IInv'
  <2>1. CASE Exists BY <1>0, <1>4, <2>1, AcceptedStep
  <2>2. CASE ~ Exists BY <1>0, <1>4, <2>2, Aside DEF PostAccepted, Exists
  <2> QED BY <2>1, <2>2
<1>5. ASSUME NEW w \in Worker, NEW ok \in BOOLEAN, TaskEnds(w, ok) PROVE IInv'
  BY <1>0, <1>5, TaskStep
<1>6. ASSUME NEW f \in File, NEW ok \in BOOLEAN, RetryEnds(f, ok) PROVE IInv'
  BY <1>0, <1>6, RetryEndStep
<1>7. ASSUME NEW f \in File, Retry(f) PROVE IInv' BY <1>0, <1>7, RetryStep
<1>8. CASE SUser \/ CancelByReceiver
  BY <1>0, <1>8, Aside DEF SUser, CancelByUser, CloseSession, ClearAllSessions,
                           SetBackground, CancelByReceiver, Exists, EndStates
<1>9. CASE UNCHANGED svars BY <1>0, <1>9, Aside DEF svars
<1> QED BY <1>1, <1>2, <1>3, <1>4, <1>5, <1>6, <1>7, <1>8, <1>9 DEF SNext, Posted, Uploads

THEOREM SendInvariant == SSpec => []IInv
BY InitIInv, NextIInv, PTL DEF SSpec

(* UploadsExact for every number of files, workers and retries: a file is  *)
(* shown as being sent exactly while one upload of it runs, and it is not  *)
(* in the queue then (_sendLoop and sendFile of send_session_service.dart, *)
(* with the retry button of the progress page at any moment).              *)
THEOREM EachUploadOnce == SSpec => []UploadsExact
<1>1. IInv => UploadsExact BY ExactIs DEF IInv
<1> QED BY <1>1, SendInvariant, PTL

(* SentUnlessRetried for every instance: the last worker to find the queue *)
(* empty runs _finish, and by then, unless the user retried, every file    *)
(* the receiver selected has been sent or has failed.                      *)
THEOREM FinishedAllSent == SSpec => []SentUnlessRetried
<1>1. IInv => SentUnlessRetried BY DEF IInv
<1> QED BY <1>1, SendInvariant, PTL

-----------------------------------------------------------------------------
(* The sender and the receiver together.  The receiver's own invariant is  *)
(* the one of ReceiveServerProofs.                                         *)

RP == INSTANCE ReceiveServerProofs WITH File <- FileId

(* The sender's session at the receiver.                                   *)
Shown == R!Active /\ session.id = Me

(* What was accepted when /prepare-upload was answered with 200.           *)
Asked ==
  /\ prep[Me] = "granted" \/ presp[Me] = 200 => \E f \in File : <<Me, f>> \in granted
  /\ presp[Me] = 200 => prep[Me] = "done"

(* Only that answer starts the upload of a file.                           *)
Remote ==
  /\ remote => presp[Me] = 200 /\ spc \notin {"idle", "posted", "pin"}
  /\ ~ remote => /\ sstatus \notin {"sending", "finished"}
                 /\ \A f \in File : sfiles[f] = "queue" /\ ~ Sends(f)

(* A cancelled session is gone, and nothing else sends /cancel.            *)
Gone == /\ quit # "no" => sstatus = "none" /\ spc # "idle"
        /\ spc = "idle" => sstatus = "none"
        /\ toReceiver # {} => quit # "no"

(* The session at the receiver: who may still be asked, who can have       *)
(* cancelled it, and that it is settled by the last upload to be recorded. *)
Receives ==
  /\ ~ running => session = NoSession
  /\ Shown =>
       /\ session.handler => prep[Me] = "waiting"
       /\ session.status = "waiting" => session.handler
       /\ session.status = "canceledBySender" => session.handler \/ quit # "no"
       /\ ~ session.handler => \A f \in File : <<Me, f>> \notin granted => session.files[f] = "skipped"
       /\ session.status \in R!AllowedStates
            /\ (\A f \in File : session.files[f] \in {"finished", "skipped"})
          => \E u \in Upload : up[u].pc = "history" /\ up[u].req = Me

(* The request that carries a file is a request for that file.             *)
Tasks ==
  /\ task \in [File -> Upload \cup {NoUpload}]
  /\ \A f \in File : task[f] # NoUpload =>
       /\ Sends(f)
       /\ up[task[f]].req = Me /\ up[task[f]].file = f /\ up[task[f]].pc # "idle"

(* The sender has not given up, nor left an upload at the receiver; then   *)
(* every upload at the receiver is one the sender waits for.               *)
Good == Exists /\ sstatus # "canceledByReceiver" /\ left = {}
Waited ==
  \A u \in Upload : up[u].pc \in {"saving", "history"} /\ up[u].req = Me =>
    remote /\ (Good => task[up[u].file] = u)

(* Both sides agree on the files that were sent and skipped.               *)
Matching ==
  Good /\ Shown => \A f \in File :
    /\ sfiles[f] = "finished" => session.files[f] = "finished"
    /\ task[f] # NoUpload /\ up[task[f]].code = 200 => session.files[f] = "finished"
Agreed ==
  /\ Matching
  /\ remote => \A f \in File : sfiles[f] = "skipped" => <<Me, f>> \notin granted

TInv == /\ IInv /\ RP!IInv /\ Asked /\ Remote /\ Gone /\ Receives /\ Tasks /\ Waited /\ Agreed
        /\ SentMeansSaved

-----------------------------------------------------------------------------
(* Each side takes its own steps only.                                     *)

LEMMA NoSessionOutside == NoSession \notin RP!Session
BY ReceiverAssumption DEF R!Session, RP!Session, R!SessionStatus, RP!SessionStatus,
                          R!FileStatus, RP!FileStatus

(* The instance of ReceiveServer the theorems are about is the one of      *)
(* Transfer.                                                               *)
LEMMA SameInit == R!Init => RP!Init
BY DEF R!Init, RP!Init

LEMMA SamePrepare == ASSUME NEW r, R!PrepareHandler(r) PROVE RP!PrepareHandler(r)
BY DEF R!PrepareHandler, RP!PrepareHandler, R!PrepareBlocked, RP!PrepareBlocked,
       R!PreparePin, RP!PreparePin, R!PrepareChecked, RP!PrepareChecked,
       R!PrepareMalformed, RP!PrepareMalformed, R!PrepareRegisters, RP!PrepareRegisters,
       R!PrepareResponds, RP!PrepareResponds, R!PrepareThrows, RP!PrepareThrows,
       R!PrepareAnswers, RP!PrepareAnswers, R!Active, RP!Active, R!AttemptsLeft,
       RP!AttemptsLeft, R!MaxAttempts, RP!MaxAttempts, R!Selected, RP!Selected

LEMMA SameUpload ==
  ASSUME NEW u
  PROVE  /\ R!UploadHandler(u) => RP!UploadHandler(u)
         /\ \A r, f : /\ R!UploadStarts(u, r, f) => RP!UploadStarts(u, r, f)
                      /\ R!UploadRefused(u, r, f) => RP!UploadRefused(u, r, f)
<1>1. \A s : R!Files(s) = RP!Files(s) BY DEF R!Files, RP!Files
<1>2. \A s : R!Settled(s) = RP!Settled(s)
  BY <1>1 DEF R!Settled, RP!Settled, R!IsFinishedOrError, RP!IsFinishedOrError,
              R!AllowedStates, RP!AllowedStates
<1>3. \A s : R!Ends(u, s) => RP!Ends(u, s)
  BY <1>2 DEF R!Ends, RP!Ends, R!UploadAnswers, RP!UploadAnswers, R!UploadCode, RP!UploadCode
<1>4. \A f, st : R!Marked(session, f, st) = RP!Marked(session, f, st)
  BY DEF R!Marked, RP!Marked
<1>5. /\ R!Active <=> RP!Active
      /\ R!Receiving <=> RP!Receiving
      /\ \A code : R!UploadAnswers(u, code) <=> RP!UploadAnswers(u, code)
      /\ R!CodeWhenGone = RP!CodeWhenGone
  BY DEF R!Active, RP!Active, R!Receiving, RP!Receiving, R!AllowedStates, RP!AllowedStates,
         R!UploadAnswers, RP!UploadAnswers, R!CodeWhenGone, RP!CodeWhenGone
<1>6. R!UploadSaved(u) => RP!UploadSaved(u)
  BY <1>1, <1>4, <1>5 DEF R!UploadSaved, RP!UploadSaved
<1>7. R!UploadFails(u) => RP!UploadFails(u)
  BY <1>1, <1>3, <1>4, <1>5 DEF R!UploadFails, RP!UploadFails
<1>8. R!UploadRecorded(u) => RP!UploadRecorded(u)
  BY <1>3, <1>5 DEF R!UploadRecorded, RP!UploadRecorded
<1>9. R!UploadThrows(u) => RP!UploadThrows(u)
  BY <1>5 DEF R!UploadThrows, RP!UploadThrows
<1>10. R!UploadHandler(u) => RP!UploadHandler(u)
  BY <1>6, <1>7, <1>8, <1>9 DEF R!UploadHandler, RP!UploadHandler
<1>11. ASSUME NEW r, NEW f
       PROVE  /\ R!UploadStarts(u, r, f) => RP!UploadStarts(u, r, f)
              /\ R!UploadRefused(u, r, f) => RP!UploadRefused(u, r, f)
  BY DEF R!UploadStarts, RP!UploadStarts, R!UploadRefused, RP!UploadRefused,
         R!Active, RP!Active, R!StateAllowsUpload, RP!StateAllowsUpload,
         R!AllowedStates, RP!AllowedStates, R!TokenValid, RP!TokenValid
<1> QED BY <1>10, <1>11

LEMMA SameUser ==
  /\ (\E sel \in SUBSET FileId : R!Accept(sel)) => RP!User
  /\ R!Decline \/ R!CloseCanceled \/ R!ExitProgress => RP!User
  /\ \A r : R!DelayedClose(r) => RP!DelayedClose(r)
  /\ \A ip, sid : R!Cancel(ip, sid) => RP!Cancel(ip, sid)
  /\ R!Stop => RP!Stop
  /\ R!Start => RP!Start
<1>1. ASSUME NEW sel, R!Accept(sel) PROVE RP!Accept(sel)
  BY <1>1 DEF R!Accept, RP!Accept, R!Active, RP!Active, R!Selected, RP!Selected
<1>2. /\ R!Decline => RP!Decline
      /\ R!CloseCanceled => RP!CloseCanceled
      /\ R!ExitProgress => RP!ExitProgress
  BY DEF R!Decline, RP!Decline, R!CloseCanceled, RP!CloseCanceled, R!ExitProgress,
         RP!ExitProgress, R!Active, RP!Active, R!PrepareAnswers, RP!PrepareAnswers
<1>3. \A r : R!DelayedClose(r) => RP!DelayedClose(r) BY DEF R!DelayedClose, RP!DelayedClose
<1>4. \A ip, sid : R!Cancel(ip, sid) => RP!Cancel(ip, sid)
  BY DEF R!Cancel, RP!Cancel, R!CancelAllowed, RP!CancelAllowed, R!Active, RP!Active
<1>5. (R!Stop => RP!Stop) /\ (R!Start => RP!Start) BY DEF R!Stop, RP!Stop, R!Start, RP!Start
<1> QED BY <1>1, <1>2, <1>3, <1>4, <1>5 DEF RP!User

LEMMA ReceiverStep == RP!IInv /\ [R!Next]_rvars => RP!IInv'
<1> SUFFICES ASSUME RP!IInv, [R!Next]_rvars PROVE RP!IInv' OBVIOUS
<1>1. R!Next => RP!Next
  BY SamePrepare, SameUpload, SameUser DEF R!Next, RP!Next, R!User, R!UploadRequest,
                                           RP!UploadRequest
<1>2. [RP!Next]_(RP!vars) BY <1>1 DEF rvars, RP!vars
<1> QED BY <1>2, RP!SafeStep, ReceiverAssumption, NoSessionOutside

(* A file is being uploaded only once it was accepted.                     *)
LEMMA RunningSends ==
  ASSUME STypeOK
  PROVE  \A f \in File : f \in Running <=> Sends(f)
<1>1. NoFile \notin File BY SendAssumption
<1> QED BY <1>1 DEF Running, Sends

LEMMA RunningAccepted ==
  ASSUME STypeOK, Remote, NEW f \in File, f \in Running
  PROVE  remote /\ presp[Me] = 200
<1>1. Sends(f) BY RunningSends
<1> QED BY <1>1 DEF Remote

LEMMA MyRequest == Me \in Req /\ Me \notin LegacyReq /\ FilesOf[Me] = File /\ File \subseteq FileId
                   /\ File # {}
<1>1. Me \in Req /\ Me \notin LegacyReq /\ FilesOf[Me] = File BY TransferAssumption
<1>2. File \subseteq FileId BY <1>1, ReceiverAssumption
<1>3. Offered \in Seq(File) /\ Offered # <<>> BY SendAssumption
<1>4. File # {}
  <2>1. Offered[1] \in File BY <1>3
  <2> QED BY <2>1
<1> QED BY <1>1, <1>2, <1>4

(* Every step of the whole is a step of the sender or leaves it alone.     *)
LEMMA SenderMoves == STypeOK /\ R!TypeOK /\ Asked /\ Remote /\ [TNext]_tvars => [SNext]_svars
<1> SUFFICES ASSUME STypeOK, R!TypeOK, Asked, Remote, [TNext]_tvars PROVE [SNext]_svars
  OBVIOUS
<1>1. CASE Post BY <1>1 DEF Post, SNext
<1>2. CASE PostAnswered
  <2>1. CASE presp[Me] = 200
    <3> DEFINE sel == {f \in File : <<Me, f>> \in granted}
    <3>1. sel \in (SUBSET File) \ {{}} BY <2>1 DEF Asked
    <3>2. PostAccepted(sel) BY <1>2, <2>1 DEF PostAnswered, Answered
    <3> HIDE DEF sel
    <3> QED BY <3>1, <3>2 DEF SNext, Posted
  <2>2. CASE presp[Me] = 204
    BY <1>2, <2>2 DEF PostAnswered, Answered, SNext, Posted
  <2>3. CASE presp[Me] \notin {200, 204}
    <3>1. PostRefused(presp[Me]) BY <1>2, <2>3 DEF PostAnswered, Answered
    <3>2. CASE presp[Me] \in {403, 409, 429} BY <3>1, <3>2 DEF SNext, Posted
    <3>3. CASE presp[Me] \notin {403, 409, 429}
      <4>1. StatusOf(presp[Me]) = StatusOf(0) BY <3>3 DEF StatusOf
      <4>2. PostRefused(0) BY <3>1, <4>1 DEF PostRefused
      <4> QED BY <4>2 DEF SNext, Posted
    <3> QED BY <3>2, <3>3
  <2> QED BY <2>1, <2>2, <2>3
<1>3. ASSUME NEW f \in File, NEW ok \in BOOLEAN, SenderRecords(f, ok) PROVE [SNext]_svars
  BY <1>3 DEF SenderRecords, SNext, Uploads
<1>4. ASSUME NEW f \in File, UploadAnswered(f) \/ UploadAborted(f) \/ UploadBroken(f)
      PROVE  [SNext]_svars
  BY <1>3, <1>4 DEF UploadAnswered, UploadAborted, UploadBroken
<1>5. CASE PostBroken BY <1>5 DEF PostBroken, SNext, Posted
<1>6. CASE SenderCancels BY <1>6 DEF SenderCancels, SNext, SUser
<1>7. CASE CancelReachesSender BY <1>7 DEF CancelReachesSender, SNext
<1>8. CASE SenderAlone \/ SenderClears BY <1>8 DEF SenderAlone, SenderClears, SNext, SUser
<1>9. ASSUME NEW f \in File, RetryFile(f) PROVE [SNext]_svars BY <1>9 DEF RetryFile, SNext
<1>10. CASE Prepare \/ ReceiverExits \/ ReceiverUser \/ Restart
  BY <1>10 DEF Prepare, ReceiverExits, ReceiverUser, Restart
<1>11. ASSUME NEW f \in File, NEW u \in Upload, UploadArrives(u, f) PROVE [SNext]_svars
  BY <1>11 DEF UploadArrives
<1>12. ASSUME NEW sid, CancelReachesReceiver(sid) \/ CancelLost(sid) PROVE [SNext]_svars
  BY <1>12 DEF CancelReachesReceiver, CancelLost
<1>13. ASSUME NEW u \in Upload, ReceiverWorks(u) PROVE [SNext]_svars BY <1>13 DEF ReceiverWorks
<1>14. ASSUME NEW r \in Req, OtherDevice(r) PROVE [SNext]_svars BY <1>14 DEF OtherDevice
<1>15. CASE UNCHANGED tvars BY <1>15 DEF tvars
<1> QED BY <1>1, <1>2, <1>4, <1>5, <1>6, <1>7, <1>8, <1>9, <1>10, <1>11, <1>12, <1>13,
           <1>14, <1>15 DEF TNext, Network, Faults, Users

(* And of the receiver: a /cancel without a session id does there what the *)
(* one of the sender's session would do.                                   *)
LEMMA ReceiverMoves == STypeOK /\ R!TypeOK /\ Remote /\ [TNext]_tvars => [R!Next]_rvars
<1> SUFFICES ASSUME STypeOK, R!TypeOK, Remote, [TNext]_tvars PROVE [R!Next]_rvars OBVIOUS
<1>m. Me \in Req /\ FilesOf[Me] = File BY MyRequest
<1>1. CASE Prepare BY <1>1, <1>m DEF Prepare, R!Next
<1>2. ASSUME NEW r \in Req, OtherDevice(r) PROVE [R!Next]_rvars
  BY <1>2 DEF OtherDevice, R!Next, R!UploadRequest
<1>3. ASSUME NEW f \in File, NEW u \in Upload, UploadArrives(u, f) PROVE [R!Next]_rvars
  <2>1. presp[Me] = 200 BY <1>3, RunningAccepted DEF UploadArrives
  <2> QED BY <1>3, <2>1, <1>m DEF UploadArrives, R!Next, R!UploadRequest
<1>4. ASSUME NEW u \in Upload, ReceiverWorks(u) PROVE [R!Next]_rvars
  BY <1>4 DEF ReceiverWorks, R!Next
<1>5. ASSUME NEW sid \in {Me, NoReq}, CancelReachesReceiver(sid) PROVE [R!Next]_rvars
  <2>1. CASE R!Cancel(IpOf[Me], sid)
    <3>1. R!Cancel(IpOf[Me], Me)
      <4>1. CASE sid = Me BY <2>1, <4>1
      <4>2. CASE sid = NoReq
        <5>1. R!CancelAllowed(IpOf[Me], NoReq) BY <2>1, <4>2 DEF R!Cancel
        <5>2. session.id \in Req BY <5>1 DEF R!CancelAllowed, R!Active, R!TypeOK, R!Session
        <5>3. session.id # NoReq BY <5>2, TransferAssumption
        <5>4. R!CancelAllowed(IpOf[Me], Me) BY <5>1, <5>3 DEF R!CancelAllowed
        <5> QED BY <2>1, <5>4 DEF R!Cancel
      <4> QED BY <4>1, <4>2
    <3> QED BY <3>1, <1>m DEF R!Next
  <2>2. CASE UNCHANGED rvars BY <2>2
  <2> QED BY <1>5, <2>1, <2>2 DEF CancelReachesReceiver
<1>6. CASE ReceiverExits \/ ReceiverUser \/ Restart
  BY <1>6 DEF ReceiverExits, ReceiverUser, Restart, R!Next, R!User
<1>7. ASSUME NEW f \in File, NEW ok, SenderRecords(f, ok) PROVE [R!Next]_rvars
  BY <1>7 DEF SenderRecords
<1>8. ASSUME NEW f \in File, UploadAnswered(f) \/ UploadAborted(f) \/ UploadBroken(f)
      PROVE  [R!Next]_rvars
  BY <1>7, <1>8 DEF UploadAnswered, UploadAborted, UploadBroken
<1>9. ASSUME NEW sid, CancelLost(sid) PROVE [R!Next]_rvars BY <1>9 DEF CancelLost
<1>10. ASSUME NEW f \in File, RetryFile(f) PROVE [R!Next]_rvars BY <1>10 DEF RetryFile
<1>11. CASE Post \/ PostAnswered \/ PostBroken \/ SenderCancels \/ CancelReachesSender
            \/ SenderAlone \/ SenderClears
  BY <1>11 DEF Post, PostAnswered, PostBroken, SenderCancels, CancelReachesSender,
               SenderAlone, SenderClears
<1>12. CASE UNCHANGED tvars BY <1>12 DEF tvars
<1> QED BY <1>1, <1>2, <1>3, <1>4, <1>5, <1>6, <1>8, <1>9, <1>10, <1>11, <1>12
        DEF TNext, Network, Faults, Users

-----------------------------------------------------------------------------
(* The receiver, as far as the sender's session is concerned.              *)

LEMMA RTypes == RP!IInv => R!TypeOK
BY DEF RP!IInv, R!TypeOK, RP!TypeOK, R!Session, RP!Session, R!SessionStatus,
       RP!SessionStatus, R!FileStatus, RP!FileStatus, R!MaxAttempts, RP!MaxAttempts

LEMMA ShownFiles ==
  ASSUME RP!IInv, Shown
  PROVE  /\ session \in R!Session /\ session.files \in [FileId -> R!FileStatus]
         /\ R!Files(session) = File
         /\ \A f \in File : session.files[f] # "none"
<1>1. session \in R!Session BY RTypes DEF R!TypeOK, Shown, R!Active
<1>2. \A f \in FileId : session.files[f] # "none" <=> f \in File
  BY MyRequest DEF RP!IInv, RP!Known, RP!Active, Shown, R!Active
<1> QED BY <1>1, <1>2, MyRequest DEF R!Session, R!Files

(* An upload under way belongs to the session iff it is for one of its     *)
(* files.                                                                  *)
LEMMA OwnUpload ==
  ASSUME RP!IInv, NEW u \in Upload, up[u].pc \in {"saving", "history"}
  PROVE  /\ up[u].file \in File <=> up[u].req = Me
         /\ <<up[u].req, up[u].file>> \in granted
<1>1. up[u].file \in FilesOf[up[u].req] /\ up[u].req \in Req
  <2>1. up[u].file \in FilesOf[up[u].req] BY DEF RP!IInv, RP!Progress
  <2>2. up[u] \in [pc : {"idle", "saving", "history", "done"}, req : Req, file : FileId,
                   code : {0, 200, 403, 409, 500}]
    BY RTypes DEF R!TypeOK
  <2> QED BY <2>1, <2>2
<1>2. <<up[u].req, up[u].file>> \in granted BY DEF RP!IInv, RP!OnlyGrantedSaved
<1>3. up[u].file \in File => up[u].req = Me BY <1>1, MyRequest, ReceiverAssumption
<1> QED BY <1>1, <1>2, <1>3, MyRequest

(* Requests and files of uploads stay, and what is saved stays saved.      *)
Lasting ==
  /\ saved \subseteq saved'
  /\ \A u \in Upload : up[u].pc # "idle" =>
       up'[u].pc # "idle" /\ up'[u].req = up[u].req /\ up'[u].file = up[u].file

LEMMA HandlerUp ==
  ASSUME R!TypeOK, NEW u \in Upload, R!UploadHandler(u)
  PROVE  /\ \A v \in Upload \ {u} : up'[v] = up[v]
         /\ up'[u].pc \in {"history", "done"}
         /\ up[u].pc \in {"saving", "history"}
         /\ up'[u].req = up[u].req /\ up'[u].file = up[u].file
         /\ saved \subseteq saved'
         /\ UNCHANGED <<running, prep, presp, granted>>
<1>1. up \in [Upload -> [pc : {"idle", "saving", "history", "done"}, req : Req, file : FileId,
                         code : {0, 200, 403, 409, 500}]]
  BY DEF R!TypeOK
<1>2. ASSUME NEW code, R!UploadAnswers(u, code)
      PROVE  /\ \A v \in Upload \ {u} : up'[v] = up[v]
             /\ up'[u].pc = "done" /\ up'[u].req = up[u].req /\ up'[u].file = up[u].file
             /\ up'[u].code = code
  BY <1>1, <1>2 DEF R!UploadAnswers
<1>3. CASE R!UploadSaved(u)
  <2>1. saved \subseteq saved' /\ up[u].pc = "saving" /\ UNCHANGED <<running, prep, presp, granted>>
    BY <1>3 DEF R!UploadSaved
  <2>2. CASE \E code : R!UploadAnswers(u, code) BY <1>2, <2>1, <2>2
  <2>3. CASE up' = [up EXCEPT ![u].pc = "history"] BY <1>1, <2>1, <2>3
  <2> QED BY <1>3, <2>2, <2>3 DEF R!UploadSaved
<1>4. CASE R!UploadFails(u) \/ R!UploadRecorded(u) \/ R!UploadThrows(u)
  <2>1. \E code : R!UploadAnswers(u, code)
    BY <1>4 DEF R!UploadFails, R!UploadRecorded, R!UploadThrows, R!Ends
  <2>2. up[u].pc \in {"saving", "history"} /\ UNCHANGED <<running, prep, presp, granted, saved>>
    BY <1>4 DEF R!UploadFails, R!UploadRecorded, R!UploadThrows
  <2> QED BY <1>2, <2>1, <2>2
<1> QED BY <1>3, <1>4 DEF R!UploadHandler

LEMMA RequestUp ==
  ASSUME R!TypeOK, NEW u \in Upload, NEW r \in Req, NEW f \in FileId,
         R!UploadStarts(u, r, f) \/ R!UploadRefused(u, r, f)
  PROVE  /\ \A v \in Upload \ {u} : up'[v] = up[v]
         /\ up[u].pc = "idle" /\ up'[u].pc \in {"saving", "done"}
         /\ up'[u].pc = "saving" <=> R!UploadStarts(u, r, f)
         /\ up'[u].req = r /\ up'[u].file = f /\ up'[u].code # 200
         /\ UNCHANGED <<running, prep, presp, granted, saved>>
<1>1. CASE R!UploadStarts(u, r, f) BY <1>1 DEF R!UploadStarts, R!TypeOK
<1>2. CASE R!UploadRefused(u, r, f)
  BY <1>2 DEF R!UploadRefused, R!UploadStarts, R!TypeOK
<1> QED BY <1>1, <1>2

(* The steps that have nothing to do with uploads.                         *)
LEMMA OtherUp ==
  /\ \A r : R!PrepareHandler(r) \/ R!DelayedClose(r) => UNCHANGED <<up, saved>>
  /\ \A ip, sid : R!Cancel(ip, sid) => UNCHANGED <<up, saved, running, prep, presp, granted>>
  /\ \A sel : R!Accept(sel) => UNCHANGED <<up, saved>>
  /\ R!Decline \/ R!CloseCanceled \/ R!ExitProgress \/ R!Stop \/ R!Start => UNCHANGED <<up, saved>>
BY DEF R!PrepareHandler, R!PrepareBlocked, R!PreparePin, R!PrepareChecked, R!PrepareMalformed,
       R!PrepareRegisters, R!PrepareResponds, R!PrepareThrows, R!DelayedClose, R!Cancel, R!Accept,
       R!Decline, R!CloseCanceled, R!ExitProgress, R!Stop, R!Start

LEMMA LastingStep == R!TypeOK /\ [R!Next]_rvars => Lasting
<1> SUFFICES ASSUME R!TypeOK, [R!Next]_rvars PROVE Lasting OBVIOUS
<1>1. CASE UNCHANGED <<up, saved>> BY <1>1 DEF Lasting
<1>2. ASSUME NEW u \in Upload, R!UploadHandler(u) PROVE Lasting
  BY <1>2, HandlerUp DEF Lasting
<1>3. ASSUME NEW u \in Upload, R!UploadRequest(u) PROVE Lasting
  <2>1. PICK r \in Req : \E f \in FilesOf[r] : R!UploadStarts(u, r, f) \/ R!UploadRefused(u, r, f)
    BY <1>3 DEF R!UploadRequest
  <2>2. PICK f \in FilesOf[r] : R!UploadStarts(u, r, f) \/ R!UploadRefused(u, r, f) BY <2>1
  <2>3. f \in FileId BY ReceiverAssumption
  <2> QED BY <2>2, <2>3, RequestUp DEF Lasting
<1>4. CASE UNCHANGED rvars BY <1>1, <1>4 DEF rvars
<1> QED BY <1>1, <1>2, <1>3, <1>4, OtherUp DEF R!Next, R!User

(* Once the sender's request was answered with 200, nothing more is        *)
(* accepted or refused of it.                                              *)
Frozen == presp[Me] = 200 =>
  /\ presp'[Me] = 200
  /\ \A f \in File : <<Me, f>> \in granted' <=> <<Me, f>> \in granted

LEMMA AskedAnswer ==
  ASSUME R!TypeOK, Asked, NEW r \in Req, NEW code, code # 200,
         r = Me => prep[Me] # "done",
         R!PrepareAnswers(r, code), granted' = granted
  PROVE  Asked' /\ Frozen
<1>m. Me \in Req BY MyRequest
<1>1. CASE r = Me
  BY <1>1, <1>m DEF R!PrepareAnswers, Asked, Frozen, R!TypeOK
<1>2. CASE r # Me
  BY <1>2, <1>m DEF R!PrepareAnswers, Asked, Frozen, R!TypeOK
<1> QED BY <1>1, <1>2

LEMMA AskedPrepare ==
  ASSUME R!TypeOK, Asked, NEW r \in Req, R!PrepareHandler(r)
  PROVE  Asked' /\ Frozen
<1>m. Me \in Req /\ FilesOf[Me] = File /\ File # {} BY MyRequest
<1>1. CASE R!PrepareBlocked(r) BY <1>1, AskedAnswer DEF R!PrepareBlocked
<1>2. ASSUME NEW pin, R!PreparePin(r, pin) PROVE Asked' /\ Frozen
  <2>1. prep[r] = "idle" /\ granted' = granted BY <1>2 DEF R!PreparePin
  <2>2. R!PrepareAnswers(r, 429) \/ R!PrepareAnswers(r, 401)
    BY <1>2 DEF R!PreparePin
  <2> QED BY <2>1, <2>2, AskedAnswer
<1>3. CASE R!PrepareChecked(r)
  BY <1>3, <1>m DEF R!PrepareChecked, Asked, Frozen, R!TypeOK
<1>4. CASE R!PrepareMalformed(r) BY <1>4, AskedAnswer DEF R!PrepareMalformed
<1>5. CASE R!PrepareThrows(r) BY <1>5, AskedAnswer DEF R!PrepareThrows
<1>6. CASE R!PrepareResponds(r)
  BY <1>6, <1>m DEF R!PrepareResponds, R!PrepareAnswers, Asked, Frozen, R!TypeOK
<1>7. CASE R!PrepareRegisters(r)
  <2>1. presp' = presp /\ prep[r] = "checked" BY <1>7 DEF R!PrepareRegisters
  <2>2. CASE r = Me
    <3>1. presp[Me] # 200 BY <2>1, <2>2 DEF Asked
    <3>2. \/ prep'[Me] = "waiting"
          \/ \A f \in File : <<Me, f>> \in granted'
      BY <1>7, <2>2, <1>m DEF R!PrepareRegisters, R!TypeOK
    <3> QED BY <2>1, <3>1, <3>2, <1>m DEF Asked, Frozen
  <2>3. CASE r # Me
    <3>1. prep'[Me] = prep[Me] BY <1>7, <2>3, <1>m DEF R!PrepareRegisters, R!TypeOK
    <3>2. \A f : <<Me, f>> \in granted' <=> <<Me, f>> \in granted
      BY <1>7, <2>3 DEF R!PrepareRegisters
    <3> QED BY <2>1, <3>1, <3>2 DEF Asked, Frozen
  <2> QED BY <2>2, <2>3
<1> QED BY <1>1, <1>2, <1>3, <1>4, <1>5, <1>6, <1>7 DEF R!PrepareHandler

LEMMA AskedUser ==
  ASSUME R!TypeOK, Asked, Receives, (\E sel : R!Accept(sel)) \/ R!Decline
  PROVE  Asked' /\ Frozen
<1>m. Me \in Req /\ FilesOf[Me] = File BY MyRequest
<1>1. session \in R!Session BY DEF R!TypeOK, R!Accept, R!Decline, R!Active
<1>2. session.id \in Req BY <1>1 DEF R!Session
<1>3. session.id = Me => prep[Me] = "waiting"
  BY DEF R!Accept, R!Decline, Receives, Shown
<1>4. ASSUME NEW sel, R!Accept(sel) PROVE Asked' /\ Frozen
  <2>1. presp' = presp BY <1>4 DEF R!Accept
  <2>2. CASE session.id = Me
    <3>1. presp[Me] # 200 BY <2>2, <1>3 DEF Asked
    <3>2. \E f \in File : <<Me, f>> \in granted' BY <1>4, <2>2, <1>m DEF R!Accept
    <3> QED BY <2>1, <3>1, <3>2 DEF Asked, Frozen
  <2>3. CASE session.id # Me
    <3>1. prep'[Me] = prep[Me] BY <1>4, <2>3, <1>2, <1>m DEF R!Accept, R!TypeOK
    <3>2. \A f : <<Me, f>> \in granted' <=> <<Me, f>> \in granted
      BY <1>4, <2>3 DEF R!Accept
    <3> QED BY <2>1, <3>1, <3>2 DEF Asked, Frozen
  <2> QED BY <2>2, <2>3
<1>5. CASE R!Decline
  <2>1. granted' = granted BY <1>5 DEF R!Decline
  <2>2. R!PrepareAnswers(session.id, 204) \/ R!PrepareAnswers(session.id, 403)
    BY <1>5 DEF R!Decline
  <2> QED BY <1>2, <1>3, <2>1, <2>2, AskedAnswer
<1> QED BY <1>4, <1>5

LEMMA AskedStep ==
  ASSUME R!TypeOK, Asked, Receives, [R!Next]_rvars
  PROVE  Asked' /\ Frozen
<1>1. CASE UNCHANGED <<prep, presp, granted>> BY <1>1 DEF Asked, Frozen
<1>2. ASSUME NEW u \in Upload, R!UploadRequest(u) \/ R!UploadHandler(u)
      PROVE  UNCHANGED <<prep, presp, granted>>
  <2>1. CASE R!UploadHandler(u) BY <2>1, HandlerUp
  <2>2. CASE R!UploadRequest(u)
    BY <2>2 DEF R!UploadRequest, R!UploadStarts, R!UploadRefused
  <2> QED BY <1>2, <2>1, <2>2
<1>3. R!CloseCanceled \/ R!ExitProgress \/ R!Stop \/ R!Start => UNCHANGED <<prep, presp, granted>>
  BY DEF R!CloseCanceled, R!ExitProgress, R!Stop, R!Start
<1>4. \A r : R!DelayedClose(r) => UNCHANGED <<prep, presp, granted>> BY DEF R!DelayedClose
<1>5. \A ip, sid : R!Cancel(ip, sid) => UNCHANGED <<prep, presp, granted>> BY OtherUp
<1>6. CASE UNCHANGED rvars BY <1>1, <1>6 DEF rvars
<1> QED BY <1>1, <1>2, <1>3, <1>4, <1>5, <1>6, AskedPrepare, AskedUser DEF R!Next, R!User

(* Receives, without the session or with the session as it was.            *)
LEMMA ReceivesNothing == ASSUME session' = NoSession PROVE Receives'
BY DEF Receives, Shown, R!Active

LEMMA ReceivesSame ==
  ASSUME Receives, UNCHANGED <<running, session, up>>,
         prep[Me] = "waiting" => prep'[Me] = "waiting",
         \A f \in File : <<Me, f>> \in granted => <<Me, f>> \in granted',
         quit # "no" => quit' # "no"
  PROVE  Receives'
BY DEF Receives, Shown, R!Active, R!AllowedStates

LEMMA ReceivesPrepare ==
  ASSUME R!TypeOK, Receives, NEW r \in Req, R!PrepareHandler(r), quit # "no" => quit' # "no"
  PROVE  Receives'
<1>m. Me \in Req /\ FilesOf[Me] = File /\ File # {} /\ File \subseteq FileId BY MyRequest
<1>1. CASE ~ R!PrepareRegisters(r)
  <2>1. UNCHANGED <<running, session, up, granted>>
    BY <1>1 DEF R!PrepareHandler, R!PrepareBlocked, R!PreparePin, R!PrepareChecked,
                R!PrepareMalformed, R!PrepareResponds, R!PrepareThrows
  <2>2. prep[r] # "waiting" /\ \E p : prep' = [prep EXCEPT ![r] = p]
    BY <1>1 DEF R!PrepareHandler, R!PrepareBlocked, R!PreparePin, R!PrepareChecked,
                R!PrepareMalformed, R!PrepareResponds, R!PrepareThrows, R!PrepareAnswers
  <2>3. prep[Me] = "waiting" => prep'[Me] = "waiting" BY <2>2 DEF R!TypeOK
  <2> QED BY <2>1, <2>3, ReceivesSame
<1>2. CASE R!PrepareRegisters(r) /\ r # Me
  <2>1. session'.id = r BY <1>2 DEF R!PrepareRegisters, R!Selected
  <2>2. running' BY <1>2 DEF R!PrepareRegisters
  <2> QED BY <1>2, <2>1, <2>2 DEF Receives, Shown
<1>3. CASE R!PrepareRegisters(Me) /\ r = Me
  <2>1. running' BY <1>3 DEF R!PrepareRegisters
  <2>2. CASE Me \notin QuickReq
    <3>1. session'.status = "waiting" /\ session'.handler BY <1>3, <2>2 DEF R!PrepareRegisters
    <3>2. prep'[Me] = "waiting" BY <1>3, <2>2, <1>m DEF R!PrepareRegisters, R!TypeOK
    <3> QED BY <2>1, <3>1, <3>2 DEF Receives, R!AllowedStates
  <2>3. CASE Me \in QuickReq
    <3>1. session'.status = "sending" /\ session'.handler = FALSE
      BY <1>3, <2>3 DEF R!PrepareRegisters, R!Selected
    <3>2. \A f \in File : session'.files[f] = "queue"
      BY <1>3, <2>3, <1>m DEF R!PrepareRegisters, R!Selected
    <3>3. \A f \in File : <<Me, f>> \in granted'
      BY <1>3, <2>3, <1>m DEF R!PrepareRegisters
    <3> QED BY <2>1, <3>1, <3>2, <3>3, <1>m DEF Receives
  <2> QED BY <2>2, <2>3
<1> QED BY <1>1, <1>2, <1>3

LEMMA ReceivesAccept ==
  ASSUME R!TypeOK, Receives, NEW sel, R!Accept(sel)
  PROVE  Receives'
<1>m. Me \in Req /\ FilesOf[Me] = File /\ File \subseteq FileId BY MyRequest
<1>1. running' = running /\ session' = R!Selected(session.id, sel) /\ R!Active
  BY DEF R!Accept
<1>2. running' BY <1>1 DEF Receives, R!Active, R!TypeOK
<1>3. session'.id = session.id /\ session'.status = "sending" /\ session'.handler = FALSE
  BY <1>1 DEF R!Selected
<1>4. CASE session.id # Me BY <1>2, <1>3, <1>4 DEF Receives, Shown
<1>5. CASE session.id = Me
  <2>1. \A f \in File : session'.files[f] = IF f \in sel THEN "queue" ELSE "skipped"
    BY <1>1, <1>5, <1>m DEF R!Selected
  <2>2. sel # {} /\ sel \subseteq File /\ \A f \in sel : <<Me, f>> \in granted'
    BY <1>5, <1>m DEF R!Accept
  <2> QED BY <1>2, <1>3, <2>1, <2>2 DEF Receives
<1> QED BY <1>4, <1>5

(* Only the sender's own /cancel cancels its session once it was accepted. *)
LEMMA ReceivesCancel ==
  ASSUME R!TypeOK, Receives, NEW ip, NEW sid, R!Cancel(ip, sid),
         sid = Me => quit # "no", quit' = quit
  PROVE  Receives'
<1>1. UNCHANGED <<running, up, prep, granted>> /\ running /\ R!Active BY DEF R!Cancel, R!CancelAllowed
<1>2. session \in R!Session BY <1>1 DEF R!TypeOK, R!Active
<1>3. /\ session'.status = "canceledBySender" /\ session'.id = session.id
      /\ session'.handler = session.handler /\ session'.files = session.files
  BY <1>2 DEF R!Cancel, R!Session
<1>4. Shown => session.status = "waiting" \/ quit # "no"
  BY MyRequest DEF R!Cancel, R!CancelAllowed, Shown
<1> QED BY <1>1, <1>3, <1>4 DEF Receives, Shown, R!AllowedStates, R!Active

LEMMA ReceivesRequest ==
  ASSUME RP!IInv, Receives, NEW u \in Upload, NEW r \in Req, NEW f \in FileId,
         R!UploadStarts(u, r, f) \/ R!UploadRefused(u, r, f), quit' = quit
  PROVE  Receives'
<1>t. R!TypeOK BY RTypes
<1>u. /\ UNCHANGED <<running, prep, presp, granted>>
      /\ \A v \in Upload \ {u} : up'[v] = up[v]
      /\ up[u].pc = "idle"
  BY <1>t, RequestUp
<1>h. \A v \in Upload : up[v].pc = "history" => up'[v] = up[v] BY <1>u
<1>1. CASE R!UploadRefused(u, r, f)
  <2>1. session' = session BY <1>1 DEF R!UploadRefused
  <2> QED BY <2>1, <1>u, <1>h DEF Receives, Shown, R!Active, R!AllowedStates
<1>2. CASE R!UploadStarts(u, r, f)
  <2>1. session \in R!Session /\ running BY <1>2, <1>t DEF R!UploadStarts, R!TypeOK, R!Active
  <2>2. /\ session'.id = session.id /\ session'.handler = session.handler
        /\ session'.status = "sending"
        /\ session'.files = [session.files EXCEPT ![f] = "sending"]
    BY <1>2, <2>1 DEF R!UploadStarts, R!Session
  <2>3. session.files[f] \notin {"none", "skipped"} /\ R!Active
    BY <1>2 DEF R!UploadStarts, R!TokenValid
  <2>4. CASE ~ Shown BY <2>1, <2>2, <2>3, <2>4, <1>u DEF Receives, Shown
  <2>5. CASE Shown
    <3>1. session.files \in [FileId -> R!FileStatus] BY <2>1 DEF R!Session
    <3>2. f \in File BY <2>3, <2>5, ShownFiles DEF R!Files
    <3>3. session'.files[f] = "sending" BY <2>2, <3>1
    <3>4. \A g \in File \ {f} : session'.files[g] = session.files[g]
      BY <2>2, <3>1, MyRequest
    <3> QED BY <2>1, <2>2, <2>3, <2>5, <3>2, <3>3, <3>4, <1>u DEF Receives, Shown
  <2> QED BY <2>4, <2>5
<1> QED BY <1>1, <1>2

(* What a step of the handler of upload u does to the sender's session: it *)
(* passes it by, writes a file, fails, or notes that the file is written.  *)
Passed(u) ==
  /\ session' = session /\ up'[u].pc = "done" /\ up'[u].code # 200
  /\ up[u].req # Me \/ session.status \notin R!AllowedStates
Wrote(u) ==
  /\ up[u].req = Me /\ up[u].file \in File
  /\ session'.status = session.status
  /\ session'.files = [session.files EXCEPT ![up[u].file] = "finished"]
  /\ up'[u].pc = "history" /\ up'[u].code = up[u].code
Broke(u) ==
  /\ up[u].req = Me /\ up[u].file \in File
  /\ session'.files = [session.files EXCEPT ![up[u].file] = "failed"]
  /\ up'[u].pc = "done" /\ up'[u].code # 200
Noted(u) ==
  /\ session'.files = session.files
  /\ up'[u].pc = "done"
  /\ up'[u].code = 200 => session.files[up[u].file] = "finished"
  /\ session'.status \in R!AllowedStates => \E f \in File : session.files[f] \notin {"finished", "skipped"}

LEMMA SettledFacts ==
  ASSUME NEW s \in R!Session
  PROVE  /\ R!Settled(s).id = s.id /\ R!Settled(s).handler = s.handler
         /\ R!Settled(s).files = s.files
         /\ R!Settled(s) \in R!Session
         /\ R!Settled(s).status \in {s.status, "finished", "finishedWithErrors"}
         /\ R!Settled(s).status \in R!AllowedStates =>
              \E f \in R!Files(s) : s.files[f] \notin {"finished", "skipped"}
<1>1. CASE ~ (s.status \in R!AllowedStates /\ R!IsFinishedOrError(s))
  <2>1. R!Settled(s) = s BY <1>1 DEF R!Settled
  <2> QED BY <1>1, <2>1 DEF R!IsFinishedOrError
<1>2. CASE s.status \in R!AllowedStates /\ R!IsFinishedOrError(s)
  <2>1. CASE \E f \in R!Files(s) : s.files[f] = "failed"
    <3>1. R!Settled(s) = [s EXCEPT !.status = "finishedWithErrors"]
      BY <1>2, <2>1 DEF R!Settled
    <3> QED BY <2>1, <3>1 DEF R!Session, R!SessionStatus
  <2>2. CASE ~ \E f \in R!Files(s) : s.files[f] = "failed"
    <3>1. R!Settled(s) = [s EXCEPT !.status = "finished"]
      BY <1>2, <2>2 DEF R!Settled
    <3>2. R!Settled(s).status = "finished" BY <3>1 DEF R!Session
    <3> QED BY <3>1, <3>2 DEF R!Session, R!SessionStatus, R!AllowedStates
  <2> QED BY <2>1, <2>2
<1> QED BY <1>1, <1>2

LEMMA HandlerShown ==
  ASSUME RP!IInv, Receives, Shown, NEW u \in Upload, R!UploadHandler(u)
  PROVE  /\ Passed(u) \/ Wrote(u) \/ Broke(u) \/ Noted(u)
         /\ session'.id = session.id /\ session'.handler = session.handler
         /\ session'.status \in {session.status, "finished", "finishedWithErrors"}
<1>t. R!TypeOK BY RTypes
<1>f. up \in [Upload -> [pc : {"idle", "saving", "history", "done"}, req : Req, file : FileId,
                         code : {0, 200, 403, 409, 500}]]
  BY <1>t DEF R!TypeOK
<1>s. /\ session \in R!Session /\ session.files \in [FileId -> R!FileStatus]
      /\ R!Files(session) = File /\ R!Active
  BY ShownFiles DEF Shown
<1>o. /\ up[u].file \in File <=> up[u].req = Me
      /\ up[u].file \in FileId
  <2>1. up[u].pc \in {"saving", "history"} BY <1>t, HandlerUp
  <2>2. up[u].file \in File <=> up[u].req = Me BY <2>1, OwnUpload
  <2>3. up[u].file \in FileId BY <1>f
  <2> QED BY <2>2, <2>3
<1>a. ASSUME NEW code, R!UploadAnswers(u, code)
      PROVE  up'[u].pc = "done" /\ up'[u].code = code
  BY <1>a, <1>f DEF R!UploadAnswers
<1>m. ASSUME NEW st \in R!FileStatus
      PROVE  /\ R!Marked(session, up[u].file, st) \in R!Session
             /\ R!Marked(session, up[u].file, st).id = session.id
             /\ R!Marked(session, up[u].file, st).handler = session.handler
             /\ R!Marked(session, up[u].file, st).status = session.status
             /\ R!Marked(session, up[u].file, st).files = [session.files EXCEPT ![up[u].file] = st]
  BY <1>s, <1>o DEF R!Marked, R!Session
<1>st. "finished" \in R!FileStatus /\ "failed" \in R!FileStatus BY DEF R!FileStatus
<1>1. CASE R!UploadSaved(u)
  <2>1. CASE ~ R!Receiving /\ R!UploadAnswers(u, R!CodeWhenGone) /\ session' = session
    <3>1. session.status \notin R!AllowedStates BY <2>1, <1>s DEF R!Receiving
    <3>2. Passed(u) BY <2>1, <3>1, <1>a DEF Passed, R!CodeWhenGone
    <3> QED BY <3>2, <2>1
  <2>2. CASE up[u].file \notin R!Files(session) /\ R!UploadAnswers(u, 0) /\ session' = session
    <3>1. Passed(u) BY <2>2, <1>a, <1>o, <1>s DEF Passed
    <3> QED BY <3>1, <2>2
  <2>3. CASE /\ up[u].file \in R!Files(session)
             /\ session' = R!Marked(session, up[u].file, "finished")
             /\ up' = [up EXCEPT ![u].pc = "history"]
    <3>1. up'[u].pc = "history" /\ up'[u].code = up[u].code BY <2>3, <1>f
    <3>2. Wrote(u) BY <2>3, <3>1, <1>m, <1>st, <1>o, <1>s DEF Wrote
    <3> QED BY <2>3, <3>2, <1>m, <1>st
  <2> QED BY <1>1, <2>1, <2>2, <2>3 DEF R!UploadSaved
<1>2. CASE R!UploadFails(u)
  <2>1. CASE up[u].file \notin R!Files(session) /\ R!UploadAnswers(u, 0) /\ session' = session
    <3>1. Passed(u) BY <2>1, <1>a, <1>o, <1>s DEF Passed
    <3> QED BY <3>1, <2>1
  <2>2. CASE /\ up[u].file \in R!Files(session)
             /\ R!Ends(u, R!Marked(session, up[u].file, "failed"))
    <3> DEFINE s == R!Marked(session, up[u].file, "failed")
    <3>1. /\ s \in R!Session /\ s.id = session.id /\ s.handler = session.handler
          /\ s.status = session.status
          /\ s.files = [session.files EXCEPT ![up[u].file] = "failed"]
      BY <1>m, <1>st
    <3>2. session' = R!Settled(s) /\ R!UploadAnswers(u, R!UploadCode(R!Settled(s), up[u].file))
      BY <2>2 DEF R!Ends
    <3> HIDE DEF s
    <3>3. s.files[up[u].file] = "failed" BY <3>1, <1>s, <1>o
    <3>4. /\ session'.id = session.id /\ session'.handler = session.handler
          /\ session'.files = s.files
          /\ session'.status \in {session.status, "finished", "finishedWithErrors"}
      BY <3>1, <3>2, SettledFacts
    <3>5. R!UploadCode(R!Settled(s), up[u].file) = 500
      <4>1. R!Settled(s).files = s.files BY <3>1, SettledFacts
      <4>2. R!Settled(s).files[up[u].file] # "finished" BY <4>1, <3>3
      <4> QED BY <4>2 DEF R!UploadCode
    <3>6. up'[u].pc = "done" /\ up'[u].code = 500 BY <3>2, <3>5, <1>a
    <3>7. Broke(u) BY <3>1, <3>4, <3>6, <2>2, <1>s, <1>o DEF Broke
    <3> QED BY <3>4, <3>7
  <2> QED BY <1>2, <2>1, <2>2, <1>s DEF R!UploadFails
<1>3. CASE R!UploadRecorded(u)
  <2>1. R!Ends(u, session) BY <1>3, <1>s DEF R!UploadRecorded
  <2>2. session' = R!Settled(session) /\ R!UploadAnswers(u, R!UploadCode(R!Settled(session), up[u].file))
    BY <2>1 DEF R!Ends
  <2>3. up'[u].code = 200 => session.files[up[u].file] = "finished"
    BY <2>2, <1>a, <1>s, SettledFacts DEF R!UploadCode
  <2>4. up'[u].pc = "done" BY <2>2, <1>a
  <2>5. Noted(u) BY <2>2, <2>3, <2>4, <1>s, SettledFacts DEF Noted
  <2> QED BY <2>2, <2>5, <1>s, SettledFacts
<1>4. CASE R!UploadThrows(u) BY <1>4, <1>s DEF R!UploadThrows, Receives, R!Active
<1> QED BY <1>1, <1>2, <1>3, <1>4 DEF R!UploadHandler

LEMMA HandlerStays ==
  ASSUME R!TypeOK, NEW u \in Upload, R!UploadHandler(u)
  PROVE  IF R!Active THEN session'.id = session.id ELSE session' = session
<1>1. CASE ~ R!Active
  BY <1>1 DEF R!UploadHandler, R!UploadSaved, R!UploadFails, R!UploadRecorded, R!UploadThrows,
              R!Receiving
<1>2. CASE R!Active
  <2>1. session \in R!Session BY <1>2 DEF R!TypeOK, R!Active
  <2>2. \A s \in R!Session : R!Ends(u, s) => session'.id = s.id BY SettledFacts DEF R!Ends
  <2>f. up[u].file \in FileId BY DEF R!TypeOK
  <2>3. ASSUME NEW st \in {"finished", "failed"}
        PROVE  /\ R!Marked(session, up[u].file, st) \in R!Session
               /\ R!Marked(session, up[u].file, st).id = session.id
    BY <2>1, <2>f DEF R!Marked, R!Session, R!FileStatus
  <2>4. CASE R!UploadSaved(u)
    <3>1. session' \in {session, R!Marked(session, up[u].file, "finished")}
      BY <2>4 DEF R!UploadSaved
    <3> QED BY <3>1, <2>3, <1>2
  <2>5. CASE R!UploadFails(u)
    <3>1. session' = session \/ R!Ends(u, R!Marked(session, up[u].file, "failed"))
      BY <2>5 DEF R!UploadFails
    <3> QED BY <3>1, <2>2, <2>3, <1>2
  <2>6. CASE R!UploadRecorded(u) BY <2>6, <2>1, <2>2 DEF R!UploadRecorded
  <2>7. CASE R!UploadThrows(u) BY <2>7 DEF R!UploadThrows
  <2> QED BY <1>2, <2>4, <2>5, <2>6, <2>7 DEF R!UploadHandler
<1> QED BY <1>1, <1>2

LEMMA ReceivesHandler ==
  ASSUME RP!IInv, Receives, NEW u \in Upload, R!UploadHandler(u), quit' = quit
  PROVE  Receives'
<1>t. R!TypeOK BY RTypes
<1>u. /\ UNCHANGED <<running, prep, granted>>
      /\ \A v \in Upload \ {u} : up'[v] = up[v]
      /\ up[u].pc \in {"saving", "history"} /\ up'[u].req = up[u].req
  BY <1>t, HandlerUp
<1>1. CASE ~ R!Active BY <1>1, <1>t, HandlerStays, ReceivesNothing DEF R!Active
<1>2. CASE R!Active /\ session.id # Me
  <2>1. running BY <1>2, <1>t DEF Receives, R!Active, R!TypeOK
  <2>2. session'.id = session.id BY <1>2, <1>t, HandlerStays
  <2> QED BY <1>2, <2>1, <2>2, <1>u DEF Receives, Shown
<1>3. CASE Shown
  <2>1. session.files \in [FileId -> R!FileStatus] BY <1>3, ShownFiles
  <2>2. running BY <1>3, <1>t DEF Receives, R!Active, R!TypeOK, Shown
  <2>3. /\ Passed(u) \/ Wrote(u) \/ Broke(u) \/ Noted(u)
        /\ session'.id = session.id /\ session'.handler = session.handler
        /\ session'.status \in {session.status, "finished", "finishedWithErrors"}
    BY <1>3, HandlerShown
  <2>4. up[u].req = Me => <<Me, up[u].file>> \in granted BY <1>u, OwnUpload
  <2>5. ~ session.handler =>
          \A f \in File : <<Me, f>> \notin granted => session'.files[f] = "skipped"
    <3> SUFFICES ASSUME ~ session.handler, NEW f \in File, <<Me, f>> \notin granted
                 PROVE  session'.files[f] = "skipped"
      OBVIOUS
    <3>1. session.files[f] = "skipped" BY <1>3 DEF Receives
    <3>2. f \in FileId BY MyRequest
    <3>3. up[u].req = Me => f # up[u].file BY <2>4
    <3> QED BY <2>1, <2>3, <3>1, <3>2, <3>3 DEF Passed, Wrote, Broke, Noted
  <2>6. ASSUME session'.status \in R!AllowedStates,
               \A f \in File : session'.files[f] \in {"finished", "skipped"}
        PROVE  \E v \in Upload : up'[v].pc = "history" /\ up'[v].req = Me
    <3>1. CASE Wrote(u) BY <3>1, <1>u DEF Wrote
    <3>2. CASE Broke(u)
      <4>1. session'.files[up[u].file] = "failed" BY <3>2, <2>1, MyRequest DEF Broke
      <4> QED BY <3>2, <4>1, <2>6 DEF Broke
    <3>3. CASE Noted(u) BY <3>3, <2>6 DEF Noted
    <3>4. CASE Passed(u)
      <4>1. up[u].req # Me BY <3>4, <2>6 DEF Passed
      <4>2. PICK v \in Upload : up[v].pc = "history" /\ up[v].req = Me
        BY <3>4, <2>6, <1>3 DEF Passed, Receives
      <4>3. v # u BY <4>1, <4>2
      <4> QED BY <4>2, <4>3, <1>u
    <3> QED BY <2>3, <3>1, <3>2, <3>3, <3>4
  <2> QED BY <1>3, <1>u, <2>2, <2>3, <2>5, <2>6 DEF Receives, Shown
<1> QED BY <1>1, <1>2, <1>3 DEF Shown

-----------------------------------------------------------------------------
(* Steps of the receiver alone.                                            *)

(* The sender's files, its tasks and the cancellation stay as they are.    *)
Keeping == UNCHANGED <<svars, quit, left>> /\ toReceiver' \subseteq toReceiver
Untouching == Keeping /\ UNCHANGED task

(* No upload of the sender's is added.                                     *)
NoneNew == \A u \in Upload :
  up'[u].pc \in {"saving", "history"} /\ up'[u].req = Me => up[u].pc \in {"saving", "history"}

LEMMA ReceiverRest ==
  ASSUME TInv, Keeping, [R!Next]_rvars, Receives', Tasks', Waited', Matching'
  PROVE  TInv'
<1>t. R!TypeOK BY RTypes DEF TInv
<1>1. IInv' BY NextIInv DEF TInv, Keeping
<1>2. RP!IInv' BY ReceiverStep DEF TInv
<1>3. Asked' /\ Frozen BY <1>t, AskedStep DEF TInv
<1>4. Lasting BY <1>t, LastingStep
<1>c. UNCHANGED <<spc, sstatus, sfiles, remote, worker, retrying, quit, left>>
  BY DEF Keeping, svars
<1>s. \A f : Sends(f)' <=> Sends(f) BY <1>c DEF Sends
<1>5. Remote' BY <1>3, <1>c, <1>s DEF TInv, Remote, Frozen
<1>6. Gone'
  <2>1. toReceiver' # {} => toReceiver # {} BY DEF Keeping
  <2> QED BY <2>1, <1>c DEF TInv, Gone
<1>7. Agreed'
  <2>1. remote => \A f \in File : <<Me, f>> \in granted' <=> <<Me, f>> \in granted
    BY <1>3 DEF Frozen, TInv, Remote
  <2> QED BY <2>1, <1>c DEF TInv, Agreed
<1>8. SentMeansSaved'
  <2> SUFFICES ASSUME NEW f \in File, sfiles[f] = "finished"
               PROVE  \E u \in saved' : up'[u].req = Me /\ up'[u].file = f
    BY <1>c DEF SentMeansSaved
  <2>1. PICK u \in saved : up[u].req = Me /\ up[u].file = f BY DEF TInv, SentMeansSaved
  <2>2. u \in Upload BY <1>t DEF R!TypeOK
  <2>3. up[u].pc # "idle" BY <2>2 DEF TInv, RP!IInv, RP!Progress
  <2> QED BY <2>1, <2>2, <2>3, <1>4 DEF Lasting
<1> QED BY <1>1, <1>2, <1>3, <1>5, <1>6, <1>7, <1>8 DEF TInv

LEMMA ReceiverAlone ==
  ASSUME TInv, Untouching, [R!Next]_rvars, Receives', NoneNew, Matching'
  PROVE  TInv'
<1>t. R!TypeOK BY RTypes DEF TInv
<1>1. Lasting BY <1>t, LastingStep
<1>c. UNCHANGED <<sstatus, remote, worker, retrying, task, left>> BY DEF Untouching, Keeping, svars
<1>2. Tasks'
  <2>1. \A f \in File : task[f] # NoUpload => task[f] \in Upload BY DEF TInv, Tasks
  <2>2. \A f : Sends(f)' <=> Sends(f) BY <1>c DEF Sends
  <2> QED BY <2>1, <2>2, <1>1, <1>c DEF TInv, Tasks, Lasting
<1>3. Waited'
  <2> SUFFICES ASSUME NEW u \in Upload, up'[u].pc \in {"saving", "history"}, up'[u].req = Me
               PROVE  remote' /\ (Good' => task'[up'[u].file] = u)
    BY DEF Waited
  <2>1. up[u].pc \in {"saving", "history"} BY DEF NoneNew
  <2>2. up[u].req = Me /\ up'[u].file = up[u].file BY <2>1, <1>1 DEF Lasting
  <2>3. Good' <=> Good BY <1>c DEF Good, Exists
  <2> QED BY <2>1, <2>2, <2>3, <1>c DEF TInv, Waited
<1> QED BY <1>2, <1>3, ReceiverRest DEF Untouching

(* When the session stays, and when it begins.                             *)
LEMMA MatchingSame ==
  ASSUME Matching, Untouching, up' = up,
         Shown' => Shown /\ session'.files = session.files
  PROVE  Matching'
BY DEF Matching, Untouching, Keeping, svars, Good, Exists

LEMMA MatchingFresh ==
  ASSUME TInv, Untouching, presp[Me] # 200
  PROVE  Matching'
<1>1. \A f \in File : sfiles[f] = "queue" /\ ~ Sends(f) BY DEF TInv, Remote
<1>2. \A f \in File : task[f] = NoUpload BY <1>1 DEF TInv, Tasks
<1> QED BY <1>1, <1>2 DEF Matching, Untouching, Keeping, svars

LEMMA NoneNewSame == ASSUME up' = up PROVE NoneNew
BY DEF NoneNew

LEMMA PrepareAlone ==
  ASSUME TInv, Untouching, NEW r \in Req, R!PrepareHandler(r)
  PROVE  TInv'
<1>t. R!TypeOK BY RTypes DEF TInv
<1>1. up' = up BY OtherUp
<1>2. Receives' BY <1>t, ReceivesPrepare DEF TInv, Untouching, Keeping
<1>3. R!Next BY DEF R!Next
<1>4. Matching'
  <2>1. CASE ~ R!PrepareRegisters(r)
    <3>1. session' = session
      BY <2>1 DEF R!PrepareHandler, R!PrepareBlocked, R!PreparePin, R!PrepareChecked,
                  R!PrepareMalformed, R!PrepareResponds, R!PrepareThrows
    <3> QED BY <1>1, <3>1, MatchingSame DEF TInv, Agreed, Shown, R!Active
  <2>2. CASE R!PrepareRegisters(r) /\ r # Me
    <3>1. session'.id = r BY <2>2 DEF R!PrepareRegisters, R!Selected
    <3> QED BY <2>2, <3>1 DEF Matching, Shown
  <2>3. CASE R!PrepareRegisters(r) /\ r = Me
    <3>1. prep[Me] = "checked" BY <2>3 DEF R!PrepareRegisters
    <3>2. presp[Me] # 200 BY <3>1 DEF TInv, Asked
    <3> QED BY <3>2, MatchingFresh
  <2> QED BY <2>1, <2>2, <2>3
<1> QED BY <1>1, <1>2, <1>3, <1>4, NoneNewSame, ReceiverAlone

LEMMA DropAlone ==
  ASSUME TInv, Untouching, R!Next, session' = NoSession, up' = up
  PROVE  TInv'
<1>1. Receives' BY ReceivesNothing
<1>2. Matching' BY DEF Matching, Shown, R!Active
<1> QED BY <1>1, <1>2, NoneNewSame, ReceiverAlone

LEMMA UserAlone ==
  ASSUME TInv, Untouching,
         (\E sel \in SUBSET FileId : R!Accept(sel)) \/ R!Decline \/ R!CloseCanceled
           \/ R!ExitProgress \/ R!Stop \/ R!Start \/ \E r \in Req : R!DelayedClose(r)
  PROVE  TInv'
<1>t. R!TypeOK BY RTypes DEF TInv
<1>1. R!Next /\ up' = up BY OtherUp DEF R!Next, R!User
<1>2. ASSUME NEW sel, R!Accept(sel) PROVE TInv'
  <2>1. Receives' BY <1>2, <1>t, ReceivesAccept DEF TInv
  <2>2. Matching'
    <3>1. CASE session.id = Me
      <4>1. prep[Me] = "waiting" BY <1>2, <3>1 DEF R!Accept, TInv, Receives, Shown
      <4>2. presp[Me] # 200 BY <4>1 DEF TInv, Asked
      <4> QED BY <4>2, MatchingFresh
    <3>2. CASE session.id # Me
      <4>1. session'.id = session.id BY <1>2 DEF R!Accept, R!Selected
      <4> QED BY <3>2, <4>1 DEF Matching, Shown
    <3> QED BY <3>1, <3>2
  <2> QED BY <1>1, <2>1, <2>2, NoneNewSame, ReceiverAlone
<1>3. CASE R!Start
  <2>1. session' = NoSession BY <1>3 DEF R!Start, TInv, Receives
  <2> QED BY <1>1, <2>1, DropAlone
<1>4. CASE R!Decline \/ R!CloseCanceled \/ R!ExitProgress \/ R!Stop \/ \E r \in Req : R!DelayedClose(r)
  <2>1. session' = NoSession
    BY <1>4 DEF R!Decline, R!CloseCanceled, R!ExitProgress, R!Stop, R!DelayedClose
  <2> QED BY <1>1, <2>1, DropAlone
<1> QED BY <1>2, <1>3, <1>4

LEMMA CancelAlone ==
  ASSUME TInv, Untouching, R!Next, NEW ip, NEW sid, R!Cancel(ip, sid), sid = Me => quit # "no"
  PROVE  TInv'
<1>t. R!TypeOK BY RTypes DEF TInv
<1>1. up' = up BY OtherUp
<1>2. quit' = quit BY DEF Untouching, Keeping
<1>3. Receives' BY <1>t, <1>2, ReceivesCancel DEF TInv
<1>4. session \in R!Session /\ R!Active BY <1>t DEF R!Cancel, R!CancelAllowed, R!Active, R!TypeOK
<1>5. session'.id = session.id /\ session'.files = session.files
  BY <1>4 DEF R!Cancel, R!Session
<1>6. Matching' BY <1>1, <1>4, <1>5, MatchingSame DEF TInv, Agreed, Shown
<1> QED BY <1>1, <1>3, <1>6, NoneNewSame, ReceiverAlone

LEMMA WorksAlone ==
  ASSUME TInv, Untouching, NEW u \in Upload, R!UploadHandler(u)
  PROVE  TInv'
<1>t. R!TypeOK BY RTypes DEF TInv
<1>u. /\ \A v \in Upload \ {u} : up'[v] = up[v]
      /\ up[u].pc \in {"saving", "history"}
  BY <1>t, HandlerUp
<1>c. UNCHANGED <<sfiles, sstatus, task, left, quit>> BY DEF Untouching, Keeping, svars
<1>1. R!Next BY DEF R!Next
<1>2. Receives' BY <1>c, ReceivesHandler DEF TInv
<1>3. NoneNew BY <1>u DEF NoneNew
<1>4. Matching'
  <2> SUFFICES ASSUME Good', Shown', NEW f \in File
               PROVE  /\ sfiles'[f] = "finished" => session'.files[f] = "finished"
                      /\ task'[f] # NoUpload /\ up'[task'[f]].code = 200
                           => session'.files[f] = "finished"
    BY DEF Matching
  <2>1. Good BY <1>c DEF Good, Exists
  <2>2. Shown BY <1>t, HandlerStays DEF Shown, R!Active
  <2>3. /\ sfiles[f] = "finished" => session.files[f] = "finished"
        /\ task[f] # NoUpload /\ up[task[f]].code = 200 => session.files[f] = "finished"
    BY <2>1, <2>2 DEF TInv, Agreed, Matching
  <2>4. session.files \in [FileId -> R!FileStatus] /\ f \in FileId
    BY <2>2, ShownFiles, MyRequest DEF TInv
  <2>5. task[f] # NoUpload => task[f] \in Upload /\ up[task[f]].file = f /\ Sends(f)
    BY DEF TInv, Tasks
  <2>6. Passed(u) \/ Wrote(u) \/ Broke(u) \/ Noted(u) BY <2>2, HandlerShown DEF TInv
  <2>7. CASE Passed(u) BY <2>3, <2>5, <2>7, <1>c, <1>u DEF Passed
  <2>8. CASE Wrote(u) BY <2>3, <2>4, <2>5, <2>8, <1>c, <1>u DEF Wrote
  <2>9. CASE Noted(u) BY <2>3, <2>5, <2>9, <1>c, <1>u DEF Noted
  <2>10. CASE Broke(u)
    <3>1. task[up[u].file] = u BY <2>1, <2>10, <1>u DEF TInv, Waited, Broke
    <3>2. CASE f = up[u].file
      <4>1. f = up[u].file /\ task[f] = u /\ u # NoUpload BY <3>1, <3>2, TransferAssumption
      <4>2. Sends(f) BY <4>1, <2>5
      <4>3. sfiles[f] = "sending" BY <4>2, <2>1 DEF TInv, IInv, Exact, Good
      <4>4. up'[u].code # 200 BY <2>10 DEF Broke
      <4> QED BY <4>1, <4>3, <4>4, <1>c
    <3>3. CASE f # up[u].file
      <4>1. session'.files[f] = session.files[f] BY <2>4, <2>10, <3>3 DEF Broke
      <4>2. task[f] # NoUpload => up'[task[f]] = up[task[f]] BY <2>5, <3>3, <1>u
      <4> QED BY <2>3, <4>1, <4>2, <1>c
    <3> QED BY <3>2, <3>3
  <2> QED BY <2>6, <2>7, <2>8, <2>9, <2>10
<1> QED BY <1>1, <1>2, <1>3, <1>4, ReceiverAlone

LEMMA OtherAlone ==
  ASSUME TInv, Untouching, NEW u \in Upload, NEW r \in Req, r # Me, NEW f \in FilesOf[r],
         presp[r] = 200, R!UploadStarts(u, r, f) \/ R!UploadRefused(u, r, f)
  PROVE  TInv'
<1>t. R!TypeOK BY RTypes DEF TInv
<1>f. f \in FileId BY ReceiverAssumption
<1>u. /\ \A v \in Upload \ {u} : up'[v] = up[v]
      /\ up[u].pc = "idle" /\ up'[u].req = r
  BY <1>t, <1>f, RequestUp
<1>c. UNCHANGED <<sfiles, sstatus, task, left, quit>> BY DEF Untouching, Keeping, svars
<1>1. R!Next BY DEF R!Next, R!UploadRequest
<1>2. Receives' BY <1>c, <1>f, ReceivesRequest DEF TInv
<1>3. NoneNew BY <1>u DEF NoneNew
<1>4. CASE R!UploadStarts(u, r, f)
  <2>1. session \in R!Session /\ session.id = r
    BY <1>4, <1>t DEF R!UploadStarts, R!TokenValid, R!Active, R!TypeOK
  <2>2. session'.id = r BY <1>4, <2>1 DEF R!UploadStarts, R!Session
  <2>3. Matching' BY <2>2 DEF Matching, Shown
  <2> QED BY <1>1, <1>2, <1>3, <2>3, ReceiverAlone
<1>5. CASE R!UploadRefused(u, r, f)
  <2>1. session' = session BY <1>5 DEF R!UploadRefused
  <2>2. \A g \in File : task[g] # NoUpload => up'[task[g]] = up[task[g]]
    BY <1>u DEF TInv, Tasks
  <2>3. Matching' BY <2>1, <2>2, <1>c DEF TInv, Agreed, Matching, Good, Exists, Shown, R!Active
  <2> QED BY <1>1, <1>2, <1>3, <2>3, ReceiverAlone
<1> QED BY <1>4, <1>5

(* A request of the sender's arrives.                                      *)
LEMMA ArrivesStep ==
  ASSUME TInv, NEW u \in Upload, NEW f \in File, UploadArrives(u, f)
  PROVE  TInv'
<1>t. R!TypeOK BY RTypes DEF TInv
<1>m. Me \in Req /\ f \in FileId /\ FilesOf[Me] = File BY MyRequest
<1>n. R!UploadStarts(u, Me, f) \/ R!UploadRefused(u, Me, f) BY DEF UploadArrives
<1>u. /\ \A v \in Upload \ {u} : up'[v] = up[v]
      /\ up[u].pc = "idle" /\ up'[u].pc # "idle"
      /\ up'[u].req = Me /\ up'[u].file = f /\ up'[u].code # 200
  BY <1>t, <1>m, <1>n, RequestUp
<1>c. /\ Keeping /\ UNCHANGED <<spc, sstatus, sfiles, remote, worker, retrying, left>>
      /\ task' = [task EXCEPT ![f] = u] /\ task[f] = NoUpload
  BY DEF UploadArrives, Keeping, svars
<1>r. Sends(f) /\ remote /\ presp[Me] = 200
  BY RunningSends, RunningAccepted DEF TInv, IInv, UploadArrives
<1>k. task \in [File -> Upload \cup {NoUpload}] BY DEF TInv, Tasks
<1>l. \A g \in File : task'[g] = IF g = f THEN u ELSE task[g] BY <1>c, <1>k
<1>o. \A g \in File : task[g] # NoUpload => task[g] \in Upload /\ up'[task[g]] = up[task[g]]
  BY <1>u, <1>k DEF TInv, Tasks
<1>g. Good' <=> Good BY <1>c DEF Good, Exists
<1>1. R!Next BY <1>n, <1>m, <1>r DEF R!Next, R!UploadRequest
<1>2. Receives' BY <1>n, <1>m, <1>c, ReceivesRequest DEF TInv, Keeping
<1>3. Tasks'
  <2>1. task' \in [File -> Upload \cup {NoUpload}] BY <1>c, <1>k
  <2>2. \A g : Sends(g)' <=> Sends(g) BY <1>c DEF Sends
  <2>3. ASSUME NEW g \in File, task'[g] # NoUpload
        PROVE  Sends(g)' /\ up'[task'[g]].req = Me /\ up'[task'[g]].file = g
                         /\ up'[task'[g]].pc # "idle"
    <3>1. CASE g = f BY <3>1, <1>l, <1>u, <1>r, <2>2
    <3>2. CASE g # f BY <2>3, <3>2, <1>l, <1>o, <2>2 DEF TInv, Tasks
    <3> QED BY <3>1, <3>2
  <2> QED BY <2>1, <2>3 DEF Tasks
<1>4. Waited'
  <2> SUFFICES ASSUME NEW v \in Upload, up'[v].pc \in {"saving", "history"}, up'[v].req = Me
               PROVE  remote' /\ (Good' => task'[up'[v].file] = v)
    BY DEF Waited
  <2>1. CASE v = u BY <2>1, <1>u, <1>l, <1>r, <1>c
  <2>2. CASE v # u
    <3>1. up'[v] = up[v] BY <2>2, <1>u
    <3>2. remote /\ (Good => task[up[v].file] = v) BY <3>1 DEF TInv, Waited
    <3>3. up[v].file \in File BY <3>1, OwnUpload DEF TInv
    <3>4. v # NoUpload BY TransferAssumption
    <3> QED BY <3>1, <3>2, <3>3, <3>4, <1>l, <1>c, <1>g
  <2> QED BY <2>1, <2>2
<1>5. Matching'
  <2> SUFFICES ASSUME Good', Shown', NEW g \in File
               PROVE  /\ sfiles'[g] = "finished" => session'.files[g] = "finished"
                      /\ task'[g] # NoUpload /\ up'[task'[g]].code = 200
                           => session'.files[g] = "finished"
    BY DEF Matching
  <2>1. CASE g = f
    <3>1. sfiles[f] = "sending" BY <1>r, <1>g DEF TInv, IInv, Exact, Good
    <3> QED BY <2>1, <3>1, <1>c, <1>l, <1>u
  <2>2. CASE g # f
    <3>1. CASE R!UploadRefused(u, Me, f)
      <4>1. session' = session BY <3>1 DEF R!UploadRefused
      <4>2. Shown BY <4>1 DEF Shown, R!Active
      <4> QED BY <2>2, <4>1, <4>2, <1>c, <1>l, <1>o, <1>g DEF TInv, Agreed, Matching
    <3>2. CASE R!UploadStarts(u, Me, f)
      <4>1. Shown /\ session \in R!Session
        BY <3>2, <1>t DEF R!UploadStarts, R!TokenValid, Shown, R!Active, R!TypeOK
      <4>2. session'.files = [session.files EXCEPT ![f] = "sending"]
        BY <3>2, <4>1 DEF R!UploadStarts, R!Session
      <4>3. session'.files[g] = session.files[g] BY <4>1, <4>2, <2>2 DEF R!Session
      <4> QED BY <2>2, <4>1, <4>3, <1>c, <1>l, <1>o, <1>g DEF TInv, Agreed, Matching
    <3> QED BY <3>1, <3>2, <1>n
  <2> QED BY <2>1, <2>2
<1> QED BY <1>1, <1>2, <1>3, <1>4, <1>5, <1>c, ReceiverRest

-----------------------------------------------------------------------------
(* Steps of the sender alone.                                              *)

LEMMA SenderRest ==
  ASSUME TInv, [SNext]_svars, UNCHANGED rvars, quit # "no" => quit' # "no",
         Remote', Gone', Tasks', Waited', Agreed', SentMeansSaved'
  PROVE  TInv'
<1>1. IInv' BY NextIInv DEF TInv
<1>2. RP!IInv' BY ReceiverStep DEF TInv
<1>3. UNCHANGED <<running, session, prep, presp, up, granted>> BY DEF rvars
<1>4. Asked' BY <1>3 DEF TInv, Asked
<1>5. Receives' BY <1>3, ReceivesSame DEF TInv
<1> QED BY <1>1, <1>2, <1>4, <1>5 DEF TInv

(* The sender's session is created, ended or moved; no file is touched.    *)
LEMMA SenderAside ==
  ASSUME TInv, [SNext]_svars, UNCHANGED rvars, UNCHANGED <<sfiles, remote, worker, retrying, task>>,
         sstatus' \in {"sending", "finished"} => sstatus' = sstatus,
         sstatus = "none" \/ sstatus = "canceledByReceiver" =>
           sstatus' \in {"none", "canceledByReceiver"} \/ spc = "idle",
         left' = left,
         spc' \in {"idle", "posted", "pin"} => spc \in {"idle", "posted", "pin"},
         quit # "no" => quit' # "no", Gone'
  PROVE  TInv'
<1>1. UNCHANGED <<session, presp, up, granted, saved>> BY DEF rvars
<1>s. \A f : Sends(f)' <=> Sends(f) BY DEF Sends
<1>2. Remote' BY <1>1, <1>s DEF TInv, Remote
<1>3. Tasks' BY <1>1, <1>s DEF TInv, Tasks
<1>4. SentMeansSaved' BY <1>1 DEF TInv, SentMeansSaved
<1>5. Good' => Good \/ ~ remote BY DEF Good, Exists, TInv, Remote
<1>6. Waited' BY <1>1, <1>5 DEF TInv, Waited
<1>7. ~ remote => \A f \in File : sfiles[f] = "queue" /\ task[f] = NoUpload
  BY DEF TInv, Remote, Tasks
<1>8. Agreed'
  <2>1. Shown' <=> Shown BY <1>1 DEF Shown, R!Active
  <2>2. Matching' BY <2>1, <1>1, <1>5, <1>7 DEF TInv, Agreed, Matching
  <2> QED BY <2>2, <1>1 DEF TInv, Agreed
<1> QED BY <1>2, <1>3, <1>4, <1>6, <1>8, SenderRest

(* The receiver's answer brings the files that were accepted.              *)
LEMMA AcceptedTransfer ==
  ASSUME TInv, [SNext]_svars, UNCHANGED <<rvars, nvars>>, presp[Me] = 200, Exists,
         PostAccepted({f \in File : <<Me, f>> \in granted})
  PROVE  TInv'
<1> DEFINE sel == {f \in File : <<Me, f>> \in granted}
<1>1. UNCHANGED <<session, presp, up, granted, saved, task, left, quit, toReceiver>>
  BY DEF rvars, nvars
<1>2. /\ spc = "posted" /\ spc' = "loop" /\ remote' /\ sstatus' = "sending"
      /\ sfiles' = [f \in File |-> IF f \notin sel THEN "skipped"
                                   ELSE IF \E w \in Worker : worker'[w] = f THEN "sending"
                                   ELSE "queue"]
  BY DEF PostAccepted
<1>3. \A f \in File : sfiles'[f] \in {"skipped", "sending", "queue"} /\ (sfiles'[f] = "skipped" => f \notin sel)
  BY <1>2
<1>4. ~ remote BY <1>2 DEF TInv, Remote
<1>5. \A f \in File : task[f] = NoUpload BY <1>4 DEF TInv, Remote, Tasks
<1>6. \A u \in Upload : ~ (up[u].pc \in {"saving", "history"} /\ up[u].req = Me)
  BY <1>4 DEF TInv, Waited
<1>7. Remote' BY <1>1, <1>2 DEF Remote
<1>8. Gone' BY <1>1, <1>2 DEF TInv, Gone, Exists
<1>9. Tasks' BY <1>1, <1>5 DEF TInv, Tasks
<1>10. Waited' BY <1>1, <1>6 DEF Waited
<1>11. Agreed' BY <1>1, <1>3, <1>5 DEF Agreed, Matching
<1>12. SentMeansSaved' BY <1>3 DEF SentMeansSaved
<1> QED BY <1>1, <1>7, <1>8, <1>9, <1>10, <1>11, <1>12, SenderRest

(* What the sender does when its call for f returns.                       *)
LEMMA RecordsFacts ==
  ASSUME STypeOK, NEW f \in File, NEW ok \in BOOLEAN, SenderRecords(f, ok)
  PROVE  /\ \A g \in File : sfiles'[g] = "finished" => sfiles[g] = "finished" \/ (g = f /\ ok)
         /\ \A g \in File : sfiles'[g] = "skipped" => sfiles[g] = "skipped"
         /\ \A g \in File \ {f} : Sends(g) => Sends(g)'
         /\ remote' = remote /\ spc' \in {spc, "end"}
         /\ \/ sstatus' = sstatus
            \/ sstatus = "sending" /\ sstatus' \in {"none", "finished", "finishedWithErrors"}
<1>r. /\ Recorded(f, ok) \in [File -> {"queue", "skipped", "sending", "failed", "finished"}]
      /\ \A g \in File : Recorded(f, ok)[g] = IF g = f /\ Exists THEN Outcome(ok) ELSE sfiles[g]
  BY RecordedType
<1>o. Outcome(ok) = IF ok THEN "finished" ELSE "failed" BY DEF Outcome
<1>q. ASSUME NEW g \in File, sfiles'[g] \in {Recorded(f, ok)[g], "sending"}
      PROVE  /\ sfiles'[g] = "finished" => sfiles[g] = "finished" \/ (g = f /\ ok)
             /\ sfiles'[g] = "skipped" => sfiles[g] = "skipped"
  <2>1. CASE g = f /\ Exists BY <1>q, <1>r, <1>o, <2>1
  <2>2. CASE ~ (g = f /\ Exists)
    <3>1. Recorded(f, ok)[g] = sfiles[g] BY <1>r, <2>2
    <3>2. sfiles'[g] = sfiles[g] \/ sfiles'[g] = "sending" BY <1>q, <3>1
    <3>3. sfiles'[g] = "finished" => sfiles[g] = "finished" BY <3>2
    <3>4. sfiles'[g] = "skipped" => sfiles[g] = "skipped" BY <3>2
    <3> QED BY <3>3, <3>4, Zenon
  <2> QED BY <2>1, <2>2
<1>1. ASSUME NEW w \in Worker, worker[w] = f, TaskEnds(w, ok)
      PROVE  /\ \A g \in File : sfiles'[g] \in {Recorded(f, ok)[g], "sending"}
             /\ \A g \in File \ {f} : Sends(g) => Sends(g)'
             /\ remote' = remote /\ spc' \in {spc, "end"}
             /\ \/ sstatus' = sstatus
                \/ sstatus = "sending" /\ sstatus' \in {"none", "finished", "finishedWithErrors"}
  <2>1. sfiles' = Recorded(f, ok) \/ sfiles' = [Recorded(f, ok) EXCEPT ![First(queue)] = "sending"]
    BY <1>1 DEF TaskEnds
  <2>2. \A g \in File : sfiles'[g] \in {Recorded(f, ok)[g], "sending"} BY <2>1, <1>r
  <2>3. retrying' = retrying /\ remote' = remote /\ spc' \in {spc, "end"} BY <1>1 DEF TaskEnds
  <2>4. \A v \in Worker \ {w} : worker'[v] = worker[v] BY <1>1 DEF TaskEnds, STypeOK
  <2>5. \A g \in File \ {f} : Sends(g) => Sends(g)' BY <1>1, <2>3, <2>4 DEF Sends
  <2>6. \/ sstatus' = sstatus
        \/ sstatus = "sending" /\ sstatus' \in {"none", "finished", "finishedWithErrors"}
    BY <1>1, FinishType DEF TaskEnds
  <2> QED BY <2>2, <2>3, <2>5, <2>6
<1>2. CASE RetryEnds(f, ok)
  <2>1. sfiles' = Recorded(f, ok) /\ worker' = worker /\ retrying' = retrying \ {f}
        /\ remote' = remote /\ spc' = spc
    BY <1>2 DEF RetryEnds
  <2>2. \A g \in File \ {f} : Sends(g) => Sends(g)' BY <2>1 DEF Sends
  <2>3. \/ sstatus' = sstatus
        \/ sstatus = "sending" /\ sstatus' \in {"none", "finished", "finishedWithErrors"}
    BY <1>2, FinishType DEF RetryEnds
  <2>4. \A g \in File : sfiles'[g] \in {Recorded(f, ok)[g], "sending"} BY <2>1
  <2> QED BY <2>1, <2>2, <2>3, <2>4, <1>q
<1>3. CASE \E w \in Worker : worker[w] = f /\ TaskEnds(w, ok)
  <2>1. PICK w \in Worker : worker[w] = f /\ TaskEnds(w, ok) BY <1>3
  <2>2. \A g \in File : sfiles'[g] \in {Recorded(f, ok)[g], "sending"} BY <1>1, <2>1
  <2> QED BY <1>1, <2>1, <2>2, <1>q
<1> QED BY <1>2, <1>3 DEF SenderRecords

LEMMA RecordsStep ==
  ASSUME TInv, [SNext]_svars, NEW f \in File, NEW ok \in BOOLEAN, SenderRecords(f, ok),
         left \subseteq left', f \in Running,
         ok => task[f] # NoUpload /\ up[task[f]].code = 200,
         Good' => ~ AtWork(f)
  PROVE  TInv'
<1>t. R!TypeOK BY RTypes DEF TInv
<1>y. STypeOK BY DEF TInv, IInv
<1>1. UNCHANGED rvars /\ UNCHANGED <<quit, toReceiver>> /\ task' = [task EXCEPT ![f] = NoUpload]
  BY DEF SenderRecords
<1>2. UNCHANGED <<session, presp, up, granted, saved>> BY <1>1 DEF rvars
<1>3. /\ \A g \in File : sfiles'[g] = "finished" => sfiles[g] = "finished" \/ (g = f /\ ok)
      /\ \A g \in File : sfiles'[g] = "skipped" => sfiles[g] = "skipped"
      /\ \A g \in File \ {f} : Sends(g) => Sends(g)'
      /\ remote' = remote /\ spc' \in {spc, "end"}
      /\ \/ sstatus' = sstatus
         \/ sstatus = "sending" /\ sstatus' \in {"none", "finished", "finishedWithErrors"}
  BY <1>y, RecordsFacts
<1>4. remote /\ presp[Me] = 200 BY <1>y, RunningAccepted DEF TInv
<1>5. task \in [File -> Upload \cup {NoUpload}] BY DEF TInv, Tasks
<1>6. \A g \in File : task'[g] = IF g = f THEN NoUpload ELSE task[g] BY <1>1, <1>5
<1>7. Good' => Good BY <1>3 DEF Good, Exists
<1>8. Remote' BY <1>2, <1>3, <1>4 DEF TInv, Remote
<1>9. Gone' BY <1>1, <1>3 DEF TInv, Gone
<1>10. Tasks'
  <2>1. task' \in [File -> Upload \cup {NoUpload}] BY <1>1, <1>5
  <2>2. \A g \in File : task'[g] # NoUpload => g # f /\ task'[g] = task[g] BY <1>6
  <2>3. \A g \in File : task'[g] # NoUpload =>
          Sends(g)' /\ up'[task'[g]].req = Me /\ up'[task'[g]].file = g /\ up'[task'[g]].pc # "idle"
    BY <2>2, <1>2, <1>3 DEF TInv, Tasks
  <2> QED BY <2>1, <2>3 DEF Tasks
<1>11. Waited'
  <2> SUFFICES ASSUME NEW u \in Upload, up[u].pc \in {"saving", "history"}, up[u].req = Me
               PROVE  remote' /\ (Good' => task'[up[u].file] = u)
    BY <1>2 DEF Waited
  <2>1. up[u].file \in File BY OwnUpload DEF TInv
  <2>2. ASSUME Good' PROVE task'[up[u].file] = u
    <3>1. task[up[u].file] = u BY <2>2, <1>7 DEF TInv, Waited
    <3>2. up[u].file # f
      <4>1. ~ AtWork(f) BY <2>2
      <4>2. u # NoUpload BY TransferAssumption
      <4> QED BY <3>1, <4>1, <4>2 DEF AtWork
    <3> QED BY <3>1, <3>2, <2>1, <1>6
  <2> QED BY <2>2, <1>3, <1>4
<1>12. Agreed'
  <2>1. ASSUME Good', Shown', NEW g \in File
        PROVE  /\ sfiles'[g] = "finished" => session'.files[g] = "finished"
               /\ task'[g] # NoUpload /\ up'[task'[g]].code = 200 => session'.files[g] = "finished"
    <3>1. Shown BY <2>1, <1>2 DEF Shown, R!Active
    <3>2. /\ sfiles[g] = "finished" => session.files[g] = "finished"
          /\ task[g] # NoUpload /\ up[task[g]].code = 200 => session.files[g] = "finished"
      BY <2>1, <3>1, <1>7 DEF TInv, Agreed, Matching
    <3> QED BY <3>2, <1>2, <1>3, <1>6
  <2>2. \A g \in File : sfiles'[g] = "skipped" => <<Me, g>> \notin granted'
    BY <1>2, <1>3, <1>4 DEF TInv, Agreed
  <2> QED BY <2>1, <2>2 DEF Agreed, Matching
<1>13. SentMeansSaved'
  <2> SUFFICES ASSUME NEW g \in File, sfiles'[g] = "finished"
               PROVE  \E u \in saved : up[u].req = Me /\ up[u].file = g
    BY <1>2 DEF SentMeansSaved
  <2>1. CASE sfiles[g] = "finished" BY <2>1 DEF TInv, SentMeansSaved
  <2>2. CASE g = f /\ ok
    <3>1. task[f] \in Upload BY <2>2, <1>5
    <3>2. task[f] \in saved BY <2>2, <3>1 DEF TInv, RP!IInv, RP!AckMeansSaved
    <3>3. up[task[f]].req = Me /\ up[task[f]].file = f BY <2>2 DEF TInv, Tasks
    <3> QED BY <2>2, <3>2, <3>3
  <2> QED BY <2>1, <2>2, <1>3
<1> QED BY <1>1, <1>8, <1>9, <1>10, <1>11, <1>12, <1>13, SenderRest

LEMMA RetryTransfer ==
  ASSUME TInv, [SNext]_svars, NEW f \in File, RetryFile(f)
  PROVE  TInv'
<1>1. UNCHANGED <<rvars, nvars>> /\ Retry(f) BY DEF RetryFile
<1>2. UNCHANGED <<session, presp, up, granted, saved, task, toReceiver, quit, left>>
  BY <1>1 DEF rvars, nvars
<1>3. /\ sfiles[f] = "failed" /\ sstatus \in {"sending", "finishedWithErrors"}
      /\ sstatus' = "sending" /\ sfiles' = [sfiles EXCEPT ![f] = "sending"]
      /\ retrying' = retrying \cup {f} /\ UNCHANGED <<spc, remote, worker>>
  BY <1>1 DEF Retry, MaySend, AllowedStates
<1>4. \A g \in File : sfiles'[g] = IF g = f THEN "sending" ELSE sfiles[g]
  BY <1>3 DEF TInv, IInv, STypeOK
<1>5. \A g : Sends(g) => Sends(g)' BY <1>3 DEF Sends
<1>6. remote BY <1>3 DEF TInv, Remote
<1>7. Good' <=> Good BY <1>2, <1>3 DEF Good, Exists
<1>8. Remote' BY <1>2, <1>3, <1>6 DEF TInv, Remote
<1>9. Gone' BY <1>2, <1>3 DEF TInv, Gone
<1>10. Tasks' BY <1>2, <1>5 DEF TInv, Tasks
<1>11. Waited' BY <1>2, <1>3, <1>7 DEF TInv, Waited
<1>12. Agreed'
  <2>1. Shown' <=> Shown BY <1>2 DEF Shown, R!Active
  <2>2. Matching' BY <2>1, <1>2, <1>4, <1>7 DEF TInv, Agreed, Matching
  <2> QED BY <2>2, <1>2, <1>3, <1>4 DEF TInv, Agreed
<1>13. SentMeansSaved' BY <1>2, <1>4 DEF TInv, SentMeansSaved
<1> QED BY <1>1, <1>2, <1>8, <1>9, <1>10, <1>11, <1>12, <1>13, SenderRest

-----------------------------------------------------------------------------
(* The whole.                                                              *)

LEMMA InitTInv == TInit => TInv
<1> SUFFICES ASSUME TInit PROVE TInv OBVIOUS
<1>m. Me \in Req BY MyRequest
<1>1. IInv BY InitIInv DEF TInit
<1>2. RP!IInv BY SameInit, RP!InitSafe, ReceiverAssumption, NoSessionOutside DEF TInit
<1>3. Asked BY <1>m DEF TInit, R!Init, Asked
<1>4. /\ spc = "idle" /\ sstatus = "none" /\ ~ remote /\ retrying = {}
      /\ \A f \in File : sfiles[f] = "queue"
      /\ \A w \in Worker : worker[w] = NoFile
  BY DEF TInit, SInit
<1>5. \A f \in File : ~ Sends(f) BY <1>4, SendAssumption DEF Sends
<1>6. Remote BY <1>4, <1>5 DEF Remote
<1>7. Gone BY <1>4 DEF TInit, Gone
<1>8. Receives BY DEF TInit, R!Init, Receives, Shown, R!Active
<1>9. Tasks BY DEF TInit, Tasks
<1>10. \A u \in Upload : up[u].pc = "idle" BY DEF TInit, R!Init
<1>11. Waited BY <1>10 DEF Waited
<1>12. Agreed BY <1>4 DEF Agreed, Matching, Good, Exists
<1>13. SentMeansSaved BY <1>4 DEF SentMeansSaved
<1> QED BY <1>1, <1>2, <1>3, <1>6, <1>7, <1>8, <1>9, <1>11, <1>12, <1>13 DEF TInv

LEMMA NextTInv == TInv /\ [TNext]_tvars => TInv'
<1> SUFFICES ASSUME TInv, [TNext]_tvars PROVE TInv' OBVIOUS
<1>t. R!TypeOK BY RTypes DEF TInv
<1>y. STypeOK BY DEF TInv, IInv
<1>s. [SNext]_svars BY <1>t, <1>y, SenderMoves DEF TInv
<1>m. Me \in Req BY MyRequest
<1>n. [R!Next]_rvars BY <1>t, <1>y, ReceiverMoves DEF TInv
<1>1. CASE Prepare
  <2>1. Untouching /\ R!PrepareHandler(Me) BY <1>1 DEF Prepare, Untouching, Keeping, nvars
  <2> QED BY <2>1, <1>m, PrepareAlone
<1>2. CASE ReceiverExits \/ ReceiverUser \/ Restart
  <2>1. Untouching BY <1>2 DEF ReceiverExits, ReceiverUser, Restart, Untouching, Keeping, nvars
  <2> QED BY <1>2, <2>1, UserAlone DEF ReceiverExits, ReceiverUser, Restart
<1>3. ASSUME NEW u \in Upload, ReceiverWorks(u) PROVE TInv'
  <2>1. Untouching BY <1>3 DEF ReceiverWorks, Untouching, Keeping, nvars
  <2> QED BY <1>3, <2>1, WorksAlone DEF ReceiverWorks
<1>4. ASSUME NEW r \in Req, OtherDevice(r) PROVE TInv'
  <2>1. Untouching /\ r # Me BY <1>4 DEF OtherDevice, Untouching, Keeping, nvars
  <2>2. CASE R!PrepareHandler(r) BY <2>1, <2>2, PrepareAlone
  <2>3. ASSUME NEW u \in Upload, NEW f \in FilesOf[r], presp[r] = 200,
               R!UploadStarts(u, r, f) \/ R!UploadRefused(u, r, f)
        PROVE  TInv'
    BY <2>1, <2>3, OtherAlone
  <2>4. CASE R!Cancel(IpOf[r], r)
    <3>1. R!Next BY <2>4 DEF R!Next
    <3> QED BY <2>1, <2>4, <3>1, CancelAlone
  <2> QED BY <1>4, <2>2, <2>3, <2>4 DEF OtherDevice
<1>5. ASSUME NEW f \in File, NEW u \in Upload, UploadArrives(u, f) PROVE TInv'
  BY <1>5, ArrivesStep
<1>6. ASSUME NEW sid \in {Me, NoReq}, CancelReachesReceiver(sid) PROVE TInv'
  <2>1. Untouching BY <1>6 DEF CancelReachesReceiver, Untouching, Keeping
  <2>2. quit # "no" BY <1>6 DEF CancelReachesReceiver, TInv, Gone
  <2>3. CASE R!Cancel(IpOf[Me], sid)
    <3>1. CASE R!Next BY <2>1, <2>2, <2>3, <3>1, CancelAlone
    <3>2. CASE UNCHANGED rvars
      <4>1. UNCHANGED <<running, session, up, prep, granted>> BY <3>2 DEF rvars
      <4>2. Receives' BY <4>1, <2>1, ReceivesSame DEF TInv, Untouching, Keeping
      <4>3. Matching' BY <4>1, <2>1, MatchingSame DEF TInv, Agreed, Shown, R!Active
      <4> QED BY <3>2, <4>1, <4>2, <4>3, <2>1, NoneNewSame, ReceiverAlone
    <3> QED BY <3>1, <3>2, <1>n
  <2>4. CASE UNCHANGED rvars
    <3>1. UNCHANGED <<running, session, up, prep, granted>> BY <2>4 DEF rvars
    <3>2. Receives' BY <3>1, <2>1, ReceivesSame DEF TInv, Untouching, Keeping
    <3>3. Matching' BY <3>1, <2>1, MatchingSame DEF TInv, Agreed, Shown, R!Active
    <3> QED BY <2>4, <3>1, <3>2, <3>3, <2>1, NoneNewSame, ReceiverAlone
  <2> QED BY <1>6, <2>3, <2>4 DEF CancelReachesReceiver
<1>7. CASE Post
  BY <1>7, <1>s, SenderAside DEF Post, CreateSession, nvars, TInv, Gone
<1>8. CASE PostAnswered
  <2>1. UNCHANGED <<rvars, nvars>> /\ spc = "posted" BY <1>8 DEF PostAnswered
  <2>2. CASE presp[Me] = 200
    <3>1. PostAccepted({f \in File : <<Me, f>> \in granted})
      BY <1>8, <2>2 DEF PostAnswered, Answered
    <3>2. CASE Exists BY <2>1, <2>2, <3>1, <3>2, <1>s, AcceptedTransfer
    <3>3. CASE ~ Exists
      <4>1. UNCHANGED <<sstatus, sfiles, remote, worker, retrying>> /\ spc' = "end"
        BY <3>1, <3>3 DEF PostAccepted
      <4> QED BY <2>1, <3>3, <4>1, <1>s, SenderAside DEF nvars, TInv, Gone, Exists
    <3> QED BY <3>2, <3>3
  <2>3. CASE presp[Me] = 204 /\ PostNothing
    BY <2>1, <2>3, <1>s, SenderAside DEF PostNothing, nvars, TInv, Gone
  <2>4. ASSUME NEW code, PostRefused(code) PROVE TInv'
    BY <2>1, <2>4, <1>s, <1>y, SenderAside
       DEF PostRefused, WithStatus, StatusOf, Exists, nvars, TInv, Gone, IInv, Unanswered
  <2> QED BY <1>8, <2>2, <2>3, <2>4 DEF PostAnswered, Answered
<1>9. CASE PostBroken
  BY <1>9, <1>s, SenderAside
     DEF PostBroken, PostRefused, WithStatus, StatusOf, Exists, nvars, TInv, Gone, IInv, Unanswered
<1>10. ASSUME NEW f \in File, UploadAnswered(f) PROVE TInv'
  <2>1. /\ f \in Running /\ task[f] # NoUpload /\ up[task[f]].pc = "done"
        /\ SenderRecords(f, up[task[f]].code = 200) /\ left' = left
    BY <1>10 DEF UploadAnswered
  <2>2. ~ AtWork(f) BY <2>1 DEF AtWork
  <2> QED BY <2>1, <2>2, <1>s, RecordsStep
<1>11. ASSUME NEW f \in File, UploadBroken(f) PROVE TInv'
  <2>1. f \in Running /\ SenderRecords(f, FALSE) /\ left' = IF AtWork(f) THEN left \cup {f} ELSE left
    BY <1>11 DEF UploadBroken
  <2>2. Good' => ~ AtWork(f) BY <2>1 DEF Good
  <2> QED BY <2>1, <2>2, <1>s, RecordsStep
<1>12. ASSUME NEW f \in File, UploadAborted(f) PROVE TInv'
  <2>1. f \in Running /\ SenderRecords(f, FALSE) /\ left' = left BY <1>12 DEF UploadAborted
  <2>2. sstatus \in {"none", "canceledByReceiver"} BY <1>12 DEF UploadAborted, TInv, Gone
  <2>3. sstatus' = sstatus BY <2>1, <2>2, <1>y, RecordsFacts
  <2>4. ~ Good' BY <2>2, <2>3 DEF Good, Exists
  <2> QED BY <2>1, <2>4, <1>s, RecordsStep
<1>13. ASSUME NEW f \in File, RetryFile(f) PROVE TInv' BY <1>13, <1>s, RetryTransfer
<1>14. CASE SenderCancels
  BY <1>14, <1>s, SenderAside DEF SenderCancels, CancelByUser, TInv, Gone, Exists
<1>15. ASSUME NEW sid, CancelLost(sid) PROVE TInv'
  <2>1. UNCHANGED <<svars, rvars, task, quit, left>> /\ toReceiver' = toReceiver \ {sid} /\ sid \in toReceiver
    BY <1>15 DEF CancelLost
  <2> QED BY <2>1, <1>s, SenderAside DEF svars, TInv, Gone
<1>16. CASE CancelReachesSender
  BY <1>16, <1>s, SenderAside DEF CancelReachesSender, CancelByReceiver, svars, TInv, Gone
<1>17. CASE SenderAlone \/ SenderClears
  BY <1>17, <1>s, SenderAside
     DEF SenderAlone, SenderClears, CloseSession, SetBackground, ClearAllSessions, nvars, TInv, Gone
<1>18. CASE UNCHANGED tvars
  BY <1>18, <1>s, SenderAside DEF tvars, svars, nvars, TInv, Gone
<1> QED BY <1>1, <1>2, <1>3, <1>4, <1>5, <1>6, <1>7, <1>8, <1>9, <1>10, <1>11, <1>12, <1>13,
           <1>14, <1>15, <1>16, <1>17, <1>18 DEF TNext, Network, Faults, Users

LEMMA SuccessIs == TInv => SuccessAgreed
<1> SUFFICES ASSUME TInv, AtRest, sstatus = "finished", R!Active, session.id = Me, left = {},
                    \A f \in File : sfiles[f] \in {"finished", "skipped"}
             PROVE  session.status = "finished"
  BY DEF SuccessAgreed
<1>1. Shown /\ Good BY DEF Shown, Good, Exists
<1>2. remote /\ presp[Me] = 200 BY DEF TInv, Remote
<1>3. prep[Me] = "done" BY <1>2 DEF TInv, Asked
<1>4. ~ session.handler BY <1>1, <1>3 DEF TInv, Receives
<1>5. quit = "no" BY DEF TInv, Gone
<1>6. session.status \notin {"waiting", "canceledBySender"} BY <1>1, <1>4, <1>5 DEF TInv, Receives
<1>7. \A f \in File : session.files[f] \in {"finished", "skipped"}
  <2> SUFFICES ASSUME NEW f \in File PROVE session.files[f] \in {"finished", "skipped"} OBVIOUS
  <2>1. CASE sfiles[f] = "finished" BY <2>1, <1>1 DEF TInv, Agreed, Matching
  <2>2. CASE sfiles[f] = "skipped"
    <3>1. <<Me, f>> \notin granted BY <2>2, <1>2 DEF TInv, Agreed
    <3> QED BY <3>1, <1>1, <1>4 DEF TInv, Receives
  <2> QED BY <2>1, <2>2
<1>8. ~ \E u \in Upload : up[u].pc = "history" BY DEF AtRest
<1>9. session.status \notin R!AllowedStates BY <1>1, <1>7, <1>8 DEF TInv, Receives
<1>10. session.status \in R!SessionStatus BY <1>1, ShownFiles DEF TInv, R!Session
<1> QED BY <1>6, <1>9, <1>10 DEF R!AllowedStates, R!SessionStatus

THEOREM TransferInvariant == TSpec => []TInv
BY InitTInv, NextTInv, PTL DEF TSpec

(* SentMeansSaved for any number of files, workers, retries, uploads and   *)
(* other devices: whatever breaks, restarts or takes the session over, the *)
(* sender shows a file as sent (sendFile, send_session_service.dart) only  *)
(* if the receiver's handler (_uploadHandler, receive_controller.dart) has *)
(* saved it in an upload of the sender's own session.                      *)
THEOREM SentIsSaved == TSpec => []SentMeansSaved
<1>1. TInv => SentMeansSaved BY DEF TInv
<1> QED BY <1>1, TransferInvariant, PTL

(* SuccessAgreed for every instance: when the sender's _finish has shown   *)
(* "finished" with every file sent, and no upload was left behind at the   *)
(* receiver, the receiver's last _uploadHandler has settled the session as *)
(* "finished" too.                                                         *)
THEOREM SuccessIsAgreed == TSpec => []SuccessAgreed
BY SuccessIs, TransferInvariant, PTL

(* The sender connected to the receiver is a sender as SendSession says,   *)
(* and the receiver one as ReceiveServer says: what was shown of each with *)
(* an arbitrary peer holds of the two together.                            *)
THEOREM TransferRefines == TSpec => SSpec /\ R!Spec
<1>1. TInit => SInit /\ R!Init BY DEF TInit
<1>2. TInv => STypeOK /\ R!TypeOK /\ Asked /\ Remote BY RTypes DEF TInv, IInv
<1>3. TInv /\ [TNext]_tvars => [SNext]_svars BY <1>2, SenderMoves
<1>4. TInv /\ [TNext]_tvars => [R!Next]_(R!vars) BY <1>2, ReceiverMoves DEF rvars, R!vars
<1> QED BY <1>1, <1>3, <1>4, TransferInvariant, PTL DEF TSpec, SSpec, R!Spec
=============================================================================

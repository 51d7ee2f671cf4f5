----------------------------- MODULE ExportJobs -----------------------------
(***************************************************************************)
(* The export center (service/export_center_service.go): one export job,   *)
(* the dispatches that hand it to an adapter, the attempts that run it and *)
(* the download handoff of its result.                                     *)
(*                                                                         *)
(* Every request reads the job row, reads the latest dispatch, the latest  *)
(* attempt or the event list, decides on what it has read, and commits one *)
(* transaction whose updates name a row by its id and compare nothing:     *)
(* other requests may commit between the reads and the commit.  A          *)
(* transaction is one step: each one appends an event and so holds the     *)
(* lock of the job's event sequence until it ends.                         *)
(*                                                                         *)
(* finished_at is written together with status in every update and is left *)
(* out; of the time of expiry only whether it is unset, ahead or past is   *)
(* kept.                                                                   *)
(***************************************************************************)
EXTENDS Naturals, Sequences, FiniteSets, SequencesExt

CONSTANTS
    Operators,      \* requests that create, start and advance the job
    Dispatchers,    \* requests that submit and advance dispatches
    Readers,        \* requests that claim, read and refresh the download
    MaxDispatches,  \* bound: dispatches of the job
    MaxAttempts,    \* bound: attempts of the job
    MaxRefs         \* bound: result references issued

ASSUME BoundsAssumption ==
    /\ MaxDispatches \in Nat
    /\ MaxAttempts \in Nat
    /\ MaxRefs \in Nat
ASSUME RolesAssumption ==
    /\ Operators \cap Dispatchers = {}
    /\ Operators \cap Readers = {}
    /\ Dispatchers \cap Readers = {}

VARIABLES
    row,        \* export_jobs: status, and the key and expiry of result_ref
    refs,       \* how many result reference keys have been issued
    dispatches, \* export_job_dispatches: statuses by dispatch_no
    attempts,   \* export_job_attempts: status and dispatch by attempt_no
    logged,     \* the status named by the last lifecycle event
    won,        \* the attempts an attempt_succeeded event names
    granted,    \* the keys download_claimed and download_read events name
    expired,    \* the keys download_expired events name, in order
    req         \* what each request under way has read

vars == <<row, refs, dispatches, attempts, logged, won, granted, expired, req>>
jobVars == <<row, refs, logged>>
auditVars == <<won, granted, expired>>

Requests == Operators \cup Dispatchers \cup Readers

JobStatus == {"absent", "queued", "running", "ready", "failed", "cancelled"}
DispatchStatus ==
    {"submitted", "received", "rejected", "expired", "not_executed"}
AttemptStatus == {"running", "succeeded", "failed", "cancelled"}
Terminal == {"ready", "failed", "cancelled"}

AdvanceActions == {"mark_ready", "fail", "cancel", "requeue"}
DispatchActions == {"receive", "reject", "expire", "mark_not_executed"}
Ops == AdvanceActions \cup DispatchActions
         \cup {"idle", "start", "create", "access", "note", "refresh"}

Row == [status : JobStatus, ref : Nat, expiry : {"none", "live", "past"}]
Attempt == [status : AttemptStatus, dispatch : Nat]

\* A request: its operation, its next step, the job row it has read, the
\* number of the dispatch or attempt it acts on (0: none), and the keys it
\* has seen download_expired events for.
Request == [op : Ops, at : {"idle", "look", "commit"}, job : Row, no : Nat,
            known : SUBSET Nat]

NoJob == [status |-> "absent", ref |-> 0, expiry |-> "none"]
Idle == [op |-> "idle", at |-> "idle", job |-> NoJob, no |-> 0, known |-> {}]

TypeOK ==
    /\ row \in Row
    /\ refs \in Nat
    /\ dispatches \in Seq(DispatchStatus)
    /\ attempts \in Seq(Attempt)
    /\ logged \in JobStatus
    /\ won \in SUBSET Nat
    /\ granted \in SUBSET Nat
    /\ expired \in Seq(Nat)
    /\ req \in [Requests -> Request]

Init ==
    /\ row = NoJob
    /\ refs = 0
    /\ dispatches = << >>
    /\ attempts = << >>
    /\ logged = "absent"
    /\ won = {}
    /\ granted = {}
    /\ expired = << >>
    /\ req = [x \in Requests |-> Idle]

-----------------------------------------------------------------------------
(* The rules of the lifecycle.                                             *)

\* Mutant: a ready job can be cancelled.
AdmitsCancelOfReady(a) ==
    CASE a = "mark_ready" -> {"running"}
      [] a = "fail" -> {"queued", "running"}
      [] a = "cancel" -> {"queued", "running", "ready"}
      [] a = "requeue" -> {"failed", "cancelled"}

\* Mutant: a job is marked ready without having run.
AdmitsReadyUnstarted(a) ==
    CASE a = "mark_ready" -> {"queued", "running"}
      [] a = "fail" -> {"queued", "running"}
      [] a = "cancel" -> {"queued", "running"}
      [] a = "requeue" -> {"failed", "cancelled"}

\* nextExportJobLifecycleState: the statuses an action may be applied to,
\* and the one it leads to.
Admits(a) ==
    CASE a = "mark_ready" -> {"running"}
      [] a = "fail" -> {"queued", "running"}
      [] a = "cancel" -> {"queued", "running"}
      [] a = "requeue" -> {"failed", "cancelled"}

NextStatus(a) ==
    CASE a = "mark_ready" -> "ready"
      [] a = "fail" -> "failed"
      [] a = "cancel" -> "cancelled"
      [] a = "requeue" -> "queued"

\* ExportJobDispatchAdmission and ExportJobStartAdmission, with the status
\* of the latest dispatch or "none".
CanDispatch(s, latest) ==
    s = "queued" /\ latest \notin {"submitted", "received"}

CanStart(s, latest) == s = "queued" /\ latest # "submitted"

\* nextExportJobDispatchUpdate.
DispatchAdmits(a) ==
    CASE a = "receive" -> {"submitted"}
      [] a = "reject" -> {"submitted"}
      [] a = "expire" -> {"submitted", "received"}
      [] a = "mark_not_executed" -> {"received"}

DispatchNext(a) ==
    CASE a = "receive" -> "received"
      [] a = "reject" -> "rejected"
      [] a = "expire" -> "expired"
      [] a = "mark_not_executed" -> "not_executed"

LatestDispatch ==
    IF dispatches = << >> THEN "none" ELSE dispatches[Len(dispatches)]

\* Mutant: the attempt takes the name of the job's status.
AttemptOutcomeRaw(s) == s

\* buildExportJobAttemptUpdate.
AttemptOutcome(s) ==
    CASE s = "ready" -> "succeeded"
      [] s = "failed" -> "failed"
      [] OTHER -> "cancelled"

\* buildAdvancedResultRef keeps the key of the row that was read and gives
\* only a ready handoff an expiry, the caller's or one day ahead.
Expiries(s) == IF s = "ready" THEN {"live", "past"} ELSE {"none"}

\* UpdateLifecycle: the whole row, whatever it holds by now.
UpdateLifecycle(s, ref, e) ==
    row' = [status |-> s, ref |-> ref, expiry |-> e]

DownloadExpired(job) == job.status = "ready" /\ job.expiry = "past"
CanAccess(job) == job.status = "ready" /\ job.expiry = "live"

-----------------------------------------------------------------------------
(* The reads of a request.                                                 *)

Begin(x, op, at, no) ==
    /\ req[x].op = "idle"
    /\ row.status # "absent"
    /\ req' = [req EXCEPT ![x] = [op |-> op, at |-> at, job |-> row, no |-> no,
                                  known |-> {}]]
    /\ UNCHANGED <<jobVars, dispatches, attempts, auditVars>>

Ready(x, no) ==
    /\ req' = [req EXCEPT ![x] = [@ EXCEPT !.at = "commit", !.no = no]]
    /\ UNCHANGED <<jobVars, dispatches, attempts, auditVars>>

Done(x) == req' = [req EXCEPT ![x] = Idle]

\* A refused request, an error of the database or a crash of the server:
\* nothing of the request is left.
Abandon(x) ==
    /\ req[x].op # "idle"
    /\ Done(x)
    /\ UNCHANGED <<jobVars, dispatches, attempts, auditVars>>

StartJob(o) ==
    /\ row.status = "queued"
    /\ Begin(o, "start", "look", 0)

\* Mutant: the latest dispatch is used whatever became of it.
LookForStartAny(o) ==
    /\ req[o].op = "start" /\ req[o].at = "look"
    /\ CanStart(req[o].job.status, LatestDispatch)
    /\ Ready(o, Len(dispatches))

\* The received dispatch to run under; 0 stands for one to be made.
LookForStart(o) ==
    /\ req[o].op = "start" /\ req[o].at = "look"
    /\ CanStart(req[o].job.status, LatestDispatch)
    /\ Ready(o, IF LatestDispatch = "received" THEN Len(dispatches) ELSE 0)

AdvanceJob(o, a) ==
    /\ row.status \in Admits(a)
    /\ Begin(o, a, IF row.status = "running" THEN "look" ELSE "commit", 0)

\* latestAttemptForAdvance.
LookForAdvance(o) ==
    /\ req[o].op \in AdvanceActions /\ req[o].at = "look"
    /\ attempts # << >>
    /\ attempts[Len(attempts)].status = "running"
    /\ Ready(o, Len(attempts))

CreateJobDispatch(d) ==
    /\ row.status = "queued"
    /\ Begin(d, "create", "look", 0)

LookForCreate(d) ==
    /\ req[d].op = "create" /\ req[d].at = "look"
    /\ CanDispatch(req[d].job.status, LatestDispatch)
    /\ Ready(d, 0)

AdvanceJobDispatch(d, n, a) ==
    /\ row.status = "queued"
    /\ Begin(d, a, "look", n)

LookAtDispatch(d) ==
    /\ req[d].op \in DispatchActions /\ req[d].at = "look"
    /\ dispatches[req[d].no] \in DispatchAdmits(req[d].op)
    /\ Ready(d, req[d].no)

\* accessDownloadHandoff: a claim or a read of a live handoff is logged; one
\* of an expired handoff is refused and leaves a download_expired event.
AccessDownload(r) ==
    \/ CanAccess(row) /\ Begin(r, "access", "commit", 0)
    \/ DownloadExpired(row) /\ Begin(r, "note", "look", 0)

\* Mutant: a handoff without an expiry counts as expired, whatever the job's
\* status.
RefreshDownloadAnyStatus(r) ==
    row.expiry # "live" /\ Begin(r, "refresh", "look", 0)

RefreshDownload(r) == DownloadExpired(row) /\ Begin(r, "refresh", "look", 0)

\* The event list a refused access or a refresh looks for its key in.
ListEvents(r) ==
    /\ req[r].op \in {"note", "refresh"} /\ req[r].at = "look"
    /\ req' = [req EXCEPT ![r] =
                 [@ EXCEPT !.at = "commit", !.known = ToSet(expired)]]
    /\ UNCHANGED <<jobVars, dispatches, attempts, auditVars>>

-----------------------------------------------------------------------------
(* The transactions.                                                       *)

CreateJob ==
    /\ row.status = "absent"
    /\ refs' = refs + 1
    /\ UpdateLifecycle("queued", refs + 1, "none")
    /\ logged' = "queued"
    /\ UNCHANGED <<dispatches, attempts, auditVars, req>>

\* Mutant: the job runs without an attempt record.
CommitStartNoAttempt(o) ==
    LET auto == req[o].no = 0
    IN  /\ req[o].op = "start" /\ req[o].at = "commit"
        /\ auto => Len(dispatches) < MaxDispatches
        /\ dispatches' =
             IF auto THEN Append(dispatches, "received") ELSE dispatches
        /\ UpdateLifecycle("running", req[o].job.ref, "none")
        /\ logged' = "running"
        /\ Done(o)
        /\ UNCHANGED <<refs, attempts, auditVars>>

\* startJob: without a received dispatch one is submitted and received on
\* the spot.
CommitStart(o) ==
    LET auto == req[o].no = 0
        no == IF auto THEN Len(dispatches) + 1 ELSE req[o].no
    IN  /\ req[o].op = "start" /\ req[o].at = "commit"
        /\ Len(attempts) < MaxAttempts
        /\ auto => Len(dispatches) < MaxDispatches
        /\ dispatches' =
             IF auto THEN Append(dispatches, "received") ELSE dispatches
        /\ attempts' =
             Append(attempts, [status |-> "running", dispatch |-> no])
        /\ UpdateLifecycle("running", req[o].job.ref, "none")
        /\ logged' = "running"
        /\ Done(o)
        /\ UNCHANGED <<refs, auditVars>>

\* AdvanceJob: the row, the attempt that was read, and their events.
CommitAdvance(o) ==
    LET next == NextStatus(req[o].op)
        no == req[o].no
    IN  /\ req[o].op \in AdvanceActions /\ req[o].at = "commit"
        /\ \E e \in Expiries(next) : UpdateLifecycle(next, req[o].job.ref, e)
        /\ attempts' =
             IF no = 0 THEN attempts
             ELSE [attempts EXCEPT ![no] =
                     [@ EXCEPT !.status = AttemptOutcome(next)]]
        /\ won' = IF no # 0 /\ next = "ready" THEN won \cup {no} ELSE won
        /\ logged' = next
        /\ Done(o)
        /\ UNCHANGED <<refs, dispatches, granted, expired>>

CommitNewDispatch(d) ==
    /\ req[d].op = "create" /\ req[d].at = "commit"
    /\ Len(dispatches) < MaxDispatches
    /\ dispatches' = Append(dispatches, "submitted")
    /\ Done(d)
    /\ UNCHANGED <<jobVars, attempts, auditVars>>

CommitDispatch(d) ==
    /\ req[d].op \in DispatchActions /\ req[d].at = "commit"
    /\ dispatches' = [dispatches EXCEPT ![req[d].no] = DispatchNext(req[d].op)]
    /\ Done(d)
    /\ UNCHANGED <<jobVars, attempts, auditVars>>

CommitAccess(r) ==
    /\ req[r].op = "access" /\ req[r].at = "commit"
    /\ granted' = granted \cup {req[r].job.ref}
    /\ Done(r)
    /\ UNCHANGED <<jobVars, dispatches, attempts, won, expired>>

\* Mutant: the events already there are not looked at.
NoteExpiredAgain(r) == expired' = Append(expired, req[r].job.ref)

\* appendDownloadExpiredEventIfNeeded.
NoteExpired(r) ==
    expired' = IF req[r].job.ref \in req[r].known THEN expired
               ELSE Append(expired, req[r].job.ref)

CommitExpired(r) ==
    /\ req[r].op = "note" /\ req[r].at = "commit"
    /\ NoteExpired(r)
    /\ Done(r)
    /\ UNCHANGED <<jobVars, dispatches, attempts, won, granted>>

\* The status that was read is written back with a new key.
CommitRefresh(r) ==
    /\ req[r].op = "refresh" /\ req[r].at = "commit"
    /\ refs < MaxRefs
    /\ NoteExpired(r)
    /\ refs' = refs + 1
    /\ UpdateLifecycle(req[r].job.status, refs + 1, "live")
    /\ Done(r)
    /\ UNCHANGED <<logged, dispatches, attempts, won, granted>>

\* The time of expiry passes.
Lapse ==
    /\ row.expiry = "live"
    /\ row' = [row EXCEPT !.expiry = "past"]
    /\ UNCHANGED <<refs, logged, dispatches, attempts, auditVars, req>>

OperatorStep(o) ==
    \/ StartJob(o)
    \/ LookForStart(o)
    \/ CommitStart(o)
    \/ \E a \in AdvanceActions : AdvanceJob(o, a)
    \/ LookForAdvance(o)
    \/ CommitAdvance(o)

DispatcherStep(d) ==
    \/ CreateJobDispatch(d)
    \/ LookForCreate(d)
    \/ CommitNewDispatch(d)
    \/ \E n \in 1..Len(dispatches), a \in DispatchActions :
         AdvanceJobDispatch(d, n, a)
    \/ LookAtDispatch(d)
    \/ CommitDispatch(d)

ReaderStep(r) ==
    \/ AccessDownload(r)
    \/ RefreshDownload(r)
    \/ ListEvents(r)
    \/ CommitAccess(r)
    \/ CommitExpired(r)
    \/ CommitRefresh(r)

Next ==
    \/ CreateJob
    \/ \E o \in Operators : OperatorStep(o)
    \/ \E d \in Dispatchers : DispatcherStep(d)
    \/ \E r \in Readers : ReaderStep(r)
    \/ \E x \in Requests : Abandon(x)
    \/ Lapse

Spec == Init /\ [][Next]_vars

-----------------------------------------------------------------------------
(* Properties.                                                             *)

\* The transactions that rewrite what another request of the same role may
\* have read.
Commits(x) ==
    \/ CommitStart(x) \/ CommitAdvance(x)
    \/ CommitDispatch(x)
    \/ CommitExpired(x) \/ CommitRefresh(x)

\* One of a role that commits finds no other one of it under way; any number
\* may be, one after the other or to no effect.
CommitsAlone(role) ==
    \A x \in role : Commits(x) => \A y \in role \ {x} : req[y].op = "idle"

\* A running job can be finished, whatever requests overlap: its latest
\* attempt is running.  latestAttemptForAdvance refuses to finish a running
\* job whose latest attempt is missing or closed, and no other request
\* takes a job out of running, so a job that lost its attempt would run
\* for ever.
RunningHasItsAttempt ==
    row.status = "running" =>
        /\ attempts # << >>
        /\ attempts[Len(attempts)].status = "running"

\* A download is offered, and was ever granted, only after some attempt of
\* the job succeeded, even when a refresh writes back a status it read
\* earlier.
ReadyIsEarned ==
    row.status = "ready" \/ granted # {} => won # {}

\* While operators commit alone, the job and its attempts keep the promised
\* lifecycle whatever dispatchers and readers do meanwhile: a refresh never
\* changes the status it writes back, and the attempt an advance closes is
\* the one that is running.
Lifecycle == INSTANCE ExportLifecycle
               WITH status <- row.status,
                    ledger <- [i \in DOMAIN attempts |-> attempts[i].status]

LifecycleSpec == Lifecycle!Spec

\* While operators commit alone the audit trail tells the truth: the last
\* lifecycle event names the status of the row.
AuditMatchesRow == logged = row.status

\* While operators and readers commit alone a handoff is replaced only after
\* it expired, and its expiry is recorded exactly once.
ExpiryIsRecordedOnce ==
    /\ row.ref = refs
    /\ \A k \in 1..refs : k < refs => \E i \in DOMAIN expired : expired[i] = k
    /\ \A i, j \in DOMAIN expired : expired[i] = expired[j] => i = j

\* While dispatchers commit alone no attempt runs under a dispatch that the
\* adapter never received or has rejected, although a start and an advance
\* of the same dispatch may overlap.
AttemptWasDispatched ==
    \A i \in DOMAIN attempts :
        /\ attempts[i].dispatch \in DOMAIN dispatches
        /\ dispatches[attempts[i].dispatch] \notin {"submitted", "rejected"}

=============================================================================

---------------------------- MODULE Distribution ----------------------------
(***************************************************************************)
(* Distribution jobs of approved SKUs: NAS agents pull, heartbeat and ack  *)
(* jobs (service/agent.go, repo/mysql/job.go) while the LeaseReaper and    *)
(* the RetryScheduler (workers/) rewrite the same rows.                    *)
(*                                                                         *)
(* Granularity: one step is one database transaction, or one read that a   *)
(* later transaction of the same request relies on.  A request in progress *)
(* is a value of `call'; a worker's pass over the rows it selected is      *)
(* `reaping' / `retrying'.  Wall-clock time is abstracted to two Booleans: *)
(* whether a lease still runs, and whether next_retry_at is NULL or passed.*)
(***************************************************************************)
EXTENDS Naturals, FiniteSets

CONSTANTS
  SKUs,        \* the SKUs being distributed
  Jobs,        \* rows of distribution_jobs
  SkuOf,       \* distribution_jobs.sku_id
  CreatedAt,   \* distribution_jobs.created_at (jobs of one batch share it)
  Attempts,    \* the attempt UUIDs the model can hand out
  Handlers,    \* concurrently served agent requests
  MaxRetries,  \* distribution_jobs.max_retries (3 in service/audit.go)
  RetryLimit,  \* LIMIT of the RetryScheduler's query (50 in the code)
  MaxFaults,   \* bound on failed transactions and server crashes
  NoAttempt,   \* NULL for current_attempt_id
  NoJob        \* the job of an attempt not handed out yet

ASSUME DistributionAssumption ==
  /\ SkuOf \in [Jobs -> SKUs]
  /\ CreatedAt \in [Jobs -> Nat]
  /\ IsFiniteSet(Jobs)
  /\ MaxRetries \in Nat
  /\ RetryLimit \in Nat \ {0}
  /\ MaxFaults \in Nat
  /\ NoAttempt \notin Attempts
  /\ NoJob \notin Jobs

VARIABLES
  skuStatus,   \* skus.workflow_status
  status,      \* distribution_jobs.status
  retryCount,  \* distribution_jobs.retry_count
  current,     \* distribution_jobs.current_attempt_id
  retryDue,    \* next_retry_at IS NULL OR next_retry_at <= NOW()
  incidents,   \* reasons of the incidents rows of each job
  jobLog,      \* type of the newest job.* row of event_logs for each job
  skuLog,      \* "to" of the newest sku.status_changed row of each SKU
  jobOf,       \* job_attempts.job_id, NoJob before the row is inserted
  leaseLive,   \* job_attempts.lease_expires_at has not passed
  acked,       \* job_attempts.acked_at IS NOT NULL
  holder,      \* what the agent holding the attempt is doing
  call,        \* the request each handler is serving
  reaping,     \* jobs the current reap() pass still has to rewrite
  retrying,    \* <<job, retry_count read>> the current schedule() pass has left
  faults       \* faults injected so far

jobVars  == <<status, retryCount, current, retryDue>>
logVars  == <<incidents, jobLog, skuLog>>
attVars  == <<jobOf, leaseLive, acked>>
workVars == <<reaping, retrying>>
vars == <<skuStatus, jobVars, logVars, attVars, holder, call, workVars, faults>>

JobStatus == {"Pending", "Running", "Done", "Fail", "Stale", "ExceededRetries"}

SkuStatus == {"Approved", "Distribution_Running", "Completed"}

JobEvent ==
  {"job.created", "job.running", "job.done", "job.failed", "job.stale",
   "job.retrying", "job.exceeded_retries"}

\* The agent's side of an attempt: it has not learnt the id, is working, has
\* its result ready (with or without usable evidence), or is gone for good.
HolderState == {"unknown", "working", "success", "no_evidence", "failure", "gone"}

Outcome == {"success", "no_evidence", "failure"}

Idle == [op |-> "idle", att |-> NoAttempt]

Call == [op : {"idle", "advance", "renew", "ackDone", "ackFail", "list", "complete"},
         att : Attempts \cup {NoAttempt}]

JobsOf(s) == {j \in Jobs : SkuOf[j] = s}

-----------------------------------------------------------------------------
(* Audited SKUs whose jobs were released to the agents. *)
Init ==
  /\ skuStatus = [s \in SKUs |-> "Approved"]
  /\ status = [j \in Jobs |-> "Pending"]
  /\ retryCount = [j \in Jobs |-> 0]
  /\ current = [j \in Jobs |-> NoAttempt]
  /\ retryDue = [j \in Jobs |-> TRUE]
  /\ incidents = [j \in Jobs |-> {}]
  /\ jobLog = [j \in Jobs |-> "job.created"]
  /\ skuLog = [s \in SKUs |-> "Approved"]
  /\ jobOf = [a \in Attempts |-> NoJob]
  /\ leaseLive = [a \in Attempts |-> FALSE]
  /\ acked = [a \in Attempts |-> FALSE]
  /\ holder = [a \in Attempts |-> "unknown"]
  /\ call = [h \in Handlers |-> Idle]
  /\ reaping = {}
  /\ retrying = {}
  /\ faults = 0

-----------------------------------------------------------------------------
(* PullJob *)

\* Mutant: a Stale job is handed out again before the scheduler counted it.
OldestPendingOrStale(j) ==
  /\ status[j] \in {"Pending", "Stale"}
  /\ \A k \in Jobs : status[k] = "Pending" => CreatedAt[j] <= CreatedAt[k]

OldestPending(j) ==
  /\ status[j] = "Pending"
  /\ \A k \in Jobs : status[k] = "Pending" => CreatedAt[j] <= CreatedAt[k]

\* The transaction of JobRepoImpl.PullPending: next_retry_at plays no part.
PullPending(h, j, a) ==
  /\ call[h] = Idle
  /\ jobOf[a] = NoJob
  /\ OldestPending(j)
  /\ jobOf' = [jobOf EXCEPT ![a] = j]
  /\ leaseLive' = [leaseLive EXCEPT ![a] = TRUE]
  /\ status' = [status EXCEPT ![j] = "Running"]
  /\ current' = [current EXCEPT ![j] = a]
  /\ jobLog' = [jobLog EXCEPT ![j] = "job.running"]
  /\ call' = [call EXCEPT ![h] = [op |-> "advance", att |-> a]]
  /\ UNCHANGED <<skuStatus, retryCount, retryDue, incidents, skuLog, acked,
                 holder, workVars, faults>>

CASWorkflowStatus(s, expected, next) ==
  IF skuStatus[s] = expected
  THEN /\ skuStatus' = [skuStatus EXCEPT ![s] = next]
       /\ skuLog' = [skuLog EXCEPT ![s] = next]
  ELSE UNCHANGED <<skuStatus, skuLog>>

\* The second transaction of PullJob, and its response to the agent.
AdvanceSKU(h) ==
  /\ call[h].op = "advance"
  /\ CASWorkflowStatus(SkuOf[jobOf[call[h].att]], "Approved", "Distribution_Running")
  /\ holder' = [holder EXCEPT ![call[h].att] = "working"]
  /\ call' = [call EXCEPT ![h] = Idle]
  /\ UNCHANGED <<jobVars, incidents, jobLog, attVars, workVars, faults>>

-----------------------------------------------------------------------------
(* Heartbeat: the checks, then the unconditional RenewLease. *)

OwnsJob(a) == current[jobOf[a]] = a

Heartbeat(h, a) ==
  /\ call[h] = Idle
  /\ holder[a] = "working"
  /\ OwnsJob(a)
  /\ leaseLive[a]
  /\ call' = [call EXCEPT ![h] = [op |-> "renew", att |-> a]]
  /\ UNCHANGED <<skuStatus, jobVars, logVars, attVars, holder, workVars, faults>>

RenewLease(h) ==
  /\ call[h].op = "renew"
  /\ leaseLive' = [leaseLive EXCEPT ![call[h].att] = TRUE]
  /\ call' = [call EXCEPT ![h] = Idle]
  /\ UNCHANGED <<skuStatus, jobVars, logVars, jobOf, acked, holder, workVars, faults>>

-----------------------------------------------------------------------------
(* AckJob: ownership is checked on a row read before the transaction.  The *)
(* agent may repeat the acknowledgement of an attempt.                     *)

\* Mutant: success alone is enough, whatever the evidence.
EvidenceIgnored(outcome) == outcome # "failure"

EvidenceSatisfied(outcome) == outcome = "success"

AckJob(h, a) ==
  /\ call[h] = Idle
  /\ holder[a] \in Outcome
  /\ OwnsJob(a)
  /\ call' = [call EXCEPT ![h] =
                [op |-> IF EvidenceSatisfied(holder[a]) THEN "ackDone" ELSE "ackFail",
                 att |-> a]]
  /\ UNCHANGED <<skuStatus, jobVars, logVars, attVars, holder, workVars, faults>>

\* tryCompleteSKU's completion policy (the acknowledged job is one of them, so
\* the empty list the engine refuses does not occur).  No job is ever Verifying, because
\* RequireVerify is constantly false.
SKUCompleted(s) == \A j \in JobsOf(s) : status[j] = "Done"

\* Mutant: the sibling jobs are listed before this job is written Done.
AckDoneListsFirst(h) ==
  LET a == call[h].att
      j == jobOf[a]
  IN /\ call[h].op = "ackDone"
     /\ status' = [status EXCEPT ![j] = "Done"]
     /\ acked' = [acked EXCEPT ![a] = TRUE]
     /\ jobLog' = [jobLog EXCEPT ![j] = "job.done"]
     /\ call' = [call EXCEPT ![h] = IF SKUCompleted(SkuOf[j])
                                    THEN [op |-> "complete", att |-> a] ELSE Idle]
     /\ UNCHANGED <<skuStatus, retryCount, current, retryDue, incidents, skuLog,
                    jobOf, leaseLive, holder, workVars, faults>>

AckDone(h) ==
  LET a == call[h].att
      j == jobOf[a]
  IN /\ call[h].op = "ackDone"
     /\ status' = [status EXCEPT ![j] = "Done"]
     /\ acked' = [acked EXCEPT ![a] = TRUE]
     /\ jobLog' = [jobLog EXCEPT ![j] = "job.done"]
     /\ call' = [call EXCEPT ![h] = [op |-> "list", att |-> a]]
     /\ UNCHANGED <<skuStatus, retryCount, current, retryDue, incidents, skuLog,
                    jobOf, leaseLive, holder, workVars, faults>>

AckFail(h) ==
  LET a == call[h].att
      j == jobOf[a]
  IN /\ call[h].op = "ackFail"
     /\ status' = [status EXCEPT ![j] = "Fail"]
     /\ acked' = [acked EXCEPT ![a] = TRUE]
     /\ incidents' = [incidents EXCEPT ![j] = @ \cup {"agent"}]
     /\ jobLog' = [jobLog EXCEPT ![j] = "job.failed"]
     /\ call' = [call EXCEPT ![h] = Idle]
     /\ UNCHANGED <<skuStatus, retryCount, current, retryDue, skuLog,
                    jobOf, leaseLive, holder, workVars, faults>>

\* tryCompleteSKU, first half: read the sibling jobs.
ListBySKUID(h) ==
  /\ call[h].op = "list"
  /\ call' = [call EXCEPT ![h] =
                IF SKUCompleted(SkuOf[jobOf[call[h].att]])
                THEN [op |-> "complete", att |-> call[h].att]
                ELSE Idle]
  /\ UNCHANGED <<skuStatus, jobVars, logVars, attVars, holder, workVars, faults>>

\* Mutant: the SKU is written Completed without comparing its status.
CompleteWithoutCAS(h) ==
  /\ call[h].op = "complete"
  /\ LET s == SkuOf[jobOf[call[h].att]]
     IN /\ skuStatus' = [skuStatus EXCEPT ![s] = "Completed"]
        /\ skuLog' = [skuLog EXCEPT ![s] = "Completed"]
  /\ call' = [call EXCEPT ![h] = Idle]
  /\ UNCHANGED <<jobVars, incidents, jobLog, attVars, holder, workVars, faults>>

\* tryCompleteSKU, second half: the compare-and-swap; a miss is only an error
\* in the response.
CompleteSKU(h) ==
  /\ call[h].op = "complete"
  /\ CASWorkflowStatus(SkuOf[jobOf[call[h].att]], "Distribution_Running", "Completed")
  /\ call' = [call EXCEPT ![h] = Idle]
  /\ UNCHANGED <<jobVars, incidents, jobLog, attVars, holder, workVars, faults>>

-----------------------------------------------------------------------------
(* LeaseReaper.reap: one query, then one transaction per selected job whose *)
(* UPDATE names only the job's id.                                          *)

\* Mutant: the reaper skips jobs that have no retry left.
LeaseExpiredWithRetryLeft(j) ==
  /\ status[j] = "Running"
  /\ current[j] # NoAttempt
  /\ ~leaseLive[current[j]]
  /\ retryCount[j] < MaxRetries

LeaseExpired(j) ==
  /\ status[j] = "Running"
  /\ current[j] # NoAttempt
  /\ ~leaseLive[current[j]]

Reap ==
  /\ reaping = {}
  /\ reaping' = {j \in Jobs : LeaseExpired(j)}
  /\ reaping' # {}
  /\ UNCHANGED <<skuStatus, jobVars, logVars, attVars, holder, call, retrying, faults>>

\* Mutant: reclaiming a lease gives the job its retries back.
MarkStaleResetsRetries(j) ==
  /\ j \in reaping
  /\ reaping' = reaping \ {j}
  /\ status' = [status EXCEPT ![j] = "Stale"]
  /\ current' = [current EXCEPT ![j] = NoAttempt]
  /\ retryCount' = [retryCount EXCEPT ![j] = 0]
  /\ jobLog' = [jobLog EXCEPT ![j] = "job.stale"]
  /\ UNCHANGED <<skuStatus, retryDue, incidents, skuLog, attVars, holder, call,
                 retrying, faults>>

\* Mutant: the attempt is cleared and the status is left alone.
MarkStaleKeepsStatus(j) ==
  /\ j \in reaping
  /\ reaping' = reaping \ {j}
  /\ current' = [current EXCEPT ![j] = NoAttempt]
  /\ jobLog' = [jobLog EXCEPT ![j] = "job.stale"]
  /\ UNCHANGED <<skuStatus, status, retryCount, retryDue, incidents, skuLog, attVars,
                 holder, call, retrying, faults>>

\* Mutant: the UPDATE commits without its event.
MarkStaleUnlogged(j) ==
  /\ j \in reaping
  /\ reaping' = reaping \ {j}
  /\ status' = [status EXCEPT ![j] = "Stale"]
  /\ current' = [current EXCEPT ![j] = NoAttempt]
  /\ UNCHANGED <<skuStatus, retryCount, retryDue, logVars, attVars, holder, call,
                 retrying, faults>>

MarkStale(j) ==
  /\ j \in reaping
  /\ reaping' = reaping \ {j}
  /\ status' = [status EXCEPT ![j] = "Stale"]
  /\ current' = [current EXCEPT ![j] = NoAttempt]
  /\ jobLog' = [jobLog EXCEPT ![j] = "job.stale"]
  /\ UNCHANGED <<skuStatus, retryCount, retryDue, incidents, skuLog, attVars,
                 holder, call, retrying, faults>>

-----------------------------------------------------------------------------
(* RetryScheduler.schedule: one query for the oldest due jobs, then one     *)
(* transaction per job that trusts the retry_count it read.                 *)

\* Mutant: only jobs with a retry left are selected, as JobRepoImpl.FindRetryable
\* (which the scheduler does not use) does.
RetryableWithRetryLeft ==
  {j \in Jobs : /\ status[j] \in {"Fail", "Stale"}
                /\ retryDue[j]
                /\ retryCount[j] < MaxRetries}

Retryable == {j \in Jobs : status[j] \in {"Fail", "Stale"} /\ retryDue[j]}

\* ORDER BY created_at LIMIT RetryLimit
SelectedBatch(S) ==
  /\ S \subseteq Retryable
  /\ Cardinality(S) <= RetryLimit
  /\ \A k \in Retryable \ S :
        /\ Cardinality(S) = RetryLimit
        /\ \A j \in S : CreatedAt[j] <= CreatedAt[k]

Schedule(S) ==
  /\ retrying = {}
  /\ S # {}
  /\ SelectedBatch(S)
  /\ retrying' = {<<j, retryCount[j]>> : j \in S}
  /\ UNCHANGED <<skuStatus, jobVars, logVars, attVars, holder, call, reaping, faults>>

\* current_attempt_id is kept; next_retry_at moves into the future.
MarkRetrying(j, n) ==
  /\ n < MaxRetries
  /\ retrying' = retrying \ {<<j, n>>}
  /\ status' = [status EXCEPT ![j] = "Pending"]
  /\ retryCount' = [retryCount EXCEPT ![j] = @ + 1]
  /\ retryDue' = [retryDue EXCEPT ![j] = FALSE]
  /\ jobLog' = [jobLog EXCEPT ![j] = "job.retrying"]
  /\ UNCHANGED <<skuStatus, current, incidents, skuLog, attVars, holder, call,
                 reaping, faults>>

\* Mutant: the exhausted job is written with a status of the SKU's workflow.
MarkExceededBlocked(j, n) ==
  /\ n >= MaxRetries
  /\ retrying' = retrying \ {<<j, n>>}
  /\ status' = [status EXCEPT ![j] = "Blocked"]
  /\ incidents' = [incidents EXCEPT ![j] = @ \cup {"exceeded"}]
  /\ jobLog' = [jobLog EXCEPT ![j] = "job.exceeded_retries"]
  /\ UNCHANGED <<skuStatus, retryCount, current, retryDue, skuLog, attVars,
                 holder, call, reaping, faults>>

MarkExceeded(j, n) ==
  /\ n >= MaxRetries
  /\ retrying' = retrying \ {<<j, n>>}
  /\ status' = [status EXCEPT ![j] = "ExceededRetries"]
  /\ incidents' = [incidents EXCEPT ![j] = @ \cup {"exceeded"}]
  /\ jobLog' = [jobLog EXCEPT ![j] = "job.exceeded_retries"]
  /\ UNCHANGED <<skuStatus, retryCount, current, retryDue, skuLog, attVars,
                 holder, call, reaping, faults>>

-----------------------------------------------------------------------------
(* The environment: agents, time, and faults. *)

AgentFinishes(a, outcome) ==
  /\ holder[a] = "working"
  /\ holder' = [holder EXCEPT ![a] = outcome]
  /\ UNCHANGED <<skuStatus, jobVars, logVars, attVars, call, workVars, faults>>

AgentDies(a) ==
  /\ holder[a] = "working"
  /\ holder' = [holder EXCEPT ![a] = "gone"]
  /\ UNCHANGED <<skuStatus, jobVars, logVars, attVars, call, workVars, faults>>

LeaseRunsOut(a) ==
  /\ leaseLive[a]
  /\ leaseLive' = [leaseLive EXCEPT ![a] = FALSE]
  /\ UNCHANGED <<skuStatus, jobVars, logVars, jobOf, acked, holder, call, workVars,
                 faults>>

RetryFallsDue(j) ==
  /\ ~retryDue[j]
  /\ retryDue' = [retryDue EXCEPT ![j] = TRUE]
  /\ UNCHANGED <<skuStatus, status, retryCount, current, logVars, attVars, holder,
                 call, workVars, faults>>

\* A transaction of a request rolls back.  PullJob ignores the error of its
\* second transaction; every other handler returns the error.
CallTxFails(h) ==
  /\ faults < MaxFaults
  /\ call[h] # Idle
  /\ holder' = IF call[h].op = "advance"
               THEN [holder EXCEPT ![call[h].att] = "working"]
               ELSE holder
  /\ call' = [call EXCEPT ![h] = Idle]
  /\ faults' = faults + 1
  /\ UNCHANGED <<skuStatus, jobVars, logVars, attVars, workVars>>

\* A worker's transaction rolls back: it logs the error and goes on.
WorkerTxFails ==
  /\ faults < MaxFaults
  /\ \/ /\ \E j \in reaping : reaping' = reaping \ {j}
        /\ UNCHANGED retrying
     \/ /\ \E r \in retrying : retrying' = retrying \ {r}
        /\ UNCHANGED reaping
  /\ faults' = faults + 1
  /\ UNCHANGED <<skuStatus, jobVars, logVars, attVars, holder, call>>

\* The server process dies: requests and worker passes in memory are lost;
\* an agent that was waiting for PullJob never learns its attempt id.
ServerCrash ==
  /\ faults < MaxFaults
  /\ holder' = [a \in Attempts |->
                  IF \E h \in Handlers : call[h] = [op |-> "advance", att |-> a]
                  THEN "gone" ELSE holder[a]]
  /\ call' = [h \in Handlers |-> Idle]
  /\ reaping' = {}
  /\ retrying' = {}
  /\ faults' = faults + 1
  /\ UNCHANGED <<skuStatus, jobVars, logVars, attVars>>

-----------------------------------------------------------------------------
HandlerStep(h) ==
  \/ AdvanceSKU(h)
  \/ RenewLease(h)
  \/ AckDone(h)
  \/ AckFail(h)
  \/ ListBySKUID(h)
  \/ CompleteSKU(h)

RequestStep(h) ==
  \/ \E j \in Jobs, a \in Attempts : PullPending(h, j, a)
  \/ \E a \in Attempts : Heartbeat(h, a) \/ AckJob(h, a)

ReaperStep == Reap \/ \E j \in Jobs : MarkStale(j)

SchedulerStep ==
  \/ \E S \in SUBSET Jobs : Schedule(S)
  \/ \E r \in retrying : MarkRetrying(r[1], r[2]) \/ MarkExceeded(r[1], r[2])

AgentStep ==
  \E a \in Attempts : AgentDies(a) \/ \E o \in Outcome : AgentFinishes(a, o)

TimeStep ==
  \/ \E a \in Attempts : LeaseRunsOut(a)
  \/ \E j \in Jobs : RetryFallsDue(j)

FaultStep == (\E h \in Handlers : CallTxFails(h)) \/ WorkerTxFails \/ ServerCrash

Next ==
  \/ \E h \in Handlers : RequestStep(h) \/ HandlerStep(h)
  \/ ReaperStep
  \/ SchedulerStep
  \/ AgentStep
  \/ TimeStep
  \/ FaultStep

Spec == Init /\ [][Next]_vars

\* The goroutines of workers.Group tick for as long as the process runs, net/http
\* finishes every request it started, and time passes.
ServerFairness ==
  /\ WF_vars(ReaperStep)
  /\ WF_vars(SchedulerStep)
  /\ \A h \in Handlers : WF_vars(HandlerStep(h))
  /\ \A a \in Attempts : WF_vars(LeaseRunsOut(a))
  /\ \A j \in Jobs : WF_vars(RetryFallsDue(j))

\* Some agent keeps polling, and no agent works on an attempt forever.
AgentFairness ==
  /\ SF_vars(\E h \in Handlers, j \in Jobs, a \in Attempts : PullPending(h, j, a))
  /\ \A a \in Attempts :
       WF_vars(AgentDies(a) \/ \E o \in Outcome : AgentFinishes(a, o))

FairSpec == Spec /\ ServerFairness

FairAgentsSpec == FairSpec /\ AgentFairness

-----------------------------------------------------------------------------
(* Properties *)

\* Rows, requests and worker passes keep the values the columns and the
\* handlers can give them; a job never gets a status of the SKU's workflow.
TypeOK ==
  /\ skuStatus \in [SKUs -> SkuStatus]
  /\ status \in [Jobs -> JobStatus]
  /\ retryCount \in [Jobs -> Nat]
  /\ current \in [Jobs -> Attempts \cup {NoAttempt}]
  /\ retryDue \in [Jobs -> BOOLEAN]
  /\ incidents \in [Jobs -> SUBSET {"agent", "exceeded"}]
  /\ jobLog \in [Jobs -> JobEvent]
  /\ skuLog \in [SKUs -> SkuStatus]
  /\ jobOf \in [Attempts -> Jobs \cup {NoJob}]
  /\ leaseLive \in [Attempts -> BOOLEAN]
  /\ acked \in [Attempts -> BOOLEAN]
  /\ holder \in [Attempts -> HolderState]
  /\ call \in [Handlers -> Call]
  /\ reaping \subseteq Jobs
  /\ retrying \subseteq Jobs \X Nat
  /\ faults \in 0..MaxFaults

AttemptsOf(j) == {a \in Attempts : jobOf[a] = j}

\* The retry budget of workers/retry_scheduler.go holds against every race with
\* late acknowledgements, the reaper and crashes: retry_count never passes
\* max_retries, and a job is handed to agents at most retry_count + 1 times
\* (an unclaimed retry is not spent yet).
AttemptBudget ==
  \A j \in Jobs :
    /\ retryCount[j] <= MaxRetries
    /\ Cardinality(AttemptsOf(j)) + (IF status[j] = "Pending" THEN 1 ELSE 0)
         <= retryCount[j] + 1

\* The retry_count that schedule() read and later reports and branches on is
\* still the row's when markRetrying / markExceeded commits.
RetryCountReadIsCurrent ==
  \A r \in retrying : r[2] = retryCount[r[1]]

\* The reaper finds expired jobs by joining distribution_jobs with job_attempts
\* on current_attempt_id: a Running job always has an attempt of its own there,
\* so no Running job is invisible to the reaper.
RunningIsReapable ==
  \A j \in Jobs :
    /\ status[j] = "Running" => current[j] # NoAttempt
    /\ current[j] # NoAttempt => jobOf[current[j]] = j

\* An agent delivered the file of job j: one of its attempts was acknowledged
\* with success and sufficient evidence.
Delivered(j) ==
  \E a \in AttemptsOf(j) : acked[a] /\ holder[a] = "success"

\* Whatever the interleaving, AckJob and tryCompleteSKU mark a job Done, and a
\* SKU Completed, only when agents delivered the job, and every job of the SKU.
CompletionIsEarned ==
  /\ \A j \in Jobs : status[j] = "Done" => Delivered(j)
  /\ \A s \in SKUs :
       skuStatus[s] = "Completed" => \A j \in JobsOf(s) : Delivered(j)

\* What the requests in progress rely on; the strengthening that makes the two
\* properties above inductive.  A request always works on an attempt that was
\* handed out; only the PullJob that created an attempt can announce it; a
\* success is acknowledged only by an agent that succeeded; and tryCompleteSKU
\* reaches its compare-and-swap only after every job of the SKU was delivered.
CallIsSound(c) ==
  /\ c.op = "idle" => c = Idle
  /\ c.op # "idle" => c.att \in Attempts /\ jobOf[c.att] \in Jobs
  /\ c.op = "advance" => holder[c.att] = "unknown"
  /\ c.op = "ackDone" => holder[c.att] = "success"
  /\ c.op = "complete" => \A j \in JobsOf(SkuOf[jobOf[c.att]]) : Delivered(j)

CallsAreSound ==
  /\ \A h \in Handlers : CallIsSound(call[h])
  /\ \A g, h \in Handlers :
       (call[g].op = "advance" /\ call[h] = call[g]) => g = h
  /\ \A a \in Attempts : holder[a] # "unknown" => jobOf[a] \in Jobs

\* The status a reader of event_logs derives from the newest event of a job.
LoggedStatus(e) ==
  CASE e \in {"job.created", "job.retrying"} -> "Pending"
    [] e = "job.running" -> "Running"
    [] e = "job.done" -> "Done"
    [] e = "job.failed" -> "Fail"
    [] e = "job.stale" -> "Stale"
    [] e = "job.exceeded_retries" -> "ExceededRetries"

\* Every writer of a status appends its event in the same transaction
\* (domain/entities.go: "All state changes MUST append to this table in the
\* same transaction"): the log and the rows never disagree, and a failed or
\* exhausted job always has its incident.
LogAgreesWithRows ==
  /\ \A j \in Jobs :
       /\ LoggedStatus(jobLog[j]) = status[j]
       /\ status[j] = "Fail" => "agent" \in incidents[j]
       /\ status[j] = "ExceededRetries" => "exceeded" \in incidents[j]
  /\ skuLog = skuStatus

\* The compare-and-swaps of agent.go never consult CanTransition, yet each one
\* is a step the policy engine's table allows.
SkuWorkflowSpec == INSTANCE SkuWorkflow WITH SKUs <- SKUs, skuStatus <- skuStatus
ImplementsSkuWorkflow == SkuWorkflowSpec!Spec

\* A job whose agent died does not stay Running: its lease runs out and the
\* reaper (or an acknowledgement already under way) takes it away.
ZombiesAreReclaimed ==
  \A j \in Jobs, a \in Attempts :
    (status[j] = "Running" /\ current[j] = a /\ holder[a] = "gone")
      ~> ~(status[j] = "Running" /\ current[j] = a)

\* While agents poll, no job is left unsettled for good: it is Done or out of
\* retries again and again (a repeated failure ack may reopen it in between).
JobsSettle ==
  \A j \in Jobs : []<>(status[j] \in {"Done", "ExceededRetries"})

\* tryCompleteSKU is working on SKU s.
Completing(s) ==
  \E h \in Handlers : /\ call[h].op \in {"list", "complete"}
                      /\ SkuOf[jobOf[call[h].att]] = s

\* Two concurrent acknowledgements of the last jobs of a SKU cannot both see the
\* other's job unfinished: as long as no transaction failed, a SKU whose jobs
\* are all Done is Completed or about to be, although tryCompleteSKU reads
\* outside any transaction.
NoLostCompletion ==
  faults = 0 =>
    \A s \in SKUs : (JobsOf(s) # {} /\ SKUCompleted(s) /\ ~Completing(s))
                       => skuStatus[s] = "Completed"
=============================================================================

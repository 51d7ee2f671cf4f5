------------------------- MODULE DistributionProofs -------------------------
(***************************************************************************)
(* Proofs about Distribution for every set of SKUs, jobs, attempts and     *)
(* concurrent requests, every retry budget and every number of faults.     *)
(***************************************************************************)
EXTENDS Distribution, FiniteSetTheorems, TLAPS

-----------------------------------------------------------------------------
(* Type correctness *)

\* The tables as the agents find them after the designs were approved.
LEMMA InitTypeOK == Init => TypeOK
  BY DistributionAssumption
     DEF Init, TypeOK, SkuStatus, JobStatus, JobEvent, HolderState, Call, Idle

\* Every request, worker step, agent step and fault keeps the declared shape.
LEMMA NextTypeOK == TypeOK /\ [Next]_vars => TypeOK'
<1> SUFFICES ASSUME TypeOK, [Next]_vars PROVE TypeOK'
  OBVIOUS
<1> USE DistributionAssumption DEF TypeOK, Call, Idle, Outcome
<1>1. ASSUME NEW h \in Handlers, NEW j \in Jobs, NEW a \in Attempts, PullPending(h, j, a)
      PROVE  TypeOK'
  BY <1>1 DEF PullPending, JobStatus, JobEvent, workVars
<1>2. ASSUME NEW h \in Handlers, NEW a \in Attempts, Heartbeat(h, a) \/ AckJob(h, a)
      PROVE  TypeOK'
  BY <1>2 DEF Heartbeat, AckJob, jobVars, logVars, attVars, workVars
<1>3. ASSUME NEW h \in Handlers, AdvanceSKU(h)
      PROVE  TypeOK'
  BY <1>3 DEF AdvanceSKU, CASWorkflowStatus, jobVars, attVars, workVars, SkuStatus, HolderState
<1>4. ASSUME NEW h \in Handlers, RenewLease(h)
      PROVE  TypeOK'
  BY <1>4 DEF RenewLease, jobVars, logVars, workVars
<1>5. ASSUME NEW h \in Handlers, AckDone(h)
      PROVE  TypeOK'
  BY <1>5 DEF AckDone, workVars, JobStatus, JobEvent
<1>6. ASSUME NEW h \in Handlers, AckFail(h)
      PROVE  TypeOK'
  BY <1>6 DEF AckFail, workVars, JobStatus, JobEvent
<1>7. ASSUME NEW h \in Handlers, ListBySKUID(h)
      PROVE  TypeOK'
  BY <1>7 DEF ListBySKUID, jobVars, logVars, attVars, workVars
<1>8. ASSUME NEW h \in Handlers, CompleteSKU(h)
      PROVE  TypeOK'
  BY <1>8 DEF CompleteSKU, CASWorkflowStatus, jobVars, attVars, workVars, SkuStatus
<1>9. CASE ReaperStep
  BY <1>9 DEF ReaperStep, Reap, MarkStale, jobVars, logVars, attVars, JobStatus, JobEvent
<1>10. ASSUME NEW S \in SUBSET Jobs, Schedule(S)
       PROVE  TypeOK'
  BY <1>10 DEF Schedule, jobVars, logVars, attVars
<1>11. ASSUME NEW r \in retrying, MarkRetrying(r[1], r[2])
       PROVE  TypeOK'
  BY <1>11 DEF MarkRetrying, attVars, JobStatus, JobEvent
<1>12. ASSUME NEW r \in retrying, MarkExceeded(r[1], r[2])
       PROVE  TypeOK'
  BY <1>12 DEF MarkExceeded, attVars, JobStatus, JobEvent
<1>13. CASE AgentStep
  BY <1>13 DEF AgentStep, AgentDies, AgentFinishes, jobVars, logVars, attVars, workVars, HolderState
<1>14. CASE TimeStep
  BY <1>14 DEF TimeStep, LeaseRunsOut, RetryFallsDue, jobVars, logVars, attVars, workVars
<1>15. ASSUME NEW h \in Handlers, CallTxFails(h)
       PROVE  TypeOK'
  <2>1. holder' \in [Attempts -> HolderState]
    BY <1>15 DEF CallTxFails, HolderState
  <2>2. call' \in [Handlers -> Call] /\ faults' \in 0..MaxFaults
    BY <1>15 DEF CallTxFails
  <2> QED
    BY <1>15, <2>1, <2>2 DEF CallTxFails, jobVars, logVars, attVars, workVars
<1>16. CASE WorkerTxFails
  BY <1>16 DEF WorkerTxFails, jobVars, logVars, attVars
<1>17. CASE ServerCrash
  BY <1>17 DEF ServerCrash, jobVars, logVars, attVars, HolderState
<1>18. CASE UNCHANGED vars
  BY <1>18 DEF vars, jobVars, logVars, attVars, workVars
<1> QED
  BY <1>1, <1>2, <1>3, <1>4, <1>5, <1>6, <1>7, <1>8, <1>9, <1>10, <1>11, <1>12,
     <1>13, <1>14, <1>15, <1>16, <1>17, <1>18
     DEF Next, RequestStep, HandlerStep, SchedulerStep, FaultStep

\* Every reachable state of the distribution tables, the requests in progress and
\* the workers' passes has the declared shape.
THEOREM TypeCorrect == Spec => []TypeOK
  BY InitTypeOK, NextTypeOK, PTL DEF Spec

-----------------------------------------------------------------------------
(* The retry budget *)

\* The budget with the finiteness that makes counting attempts meaningful.
BudgetInv ==
  /\ \A j \in Jobs : IsFiniteSet(AttemptsOf(j))
  /\ AttemptBudget
  /\ RetryCountReadIsCurrent

\* A step that leaves retry_count, the attempts and the scheduler's pass alone and
\* makes no job Pending keeps the budget.
LEMMA BudgetFrame ==
  ASSUME TypeOK, TypeOK', BudgetInv,
         retryCount' = retryCount, jobOf' = jobOf, retrying' \subseteq retrying,
         \A j \in Jobs : status'[j] = "Pending" => status[j] = "Pending"
  PROVE  BudgetInv'
<1>1. \A j \in Jobs : AttemptsOf(j)' = AttemptsOf(j)
  BY DEF AttemptsOf
<1>2. \A j \in Jobs : Cardinality(AttemptsOf(j)) \in Nat
  BY FS_CardinalityType DEF BudgetInv
<1>3. AttemptBudget'
  BY <1>1, <1>2 DEF BudgetInv, AttemptBudget, TypeOK
<1>4. RetryCountReadIsCurrent'
  BY DEF BudgetInv, RetryCountReadIsCurrent
<1> QED
  BY <1>1, <1>3, <1>4 DEF BudgetInv

\* No job has been handed out or retried yet.
LEMMA InitBudget == Init => BudgetInv
<1> SUFFICES ASSUME Init PROVE BudgetInv
  OBVIOUS
<1>1. \A j \in Jobs : AttemptsOf(j) = {}
  BY DistributionAssumption DEF Init, AttemptsOf
<1>2. IsFiniteSet({}) /\ Cardinality({}) = 0
  BY FS_EmptySet
<1>3. \A j \in Jobs : retryCount[j] = 0 /\ IsFiniteSet(AttemptsOf(j)) /\ Cardinality(AttemptsOf(j)) = 0
  BY <1>1, <1>2 DEF Init
<1>4. AttemptBudget
  BY <1>3, DistributionAssumption DEF AttemptBudget
<1>5. RetryCountReadIsCurrent
  BY DEF Init, RetryCountReadIsCurrent
<1> QED
  BY <1>3, <1>4, <1>5 DEF BudgetInv

\* Only PullJob adds an attempt, and only markRetrying makes a job Pending again,
\* raising retry_count by one.
LEMMA NextBudget == TypeOK /\ BudgetInv /\ [Next]_vars => BudgetInv'
<1> SUFFICES ASSUME TypeOK, BudgetInv, [Next]_vars PROVE BudgetInv'
  OBVIOUS
<1> TypeOK'
  BY NextTypeOK
<1>0. \A j \in Jobs : Cardinality(AttemptsOf(j)) \in Nat
  BY FS_CardinalityType DEF BudgetInv
<1>1. ASSUME NEW h \in Handlers, NEW j \in Jobs, NEW a \in Attempts, PullPending(h, j, a)
      PROVE  BudgetInv'
  <2>1. AttemptsOf(j)' = AttemptsOf(j) \cup {a} /\ a \notin AttemptsOf(j)
    BY <1>1, DistributionAssumption DEF PullPending, AttemptsOf, TypeOK
  <2>2. \A k \in Jobs \ {j} : AttemptsOf(k)' = AttemptsOf(k)
    BY <1>1, DistributionAssumption DEF PullPending, AttemptsOf, TypeOK
  <2>3. /\ IsFiniteSet(AttemptsOf(j) \cup {a})
        /\ Cardinality(AttemptsOf(j) \cup {a}) = Cardinality(AttemptsOf(j)) + 1
    BY <2>1, FS_AddElement DEF BudgetInv
  <2>4. \A k \in Jobs : IsFiniteSet(AttemptsOf(k))'
    BY <2>1, <2>2, <2>3 DEF BudgetInv
  <2>5. status[j] = "Pending" /\ status'[j] = "Running" /\ retryCount' = retryCount
    BY <1>1 DEF PullPending, OldestPending, TypeOK
  <2>6. \A k \in Jobs \ {j} : status'[k] = status[k]
    BY <1>1 DEF PullPending, TypeOK
  <2>7. AttemptBudget'
    <3> SUFFICES ASSUME NEW k \in Jobs
                 PROVE  /\ retryCount'[k] <= MaxRetries
                        /\ Cardinality(AttemptsOf(k)') + (IF status'[k] = "Pending" THEN 1 ELSE 0)
                             <= retryCount'[k] + 1
      BY DEF AttemptBudget
    <3>1. CASE k = j
      <4>1. Cardinality(AttemptsOf(j)') = Cardinality(AttemptsOf(j)) + 1
        BY <2>1, <2>3
      <4>2. retryCount[j] <= MaxRetries /\ Cardinality(AttemptsOf(j)) + 1 <= retryCount[j] + 1
        BY <2>5 DEF BudgetInv, AttemptBudget
      <4>3. Cardinality(AttemptsOf(j)) \in Nat /\ retryCount[j] \in Nat
        BY <1>0 DEF TypeOK
      <4> QED
        BY <2>5, <3>1, <4>1, <4>2, <4>3
    <3>2. CASE k # j
      BY <1>0, <2>2, <2>5, <2>6, <3>2 DEF BudgetInv, AttemptBudget
    <3> QED
      BY <3>1, <3>2
  <2>8. RetryCountReadIsCurrent'
    BY <1>1 DEF PullPending, workVars, BudgetInv, RetryCountReadIsCurrent
  <2> QED
    BY <2>4, <2>7, <2>8 DEF BudgetInv
<1>2. ASSUME NEW r \in retrying, MarkRetrying(r[1], r[2])
      PROVE  BudgetInv'
  <2> DEFINE j == r[1]
  <2>1. /\ j \in Jobs
        /\ r[2] = retryCount[j]
        /\ retryCount[j] < MaxRetries
        /\ r = <<j, retryCount[j]>>
    BY <1>2 DEF MarkRetrying, TypeOK, BudgetInv, RetryCountReadIsCurrent
  <2>2. \A k \in Jobs : AttemptsOf(k)' = AttemptsOf(k)
    BY <1>2 DEF MarkRetrying, attVars, AttemptsOf
  <2>3. retryCount'[j] = retryCount[j] + 1 /\ \A k \in Jobs \ {j} : retryCount'[k] = retryCount[k]
    BY <1>2, <2>1 DEF MarkRetrying, TypeOK
  <2>4. \A k \in Jobs \ {j} : status'[k] = status[k]
    BY <1>2, <2>1 DEF MarkRetrying, TypeOK
  <2>5. AttemptBudget'
    BY <1>0, <2>1, <2>2, <2>3, <2>4, DistributionAssumption
       DEF BudgetInv, AttemptBudget, TypeOK
  <2>6. RetryCountReadIsCurrent'
    <3> SUFFICES ASSUME NEW q \in retrying' PROVE q[2] = retryCount'[q[1]]
      BY DEF RetryCountReadIsCurrent
    <3>1. q \in retrying /\ q # r /\ q \in Jobs \X Nat /\ r \in Jobs \X Nat
      BY <1>2, <2>1 DEF MarkRetrying, TypeOK
    <3>2. q[2] = retryCount[q[1]] /\ q = <<q[1], q[2]>> /\ q[1] \in Jobs
      BY <3>1 DEF BudgetInv, RetryCountReadIsCurrent
    <3>3. q[1] # j
      BY <2>1, <3>1, <3>2
    <3> QED
      BY <2>3, <3>2, <3>3
  <2> QED
    BY <2>2, <2>5, <2>6 DEF BudgetInv
<1>3. ASSUME NEW S \in SUBSET Jobs, Schedule(S)
      PROVE  BudgetInv'
  <2>1. \A j \in Jobs : AttemptsOf(j)' = AttemptsOf(j)
    BY <1>3 DEF Schedule, attVars, AttemptsOf
  <2>2. AttemptBudget'
    BY <1>0, <1>3, <2>1 DEF Schedule, jobVars, BudgetInv, AttemptBudget
  <2>3. RetryCountReadIsCurrent'
    BY <1>3 DEF Schedule, jobVars, RetryCountReadIsCurrent
  <2> QED
    BY <2>1, <2>2, <2>3 DEF BudgetInv
<1>4. ASSUME NEW r \in retrying, MarkExceeded(r[1], r[2])
      PROVE  BudgetInv'
  BY <1>4, BudgetFrame DEF MarkExceeded, attVars, TypeOK
<1>5. ASSUME NEW h \in Handlers, AckDone(h) \/ AckFail(h)
      PROVE  BudgetInv'
  BY <1>5, BudgetFrame DEF AckDone, AckFail, workVars, TypeOK
<1>6. ASSUME NEW j \in Jobs, MarkStale(j)
      PROVE  BudgetInv'
  BY <1>6, BudgetFrame DEF MarkStale, attVars, TypeOK
<1>7. CASE WorkerTxFails \/ ServerCrash
  BY <1>7, BudgetFrame DEF WorkerTxFails, ServerCrash, jobVars, attVars
<1>8. ASSUME status' = status, retryCount' = retryCount, jobOf' = jobOf, retrying' = retrying
      PROVE  BudgetInv'
  BY <1>8, BudgetFrame
<1> QED
  <2>1. ASSUME NEW h \in Handlers, NEW a \in Attempts, Heartbeat(h, a) \/ AckJob(h, a)
        PROVE  BudgetInv'
    BY <1>8, <2>1 DEF Heartbeat, AckJob, jobVars, attVars, workVars
  <2>2. ASSUME NEW h \in Handlers,
               AdvanceSKU(h) \/ RenewLease(h) \/ ListBySKUID(h) \/ CompleteSKU(h) \/ CallTxFails(h)
        PROVE  BudgetInv'
    BY <1>8, <2>2 DEF AdvanceSKU, RenewLease, ListBySKUID, CompleteSKU, CallTxFails,
                      jobVars, attVars, workVars
  <2>3. CASE Reap \/ AgentStep \/ TimeStep \/ UNCHANGED vars
    BY <1>8, <2>3 DEF Reap, AgentStep, AgentDies, AgentFinishes, TimeStep, LeaseRunsOut,
                      RetryFallsDue, vars, jobVars, attVars, workVars
  <2> QED
    BY <1>1, <1>2, <1>3, <1>4, <1>5, <1>6, <1>7, <2>1, <2>2, <2>3
       DEF Next, RequestStep, HandlerStep, ReaperStep, SchedulerStep, FaultStep

\* For every retry budget and any number of faults: retry_count never passes
\* max_retries and a job is handed out at most retry_count + 1 times.
THEOREM RetryBudgetHolds == Spec => []AttemptBudget
<1>1. Init => TypeOK /\ BudgetInv
  BY InitTypeOK, InitBudget
<1>2. TypeOK /\ BudgetInv /\ [Next]_vars => TypeOK' /\ BudgetInv'
  BY NextTypeOK, NextBudget
<1>3. BudgetInv => AttemptBudget
  BY DEF BudgetInv
<1> QED
  BY <1>1, <1>2, <1>3, PTL DEF Spec

\* The retry_count a scheduler pass read is the row's until it is used.
THEOREM RetryCountReadIsCurrentHolds == Spec => []RetryCountReadIsCurrent
<1>1. Init => TypeOK /\ BudgetInv
  BY InitTypeOK, InitBudget
<1>2. TypeOK /\ BudgetInv /\ [Next]_vars => TypeOK' /\ BudgetInv'
  BY NextTypeOK, NextBudget
<1>3. BudgetInv => RetryCountReadIsCurrent
  BY DEF BudgetInv
<1> QED
  BY <1>1, <1>2, <1>3, PTL DEF Spec

-----------------------------------------------------------------------------
(* Ownership: what the reaper's join relies on *)

\* For every instance: a Running job always has an attempt of its own as its
\* current attempt, so the reaper's join cannot miss it.
THEOREM RunningIsReapableHolds == Spec => []RunningIsReapable
<1>1. Init => RunningIsReapable
  BY DEF Init, RunningIsReapable
<1>2. TypeOK /\ RunningIsReapable /\ [Next]_vars => RunningIsReapable'
  <2> SUFFICES ASSUME TypeOK, RunningIsReapable, [Next]_vars PROVE RunningIsReapable'
    OBVIOUS
  <2> USE DEF RunningIsReapable, TypeOK
  <2>1. ASSUME NEW h \in Handlers, NEW j \in Jobs, NEW a \in Attempts, PullPending(h, j, a)
        PROVE  RunningIsReapable'
    <3>1. \A k \in Jobs : current[k] # a
      BY <2>1, DistributionAssumption DEF PullPending
    <3> QED
      BY <2>1, <3>1, DistributionAssumption DEF PullPending
  <2>2. ASSUME NEW h \in Handlers, AckDone(h) \/ AckFail(h)
        PROVE  RunningIsReapable'
    BY <2>2 DEF AckDone, AckFail
  <2>3. ASSUME NEW j \in Jobs, MarkStale(j)
        PROVE  RunningIsReapable'
    BY <2>3 DEF MarkStale, attVars
  <2>4. ASSUME NEW r \in retrying, MarkRetrying(r[1], r[2]) \/ MarkExceeded(r[1], r[2])
        PROVE  RunningIsReapable'
    BY <2>4 DEF MarkRetrying, MarkExceeded, attVars
  <2>5. ASSUME status' = status, current' = current, jobOf' = jobOf
        PROVE  RunningIsReapable'
    BY <2>5
  <2>6. ASSUME NEW h \in Handlers, NEW a \in Attempts, Heartbeat(h, a) \/ AckJob(h, a)
        PROVE  RunningIsReapable'
    BY <2>5, <2>6 DEF Heartbeat, AckJob, jobVars, attVars
  <2>7. ASSUME NEW h \in Handlers,
               AdvanceSKU(h) \/ RenewLease(h) \/ ListBySKUID(h) \/ CompleteSKU(h) \/ CallTxFails(h)
        PROVE  RunningIsReapable'
    BY <2>5, <2>7 DEF AdvanceSKU, RenewLease, ListBySKUID, CompleteSKU, CallTxFails, jobVars, attVars
  <2>8. CASE Reap \/ AgentStep \/ TimeStep \/ WorkerTxFails \/ ServerCrash \/ UNCHANGED vars
    BY <2>5, <2>8 DEF Reap, AgentStep, AgentDies, AgentFinishes, TimeStep, LeaseRunsOut,
                      RetryFallsDue, WorkerTxFails, ServerCrash, vars, jobVars, attVars
  <2>9. ASSUME NEW S \in SUBSET Jobs, Schedule(S)
        PROVE  RunningIsReapable'
    BY <2>5, <2>9 DEF Schedule, jobVars, attVars
  <2> QED
    BY <2>1, <2>2, <2>3, <2>4, <2>6, <2>7, <2>8, <2>9
       DEF Next, RequestStep, HandlerStep, ReaperStep, SchedulerStep, FaultStep
<1> QED
  BY <1>1, <1>2, TypeCorrect, PTL DEF Spec

-----------------------------------------------------------------------------
(* Completion is earned *)

\* No step un-delivers: attempts keep their job, acknowledgements stay, and a
\* success the agent reached is never taken back.
LEMMA AttemptsOnlyGrow ==
  ASSUME TypeOK, CallsAreSound, [Next]_vars, NEW a \in Attempts
  PROVE  /\ jobOf[a] \in Jobs => jobOf'[a] = jobOf[a]
         /\ acked[a] => acked'[a]
         /\ holder[a] = "success" => holder'[a] = "success"
<1> USE DEF TypeOK
<1>1. ASSUME NEW h \in Handlers, NEW j \in Jobs, NEW b \in Attempts, PullPending(h, j, b)
      PROVE  jobOf[a] \in Jobs => jobOf'[a] = jobOf[a]
  BY <1>1, DistributionAssumption DEF PullPending
<1>2. ASSUME NEW h \in Handlers, AdvanceSKU(h) \/ CallTxFails(h)
      PROVE  holder[a] = "success" => holder'[a] = "success"
  BY <1>2 DEF AdvanceSKU, CallTxFails, CallsAreSound, CallIsSound
<1>3. CASE ServerCrash
  BY <1>3 DEF ServerCrash, CallsAreSound, CallIsSound, attVars
<1>4. CASE AgentStep
  BY <1>4 DEF AgentStep, AgentDies, AgentFinishes, attVars
<1>5. ASSUME NEW h \in Handlers, NEW j \in Jobs, NEW b \in Attempts,
             PullPending(h, j, b) \/ Heartbeat(h, b) \/ AckJob(h, b)
      PROVE  acked' = acked /\ holder' = holder /\ (jobOf[a] \in Jobs => jobOf'[a] = jobOf[a])
  BY <1>1, <1>5 DEF PullPending, Heartbeat, AckJob, attVars
<1>6. ASSUME NEW h \in Handlers, RenewLease(h) \/ AckDone(h) \/ AckFail(h) \/ ListBySKUID(h) \/ CompleteSKU(h)
      PROVE  (acked[a] => acked'[a]) /\ holder' = holder /\ jobOf' = jobOf
  BY <1>6 DEF RenewLease, AckDone, AckFail, ListBySKUID, CompleteSKU, attVars
<1>7. ASSUME NEW h \in Handlers, AdvanceSKU(h) \/ CallTxFails(h)
      PROVE  acked' = acked /\ jobOf' = jobOf
  BY <1>7 DEF AdvanceSKU, CallTxFails, attVars
<1>8. CASE ReaperStep \/ SchedulerStep \/ TimeStep \/ WorkerTxFails \/ UNCHANGED vars
  BY <1>8 DEF ReaperStep, Reap, MarkStale, SchedulerStep, Schedule, MarkRetrying, MarkExceeded,
              TimeStep, LeaseRunsOut, RetryFallsDue, WorkerTxFails, vars, attVars
<1>9. ASSUME NEW h \in Handlers, RequestStep(h)
      PROVE  acked' = acked /\ holder' = holder /\ (jobOf[a] \in Jobs => jobOf'[a] = jobOf[a])
  BY <1>5, <1>9 DEF RequestStep, Heartbeat, AckJob, attVars
<1> QED
  BY <1>2, <1>3, <1>4, <1>6, <1>7, <1>8, <1>9 DEF Next, HandlerStep, FaultStep

\* A delivered job stays delivered.
LEMMA DeliveredIsStable ==
  ASSUME TypeOK, CallsAreSound, [Next]_vars, NEW j \in Jobs, Delivered(j)
  PROVE  Delivered(j)'
<1>1. PICK a \in Attempts : jobOf[a] = j /\ acked[a] /\ holder[a] = "success"
  BY DEF Delivered, AttemptsOf
<1>2. jobOf'[a] = j /\ acked'[a] /\ holder'[a] = "success"
  BY <1>1, AttemptsOnlyGrow
<1> QED
  BY <1>2 DEF Delivered, AttemptsOf

EarnedInv == CallsAreSound /\ CompletionIsEarned

\* Nothing is Done or Completed yet.
LEMMA InitEarned == Init => EarnedInv
  BY DistributionAssumption
     DEF Init, EarnedInv, CallsAreSound, CallIsSound, Idle, CompletionIsEarned

\* A request in progress keeps what it relies on through the steps of others.
LEMMA OthersKeepCallSound ==
  ASSUME TypeOK, CallsAreSound, [Next]_vars, NEW h \in Handlers, call'[h] = call[h],
         call[h].op = "advance" => holder'[call[h].att] = "unknown"
  PROVE  CallIsSound(call[h])'
<1> DEFINE c == call[h]
<1>1. CallIsSound(c)
  BY DEF CallsAreSound
<1>2. c.op = "idle" => c = Idle
  BY <1>1 DEF CallIsSound
<1>3. c.op # "idle" => c.att \in Attempts /\ jobOf[c.att] \in Jobs /\ jobOf'[c.att] = jobOf[c.att]
  BY <1>1, AttemptsOnlyGrow DEF CallIsSound
<1>4. c.op = "ackDone" => holder'[c.att] = "success"
  BY <1>1, <1>3, AttemptsOnlyGrow DEF CallIsSound
<1>5. ASSUME c.op = "complete", NEW j \in JobsOf(SkuOf[jobOf[c.att]]) PROVE Delivered(j)'
  BY <1>1, <1>5, DeliveredIsStable DEF CallIsSound, JobsOf
<1> HIDE DEF c
<1>6. call'[h] = c
  BY DEF c
<1>7. c.op = "advance" => holder'[c.att] = "unknown"
  BY DEF c
<1> QED
  BY <1>2, <1>3, <1>4, <1>5, <1>6, <1>7 DEF CallIsSound, JobsOf

\* The part of CompletionIsEarned about SKUs survives a step that completes none,
\* the part about jobs a step that makes none Done.
LEMMA EarnedFrame ==
  ASSUME TypeOK, EarnedInv, [Next]_vars,
         \A j \in Jobs : status'[j] = "Done" => status[j] = "Done" \/ Delivered(j)',
         \A s \in SKUs : skuStatus'[s] = "Completed" =>
             skuStatus[s] = "Completed" \/ \A j \in JobsOf(s) : Delivered(j)
  PROVE  CompletionIsEarned'
<1>1. \A j \in Jobs : Delivered(j) => Delivered(j)'
  BY DeliveredIsStable DEF EarnedInv
<1> QED
  BY <1>1 DEF EarnedInv, CompletionIsEarned, JobsOf

\* Done is written by an ack whose evidence passed, Completed by a request that
\* found every job Done; all others leave the two alone.
LEMMA NextEarned == TypeOK /\ EarnedInv /\ [Next]_vars => EarnedInv'
<1> SUFFICES ASSUME TypeOK, EarnedInv, [Next]_vars PROVE EarnedInv'
  OBVIOUS
<1> CallsAreSound
  BY DEF EarnedInv
<1>0. TypeOK'
  BY NextTypeOK
\* Requests that start: the new call relies on nothing but its attempt.
<1>1. ASSUME NEW h \in Handlers, NEW j \in Jobs, NEW a \in Attempts, PullPending(h, j, a)
      PROVE  EarnedInv'
  <2>1. /\ call' = [call EXCEPT ![h] = [op |-> "advance", att |-> a]]
        /\ jobOf' = [jobOf EXCEPT ![a] = j] /\ jobOf[a] = NoJob
        /\ holder' = holder /\ skuStatus' = skuStatus
    BY <1>1 DEF PullPending
  <2>2. holder[a] = "unknown"
    BY <2>1, DistributionAssumption DEF CallsAreSound, TypeOK
  <2>3. \A g \in Handlers : call[g].att # a
    BY <2>1, DistributionAssumption DEF CallsAreSound, CallIsSound, TypeOK, Call, Idle
  <2>4. \A g \in Handlers \ {h} : call'[g] = call[g] /\ CallIsSound(call[g])'
    <3> SUFFICES ASSUME NEW g \in Handlers \ {h} PROVE call'[g] = call[g] /\ CallIsSound(call[g])'
      OBVIOUS
    <3>1. call'[g] = call[g]
      BY <2>1 DEF TypeOK
    <3>2. call[g].op = "advance" => holder'[call[g].att] = "unknown"
      BY <2>1 DEF CallsAreSound, CallIsSound
    <3> QED
      BY <3>1, <3>2, OthersKeepCallSound
  <2>5. call'[h] = [op |-> "advance", att |-> a] /\ CallIsSound(call[h])'
    BY <2>1, <2>2 DEF TypeOK, CallIsSound
  <2>6. CallsAreSound'
    <3>1. \A f, g \in Handlers : (call'[g].op = "advance" /\ call'[f] = call'[g]) => f = g
      BY <2>3, <2>4, <2>5 DEF CallsAreSound
    <3>2. \A b \in Attempts : holder'[b] # "unknown" => jobOf'[b] \in Jobs
      BY <2>1, <2>2 DEF CallsAreSound, TypeOK
    <3>3. \A g \in Handlers : CallIsSound(call[g])'
      BY <2>4, <2>5
    <3> QED
      BY <3>1, <3>2, <3>3 DEF CallsAreSound
  <2>7. CompletionIsEarned'
    <3>1. \A k \in Jobs : status'[k] = "Done" => status[k] = "Done"
      BY <1>1 DEF PullPending, TypeOK
    <3> QED
      BY <2>1, <3>1, EarnedFrame
  <2> QED
    BY <2>6, <2>7 DEF EarnedInv
\* Any other step of a handler h: holders keep their state or leave "unknown"
\* through h's own call, and only h's call changes.
<1>2. ASSUME NEW h \in Handlers, NEW c, call' = [call EXCEPT ![h] = c],
             c = Idle \/ c.op # "advance",
             CallIsSound(c)',
             jobOf' = jobOf,
             \/ holder' = holder
             \/ /\ call[h].op = "advance"
                /\ holder' = [holder EXCEPT ![call[h].att] = "working"]
      PROVE  CallsAreSound'
  <2>1. call'[h] = c /\ CallIsSound(call[h])'
    BY <1>2 DEF TypeOK
  <2>2. ASSUME NEW g \in Handlers \ {h} PROVE call'[g] = call[g] /\ CallIsSound(call[g])'
    <3>1. call'[g] = call[g]
      BY <1>2 DEF TypeOK
    <3>2. call[g] \in Call /\ call[h] \in Call
      BY DEF TypeOK
    <3>3. ASSUME call[g].op = "advance", call[h].op = "advance" PROVE call[g].att # call[h].att
      <4>1. call[g].att = call[h].att => call[g] = call[h]
        BY <3>2, <3>3 DEF Call
      <4> QED
        BY <3>3, <4>1 DEF CallsAreSound
    <3>4. call[g].op = "advance" => holder'[call[g].att] = "unknown"
      BY <1>2, <3>3 DEF CallsAreSound, CallIsSound, TypeOK
    <3> QED
      BY <3>1, <3>4, OthersKeepCallSound
  <2>3. \A f, g \in Handlers : (call'[g].op = "advance" /\ call'[f] = call'[g]) => f = g
    BY <1>2, <2>1, <2>2 DEF CallsAreSound, Idle
  <2>4. \A b \in Attempts : holder'[b] # "unknown" => jobOf'[b] \in Jobs
    BY <1>2 DEF CallsAreSound, CallIsSound, TypeOK
  <2>5. \A g \in Handlers : CallIsSound(call[g])'
    BY <2>1, <2>2
  <2> QED
    BY <2>3, <2>4, <2>5 DEF CallsAreSound
<1>3. CallIsSound(Idle)'
  BY DEF CallIsSound, Idle
<1>4. ASSUME NEW h \in Handlers, NEW a \in Attempts, Heartbeat(h, a) \/ AckJob(h, a)
      PROVE  EarnedInv'
  <2>1. jobOf' = jobOf /\ holder' = holder /\ status' = status /\ skuStatus' = skuStatus
    BY <1>4 DEF Heartbeat, AckJob, jobVars, attVars
  <2>2. jobOf[a] \in Jobs
    BY <1>4 DEF Heartbeat, AckJob, CallsAreSound, Outcome
  <2>3. PICK o \in {"renew", "ackDone", "ackFail"} :
          /\ call' = [call EXCEPT ![h] = [op |-> o, att |-> a]]
          /\ o = "ackDone" => holder[a] = "success"
    BY <1>4 DEF Heartbeat, AckJob, EvidenceSatisfied
  <2>4. CallIsSound([op |-> o, att |-> a])'
    BY <2>1, <2>2, <2>3 DEF CallIsSound
  <2>5. CallsAreSound'
    BY <1>2, <2>1, <2>3, <2>4
  <2> QED
    BY <2>1, <2>5, EarnedFrame DEF EarnedInv
<1>5. ASSUME NEW h \in Handlers, AdvanceSKU(h) \/ CallTxFails(h)
      PROVE  EarnedInv'
  <2>1. /\ call' = [call EXCEPT ![h] = Idle] /\ jobOf' = jobOf /\ status' = status
        /\ \/ holder' = holder
           \/ /\ call[h].op = "advance"
              /\ holder' = [holder EXCEPT ![call[h].att] = "working"]
    BY <1>5 DEF AdvanceSKU, CallTxFails, jobVars, attVars
  <2>2. \A s \in SKUs : skuStatus'[s] = "Completed" => skuStatus[s] = "Completed"
    BY <1>5 DEF AdvanceSKU, CallTxFails, CASWorkflowStatus, TypeOK
  <2>3. CallsAreSound'
    BY <1>2, <1>3, <2>1
  <2> QED
    BY <2>1, <2>2, <2>3, EarnedFrame DEF EarnedInv
<1>6. ASSUME NEW h \in Handlers, RenewLease(h)
      PROVE  EarnedInv'
  <2>1. /\ call' = [call EXCEPT ![h] = Idle] /\ jobOf' = jobOf /\ status' = status
        /\ holder' = holder /\ skuStatus' = skuStatus
    BY <1>6 DEF RenewLease, jobVars
  <2>2. CallsAreSound'
    BY <1>2, <1>3, <2>1
  <2> QED
    BY <2>1, <2>2, EarnedFrame DEF EarnedInv
<1>7. ASSUME NEW h \in Handlers, AckDone(h)
      PROVE  EarnedInv'
  <2>1. PICK a \in Attempts, j \in Jobs :
          a = call[h].att /\ j = jobOf[a] /\ holder[a] = "success"
    BY <1>7 DEF AckDone, CallsAreSound, CallIsSound
  <2>2. /\ call' = [call EXCEPT ![h] = [op |-> "list", att |-> a]] /\ jobOf' = jobOf
        /\ holder' = holder /\ skuStatus' = skuStatus
        /\ status' = [status EXCEPT ![j] = "Done"] /\ acked' = [acked EXCEPT ![a] = TRUE]
    BY <1>7, <2>1 DEF AckDone
  <2>3. Delivered(j)'
    BY <2>1, <2>2 DEF Delivered, AttemptsOf, TypeOK
  <2>4. CallIsSound([op |-> "list", att |-> a])'
    BY <2>1, <2>2 DEF CallIsSound
  <2>5. CallsAreSound'
    BY <1>2, <2>2, <2>4
  <2>6. \A k \in Jobs : status'[k] = "Done" => status[k] = "Done" \/ Delivered(k)'
    BY <2>1, <2>2, <2>3 DEF TypeOK
  <2> QED
    BY <2>2, <2>5, <2>6, EarnedFrame DEF EarnedInv
<1>8. ASSUME NEW h \in Handlers, AckFail(h)
      PROVE  EarnedInv'
  <2>1. /\ call' = [call EXCEPT ![h] = Idle] /\ jobOf' = jobOf
        /\ holder' = holder /\ skuStatus' = skuStatus
    BY <1>8 DEF AckFail
  <2>2. \A k \in Jobs : status'[k] = "Done" => status[k] = "Done"
    BY <1>8 DEF AckFail, TypeOK
  <2>3. CallsAreSound'
    BY <1>2, <1>3, <2>1
  <2> QED
    BY <2>1, <2>2, <2>3, EarnedFrame DEF EarnedInv
<1>9. ASSUME NEW h \in Handlers, ListBySKUID(h)
      PROVE  EarnedInv'
  <2>1. PICK a \in Attempts : a = call[h].att /\ jobOf[a] \in Jobs
    BY <1>9 DEF ListBySKUID, CallsAreSound, CallIsSound
  <2>0. PICK s : s = SkuOf[jobOf[a]]
    OBVIOUS
  <2>2. /\ jobOf' = jobOf /\ status' = status /\ holder' = holder /\ skuStatus' = skuStatus
    BY <1>9 DEF ListBySKUID, jobVars, attVars
  <2>3. CASE SKUCompleted(s)
    <3>1. call' = [call EXCEPT ![h] = [op |-> "complete", att |-> a]]
      BY <1>9, <2>0, <2>1, <2>3 DEF ListBySKUID
    <3>2. \A j \in JobsOf(s) : Delivered(j)'
      BY <2>3, DeliveredIsStable DEF SKUCompleted, EarnedInv, CompletionIsEarned, JobsOf
    <3>3. SkuOf[jobOf'[a]] = s
      BY <2>0, <2>2
    <3>4. CallIsSound([op |-> "complete", att |-> a])'
      BY <2>1, <2>2, <3>2, <3>3 DEF CallIsSound, JobsOf
    <3>5. CallsAreSound'
      BY <1>2, <2>2, <3>1, <3>4
    <3> QED
      BY <3>5, <2>2, EarnedFrame DEF EarnedInv
  <2>4. CASE ~SKUCompleted(s)
    <3>1. call' = [call EXCEPT ![h] = Idle]
      BY <1>9, <2>0, <2>1, <2>4 DEF ListBySKUID
    <3>2. CallsAreSound'
      BY <1>2, <1>3, <2>2, <3>1
    <3> QED
      BY <3>2, <2>2, EarnedFrame DEF EarnedInv
  <2> QED
    BY <2>3, <2>4
<1>10. ASSUME NEW h \in Handlers, CompleteSKU(h)
       PROVE  EarnedInv'
  <2>1. /\ call' = [call EXCEPT ![h] = Idle] /\ jobOf' = jobOf /\ status' = status
        /\ holder' = holder
    BY <1>10 DEF CompleteSKU, jobVars, attVars
  <2>2. CallsAreSound'
    BY <1>2, <1>3, <2>1
  <2>3. \A s \in SKUs : skuStatus'[s] = "Completed" =>
          skuStatus[s] = "Completed" \/ \A j \in JobsOf(s) : Delivered(j)
    BY <1>10 DEF CompleteSKU, CASWorkflowStatus, CallsAreSound, CallIsSound, TypeOK
  <2> QED
    BY <2>1, <2>2, <2>3, EarnedFrame DEF EarnedInv
\* Steps of workers, time and agents change no call.
<1>11. ASSUME call' = call, jobOf' = jobOf, skuStatus' = skuStatus,
              \A j \in Jobs : status'[j] = "Done" => status[j] = "Done",
              \A a \in Attempts : holder[a] = "unknown" <=> holder'[a] = "unknown"
       PROVE  EarnedInv'
  <2>1. \A g \in Handlers : CallIsSound(call[g])'
    <3> SUFFICES ASSUME NEW g \in Handlers PROVE CallIsSound(call[g])'
      OBVIOUS
    <3>1. call[g].op = "advance" => holder'[call[g].att] = "unknown"
      BY <1>11 DEF CallsAreSound, CallIsSound
    <3> QED
      BY <1>11, <3>1, OthersKeepCallSound
  <2>2. CallsAreSound'
    BY <1>11, <2>1 DEF CallsAreSound
  <2> QED
    BY <1>11, <2>2, EarnedFrame DEF EarnedInv
<1>12. CASE ServerCrash
  <2>1. /\ call' = [h \in Handlers |-> Idle] /\ jobOf' = jobOf /\ status' = status
        /\ skuStatus' = skuStatus
    BY <1>12 DEF ServerCrash, jobVars, attVars
  <2>2. \A a \in Attempts : holder'[a] # "unknown" => jobOf'[a] \in Jobs
    BY <1>12, <2>1 DEF ServerCrash, CallsAreSound, CallIsSound
  <2>3. CallsAreSound'
    BY <1>3, <2>1, <2>2 DEF CallsAreSound, Idle
  <2> QED
    BY <2>1, <2>3, EarnedFrame DEF EarnedInv
<1>13. CASE ReaperStep
  BY <1>11, <1>13 DEF ReaperStep, Reap, MarkStale, jobVars, attVars, TypeOK
<1>14. CASE SchedulerStep
  BY <1>11, <1>14 DEF SchedulerStep, Schedule, MarkRetrying, MarkExceeded, jobVars, attVars, TypeOK
<1>15. CASE AgentStep
  BY <1>11, <1>15 DEF AgentStep, AgentDies, AgentFinishes, jobVars, attVars, TypeOK, Outcome
<1>16. CASE TimeStep \/ WorkerTxFails \/ UNCHANGED vars
  BY <1>11, <1>16 DEF TimeStep, LeaseRunsOut, RetryFallsDue, WorkerTxFails, vars, jobVars, attVars
<1> QED
  BY <1>1, <1>4, <1>5, <1>6, <1>7, <1>8, <1>9, <1>10, <1>12, <1>13, <1>14, <1>15, <1>16
     DEF Next, RequestStep, HandlerStep, FaultStep

\* For every instance: Done and Completed are only ever written for files that
\* agents delivered, whatever acks, reaps, retries and crashes interleave.
THEOREM CompletionIsEarnedHolds == Spec => []CompletionIsEarned
<1>1. Init => TypeOK /\ EarnedInv
  BY InitTypeOK, InitEarned
<1>2. TypeOK /\ EarnedInv /\ [Next]_vars => TypeOK' /\ EarnedInv'
  BY NextTypeOK, NextEarned
<1>3. EarnedInv => CompletionIsEarned
  BY DEF EarnedInv
<1> QED
  BY <1>1, <1>2, <1>3, PTL DEF Spec

-----------------------------------------------------------------------------
(* No completion is lost *)

\* An agent that knows its attempt was answered by a PullJob that has moved the
\* SKU on, and only such agents acknowledge.
Announced ==
  /\ \A a \in Attempts :
       holder[a] # "unknown" => skuStatus[SkuOf[jobOf[a]]] # "Approved"
  /\ \A h \in Handlers :
       call[h].op \in {"list", "complete"} => holder[call[h].att] # "unknown"

NoneIsLost ==
  \A s \in SKUs : (JobsOf(s) # {} /\ SKUCompleted(s) /\ ~Completing(s))
                     => skuStatus[s] = "Completed"

LostInv == faults = 0 => Announced /\ NoneIsLost

\* No job is done and no agent knows its attempt.
LEMMA InitLost == Init => LostInv
  BY DistributionAssumption
     DEF Init, LostInv, Announced, NoneIsLost, SKUCompleted, JobsOf, Idle

\* A step that writes no job Done and neither starts nor ends a tryCompleteSKU.
LEMMA LostFrame ==
  ASSUME TypeOK, CallsAreSound, Announced, NoneIsLost,
         \A j \in Jobs : status'[j] = "Done" => status[j] = "Done",
         \A h \in Handlers :
           (call[h].op \in {"list", "complete"} \/ call'[h].op \in {"list", "complete"})
             => call'[h] = call[h],
         \A a \in Attempts : jobOf[a] \in Jobs => jobOf'[a] = jobOf[a],
         \A a \in Attempts : holder'[a] = "unknown" <=> holder[a] = "unknown",
         skuStatus' = skuStatus
  PROVE  Announced' /\ NoneIsLost'
<1>1. \A h \in Handlers : call[h].op \in {"list", "complete"} =>
        call[h].att \in Attempts /\ jobOf'[call[h].att] = jobOf[call[h].att]
  BY DEF CallsAreSound, CallIsSound
<1>2. Announced'
  <2>1. ASSUME NEW a \in Attempts, holder'[a] # "unknown"
        PROVE  skuStatus'[SkuOf[jobOf'[a]]] # "Approved"
    BY <2>1 DEF CallsAreSound, Announced
  <2>2. ASSUME NEW h \in Handlers, call'[h].op \in {"list", "complete"}
        PROVE  holder'[call'[h].att] # "unknown"
    BY <1>1, <2>2 DEF Announced
  <2> QED BY <2>1, <2>2 DEF Announced
<1>3. ASSUME NEW s \in SKUs, SKUCompleted(s)' PROVE SKUCompleted(s)
  BY <1>3 DEF SKUCompleted, JobsOf
<1>4. ASSUME NEW s \in SKUs, Completing(s) PROVE Completing(s)'
  <2>1. PICK h \in Handlers : /\ call[h].op \in {"list", "complete"}
                              /\ SkuOf[jobOf[call[h].att]] = s
    BY <1>4 DEF Completing
  <2>2. call'[h] = call[h] /\ jobOf'[call[h].att] = jobOf[call[h].att]
    BY <1>1, <2>1
  <2> QED BY <2>1, <2>2 DEF Completing
<1> QED BY <1>2, <1>3, <1>4 DEF NoneIsLost, JobsOf

\* The ack that writes the last job Done lists the jobs after it, and finds the
\* SKU running when it completes it.
LEMMA NextLost ==
  ASSUME TypeOK, CallsAreSound, LostInv, [Next]_vars
  PROVE  LostInv'
<1> SUFFICES ASSUME faults' = 0, faults = 0, Announced, NoneIsLost
             PROVE  Announced' /\ NoneIsLost'
  <2>1. ASSUME faults' = 0 PROVE faults = 0
    <3>1. faults \in Nat
      BY DistributionAssumption DEF TypeOK
    <3>2. \A h \in Handlers : ~CallTxFails(h)
      BY <2>1, <3>1 DEF CallTxFails
    <3>3. ~WorkerTxFails /\ ~ServerCrash
      BY <2>1, <3>1 DEF WorkerTxFails, ServerCrash
    <3>4. ~FaultStep
      BY <3>2, <3>3 DEF FaultStep
    <3> QED
      BY <2>1, <3>4
         DEF Next, RequestStep, HandlerStep, ReaperStep, SchedulerStep, AgentStep, TimeStep, vars,
             PullPending, Heartbeat, AckJob, AdvanceSKU, RenewLease, AckDone, AckFail,
             ListBySKUID, CompleteSKU, Reap, MarkStale, Schedule, MarkRetrying, MarkExceeded,
             AgentDies, AgentFinishes, LeaseRunsOut, RetryFallsDue
  <2> QED BY <2>1 DEF LostInv
<1>0. \A h \in Handlers : ~CallTxFails(h)
  BY DEF CallTxFails
<1>1. ASSUME NEW h \in Handlers, NEW j \in Jobs, NEW a \in Attempts, PullPending(h, j, a)
      PROVE  Announced' /\ NoneIsLost'
  BY <1>1, LostFrame, DistributionAssumption DEF PullPending, Idle, TypeOK
<1>2. ASSUME NEW h \in Handlers, NEW a \in Attempts, Heartbeat(h, a) \/ AckJob(h, a)
      PROVE  Announced' /\ NoneIsLost'
  BY <1>2, LostFrame DEF Heartbeat, AckJob, Idle, jobVars, attVars, TypeOK
<1>3. ASSUME NEW h \in Handlers, RenewLease(h) \/ AckFail(h)
      PROVE  Announced' /\ NoneIsLost'
  BY <1>3, LostFrame DEF RenewLease, AckFail, Idle, jobVars, TypeOK
<1>4. ASSUME NEW h \in Handlers, AdvanceSKU(h)
      PROVE  Announced' /\ NoneIsLost'
  <2>1. /\ call[h].op = "advance" /\ call' = [call EXCEPT ![h] = Idle]
        /\ holder' = [holder EXCEPT ![call[h].att] = "working"]
        /\ status' = status /\ jobOf' = jobOf
        /\ CASWorkflowStatus(SkuOf[jobOf[call[h].att]], "Approved", "Distribution_Running")
    BY <1>4 DEF AdvanceSKU, jobVars, attVars
  <2>2. call[h].att \in Attempts /\ SkuOf[jobOf[call[h].att]] \in SKUs
    BY <2>1, DistributionAssumption DEF CallsAreSound, CallIsSound
  <2>3. \A s \in SKUs : /\ skuStatus[s] # "Approved" => skuStatus'[s] = skuStatus[s]
                        /\ s = SkuOf[jobOf[call[h].att]] => skuStatus'[s] # "Approved"
    BY <2>1, <2>2 DEF CASWorkflowStatus, TypeOK
  <2>4. Announced'
    <3>1. ASSUME NEW a \in Attempts, holder'[a] # "unknown"
          PROVE  skuStatus'[SkuOf[jobOf'[a]]] # "Approved"
      <4>1. CASE a = call[h].att
        BY <2>1, <2>2, <2>3, <4>1
      <4>2. CASE a # call[h].att
        <5>1. holder[a] # "unknown" /\ jobOf[a] \in Jobs
          BY <2>1, <3>1, <4>2 DEF TypeOK, CallsAreSound
        <5>2. skuStatus[SkuOf[jobOf[a]]] # "Approved" /\ SkuOf[jobOf[a]] \in SKUs
          BY <5>1, DistributionAssumption DEF Announced
        <5> QED BY <2>1, <2>3, <5>2
      <4> QED BY <4>1, <4>2
    <3>2. ASSUME NEW g \in Handlers, call'[g].op \in {"list", "complete"}
          PROVE  holder'[call'[g].att] # "unknown"
      <4>1. g # h /\ call'[g] = call[g]
        BY <2>1, <3>2 DEF TypeOK, Idle
      <4>2. call[g].att \in Attempts /\ holder[call[g].att] # "unknown"
        BY <3>2, <4>1 DEF Announced, CallsAreSound, CallIsSound
      <4> QED BY <2>1, <4>1, <4>2 DEF TypeOK
    <3> QED BY <3>1, <3>2 DEF Announced
  <2>5. \A s \in SKUs : Completing(s) => Completing(s)'
    BY <2>1 DEF Completing, TypeOK
  <2> QED BY <2>1, <2>3, <2>4, <2>5 DEF NoneIsLost, SKUCompleted, JobsOf
<1>5. ASSUME NEW h \in Handlers, AckDone(h)
      PROVE  Announced' /\ NoneIsLost'
  <2> DEFINE a == call[h].att
  <2>1. /\ call[h].op = "ackDone" /\ call' = [call EXCEPT ![h] = [op |-> "list", att |-> a]]
        /\ status' = [status EXCEPT ![jobOf[a]] = "Done"]
        /\ skuStatus' = skuStatus /\ jobOf' = jobOf /\ holder' = holder
    BY <1>5 DEF AckDone
  <2>2. a \in Attempts /\ jobOf[a] \in Jobs /\ holder[a] = "success"
    BY <2>1 DEF CallsAreSound, CallIsSound
  <2>3. Announced'
    BY <2>1, <2>2 DEF Announced, TypeOK
  <2>4. Completing(SkuOf[jobOf[a]])'
    BY <2>1 DEF Completing, TypeOK
  <2>5. ASSUME NEW s \in SKUs, s # SkuOf[jobOf[a]]
        PROVE  SKUCompleted(s)' = SKUCompleted(s)
    BY <2>1, <2>5 DEF SKUCompleted, JobsOf, TypeOK
  <2>6. \A s \in SKUs : Completing(s) => Completing(s)'
    BY <2>1 DEF Completing, TypeOK
  <2> QED BY <2>1, <2>3, <2>4, <2>5, <2>6 DEF NoneIsLost, JobsOf
<1>6. ASSUME NEW h \in Handlers, ListBySKUID(h)
      PROVE  Announced' /\ NoneIsLost'
  <2> DEFINE a == call[h].att
  <2>1. /\ call[h].op = "list"
        /\ call' = [call EXCEPT ![h] = IF SKUCompleted(SkuOf[jobOf[a]])
                                       THEN [op |-> "complete", att |-> a] ELSE Idle]
        /\ status' = status /\ skuStatus' = skuStatus /\ jobOf' = jobOf /\ holder' = holder
    BY <1>6 DEF ListBySKUID, jobVars, attVars
  <2>2. \A s \in SKUs : SKUCompleted(s)' = SKUCompleted(s)
    BY <2>1 DEF SKUCompleted, JobsOf
  <2>3. \A g \in Handlers : call'[g] = IF g = h
                                       THEN IF SKUCompleted(SkuOf[jobOf[a]])
                                            THEN [op |-> "complete", att |-> a] ELSE Idle
                                       ELSE call[g]
    BY <2>1 DEF TypeOK
  <2>4. Announced'
    BY <2>1, <2>3 DEF Announced, Idle
  <2>5. \A s \in SKUs : Completing(s) /\ SKUCompleted(s) => Completing(s)'
    BY <2>1, <2>3 DEF Completing
  <2> QED BY <2>1, <2>2, <2>4, <2>5 DEF NoneIsLost, JobsOf
<1>7. ASSUME NEW h \in Handlers, CompleteSKU(h)
      PROVE  Announced' /\ NoneIsLost'
  <2> DEFINE t == SkuOf[jobOf[call[h].att]]
  <2>1. /\ call[h].op = "complete" /\ call' = [call EXCEPT ![h] = Idle]
        /\ CASWorkflowStatus(t, "Distribution_Running", "Completed")
        /\ status' = status /\ jobOf' = jobOf /\ holder' = holder
    BY <1>7 DEF CompleteSKU, jobVars, attVars
  <2>2. t \in SKUs /\ skuStatus[t] # "Approved"
    BY <2>1, DistributionAssumption DEF CallsAreSound, CallIsSound, Announced
  <2>3. \A s \in SKUs : /\ skuStatus[s] # "Approved" => skuStatus'[s] # "Approved"
                        /\ s = t => skuStatus'[s] = "Completed"
                        /\ s # t => skuStatus'[s] = skuStatus[s]
    BY <2>1, <2>2 DEF CASWorkflowStatus, TypeOK, SkuStatus
  <2>4. \A g \in Handlers : call'[g] = IF g = h THEN Idle ELSE call[g]
    BY <2>1 DEF TypeOK
  <2>5. Announced'
    <3>1. ASSUME NEW b \in Attempts, holder'[b] # "unknown"
          PROVE  skuStatus'[SkuOf[jobOf'[b]]] # "Approved"
      BY <2>1, <2>3, <3>1, DistributionAssumption DEF Announced, CallsAreSound
    <3> QED BY <2>1, <2>4, <3>1 DEF Announced, Idle
  <2>6. \A s \in SKUs \ {t} : Completing(s) => Completing(s)'
    BY <2>1, <2>4 DEF Completing
  <2> QED BY <2>1, <2>3, <2>5, <2>6 DEF NoneIsLost, SKUCompleted, JobsOf
<1>8. CASE ReaperStep
  BY <1>8, LostFrame DEF ReaperStep, Reap, MarkStale, jobVars, attVars, TypeOK
<1>9. CASE SchedulerStep
  BY <1>9, LostFrame DEF SchedulerStep, Schedule, MarkRetrying, MarkExceeded, jobVars, attVars,
                         TypeOK
<1>10. CASE AgentStep
  BY <1>10, LostFrame DEF AgentStep, AgentDies, AgentFinishes, jobVars, attVars, TypeOK, Outcome
<1>11. CASE TimeStep \/ WorkerTxFails \/ UNCHANGED vars
  BY <1>11, LostFrame DEF TimeStep, LeaseRunsOut, RetryFallsDue, WorkerTxFails, vars, jobVars,
                          attVars
<1>12. CASE ServerCrash
  BY <1>12 DEF ServerCrash
<1> QED
  BY <1>0, <1>1, <1>2, <1>3, <1>4, <1>5, <1>6, <1>7, <1>8, <1>9, <1>10, <1>11, <1>12
     DEF Next, RequestStep, HandlerStep, FaultStep

\* For every instance: as long as no transaction failed, a SKU whose jobs are all
\* Done is Completed or about to be, although tryCompleteSKU reads outside any
\* transaction.
THEOREM NoLostCompletionHolds == Spec => []NoLostCompletion
<1>1. Init => TypeOK /\ EarnedInv /\ LostInv
  BY InitTypeOK, InitEarned, InitLost
<1>2. TypeOK /\ EarnedInv /\ LostInv /\ [Next]_vars => TypeOK' /\ EarnedInv' /\ LostInv'
  BY NextTypeOK, NextEarned, NextLost DEF EarnedInv
<1>3. LostInv => NoLostCompletion
  BY DEF LostInv, NoneIsLost, NoLostCompletion
<1> QED
  BY <1>1, <1>2, <1>3, PTL DEF Spec

-----------------------------------------------------------------------------
(* The event log agrees with the rows *)

\* For every instance: the newest event of a job tells its status, the newest
\* sku.status_changed the SKU's, and failed jobs have their incident.
THEOREM LogAgreesWithRowsHolds == Spec => []LogAgreesWithRows
<1>1. Init => LogAgreesWithRows
  BY DEF Init, LogAgreesWithRows, LoggedStatus
<1>2. TypeOK /\ LogAgreesWithRows /\ [Next]_vars => LogAgreesWithRows'
  <2> SUFFICES ASSUME TypeOK, LogAgreesWithRows, [Next]_vars PROVE LogAgreesWithRows'
    OBVIOUS
  <2> USE DEF LogAgreesWithRows, LoggedStatus, TypeOK
  <2>1. ASSUME NEW h \in Handlers, NEW j \in Jobs, NEW a \in Attempts, PullPending(h, j, a)
        PROVE  LogAgreesWithRows'
    BY <2>1 DEF PullPending
  <2>2. ASSUME NEW h \in Handlers, AckDone(h)
        PROVE  LogAgreesWithRows'
    BY <2>2 DEF AckDone
  <2>3. ASSUME NEW h \in Handlers, AckFail(h)
        PROVE  LogAgreesWithRows'
    BY <2>3 DEF AckFail
  <2>4. ASSUME NEW j \in Jobs, MarkStale(j)
        PROVE  LogAgreesWithRows'
    BY <2>4 DEF MarkStale
  <2>5. ASSUME NEW r \in retrying, MarkRetrying(r[1], r[2])
        PROVE  LogAgreesWithRows'
    BY <2>5 DEF MarkRetrying
  <2>6. ASSUME NEW r \in retrying, MarkExceeded(r[1], r[2])
        PROVE  LogAgreesWithRows'
    BY <2>6 DEF MarkExceeded
  <2>7. ASSUME NEW h \in Handlers, AdvanceSKU(h) \/ CompleteSKU(h)
        PROVE  LogAgreesWithRows'
    BY <2>7 DEF AdvanceSKU, CompleteSKU, CASWorkflowStatus, jobVars
  <2>8. ASSUME UNCHANGED <<skuStatus, status, logVars>>
        PROVE  LogAgreesWithRows'
    BY <2>8 DEF logVars
  <2>9. ASSUME NEW h \in Handlers, NEW a \in Attempts, Heartbeat(h, a) \/ AckJob(h, a)
        PROVE  LogAgreesWithRows'
    BY <2>8, <2>9 DEF Heartbeat, AckJob, jobVars
  <2>10. ASSUME NEW h \in Handlers, RenewLease(h) \/ ListBySKUID(h) \/ CallTxFails(h)
         PROVE  LogAgreesWithRows'
    BY <2>8, <2>10 DEF RenewLease, ListBySKUID, CallTxFails, jobVars
  <2>11. CASE Reap \/ AgentStep \/ TimeStep \/ WorkerTxFails \/ ServerCrash \/ UNCHANGED vars
    BY <2>8, <2>11 DEF Reap, AgentStep, AgentDies, AgentFinishes, TimeStep, LeaseRunsOut,
                       RetryFallsDue, WorkerTxFails, ServerCrash, vars, jobVars
  <2>12. ASSUME NEW S \in SUBSET Jobs, Schedule(S)
         PROVE  LogAgreesWithRows'
    BY <2>8, <2>12 DEF Schedule, jobVars
  <2> QED
    BY <2>1, <2>2, <2>3, <2>4, <2>5, <2>6, <2>7, <2>9, <2>10, <2>11, <2>12
       DEF Next, RequestStep, HandlerStep, ReaperStep, SchedulerStep, FaultStep
<1> QED
  BY <1>1, <1>2, TypeCorrect, PTL DEF Spec

-----------------------------------------------------------------------------
(* The SKU follows the policy engine's table *)

\* For every instance: the SKU statuses written by the agents' requests are a
\* behaviour of the state machine policy/engine.go declares.
THEOREM RefinesSkuWorkflow == Spec => ImplementsSkuWorkflow
<1>1. Init => SkuWorkflowSpec!Init
  BY DEF Init, SkuWorkflowSpec!Init, SkuWorkflowSpec!WorkflowStatus
<1>2. TypeOK /\ CallsAreSound /\ [Next]_vars => [SkuWorkflowSpec!Next]_skuStatus
  <2> SUFFICES ASSUME TypeOK, CallsAreSound, [Next]_vars, skuStatus' # skuStatus
               PROVE  SkuWorkflowSpec!Next
    OBVIOUS
  <2>1. ASSUME NEW s \in SKUs, NEW to \in SkuStatus,
               \/ skuStatus[s] = "Approved" /\ to = "Distribution_Running"
               \/ skuStatus[s] = "Distribution_Running" /\ to = "Completed",
               skuStatus' = [skuStatus EXCEPT ![s] = to]
        PROVE  SkuWorkflowSpec!Next
    <3>1. SkuWorkflowSpec!CanTransition(skuStatus[s], to)
      BY <2>1 DEF SkuWorkflowSpec!CanTransition, SkuWorkflowSpec!allowedTransitions,
                  SkuWorkflowSpec!WorkflowStatus
    <3>2. to \in SkuWorkflowSpec!WorkflowStatus
      BY <2>1 DEF SkuWorkflowSpec!WorkflowStatus
    <3> QED
      BY <2>1, <3>1, <3>2 DEF SkuWorkflowSpec!Next, SkuWorkflowSpec!Transition
  <2>2. ASSUME NEW h \in Handlers, AdvanceSKU(h) \/ CompleteSKU(h)
        PROVE  SkuWorkflowSpec!Next
    <3>1. SkuOf[jobOf[call[h].att]] \in SKUs
      BY <2>2, DistributionAssumption DEF AdvanceSKU, CompleteSKU, CallsAreSound, CallIsSound
    <3> QED
      BY <2>1, <2>2, <3>1 DEF AdvanceSKU, CompleteSKU, CASWorkflowStatus, SkuStatus
  <2>3. ASSUME NEW h \in Handlers, RequestStep(h) \/ HandlerStep(h)
        PROVE  SkuWorkflowSpec!Next
    BY <2>2, <2>3 DEF RequestStep, HandlerStep, PullPending, Heartbeat, AckJob, RenewLease,
                      AckDone, AckFail, ListBySKUID
  <2>4. ASSUME ReaperStep \/ SchedulerStep \/ AgentStep \/ TimeStep \/ FaultStep \/ UNCHANGED vars
        PROVE  skuStatus' = skuStatus
    BY <2>4 DEF ReaperStep, Reap, MarkStale, SchedulerStep, Schedule, MarkRetrying, MarkExceeded,
                AgentStep, AgentDies, AgentFinishes, TimeStep, LeaseRunsOut, RetryFallsDue,
                FaultStep, CallTxFails, WorkerTxFails, ServerCrash, vars
  <2> QED
    BY <2>3, <2>4 DEF Next
<1>3. Init => TypeOK /\ EarnedInv
  BY InitTypeOK, InitEarned
<1>4. TypeOK /\ EarnedInv /\ [Next]_vars => TypeOK' /\ EarnedInv'
  BY NextTypeOK, NextEarned
<1>5. EarnedInv => CallsAreSound
  BY DEF EarnedInv
<1> QED
  BY <1>1, <1>2, <1>3, <1>4, <1>5, PTL DEF Spec, ImplementsSkuWorkflow, SkuWorkflowSpec!Spec
=============================================================================

-------------------------- MODULE ExportJobsProofs --------------------------
(***************************************************************************)
(* Proofs about ExportJobs for any number of requests of each role.        *)
(*                                                                         *)
(* What a request will write depends on what it has read, so the induction *)
(* carries what each request under way knows (Knows): a request that will  *)
(* close an attempt names an existing one, a mark_ready closes some        *)
(* attempt, and a refresh or a granted access has read a ready job.  Three *)
(* further sections assume one operator, one dispatcher, and one operator  *)
(* and one reader at a time, and strengthen this knowledge accordingly.    *)
(***************************************************************************)
EXTENDS ExportJobs, SequenceTheorems, TLAPS

\* What a request knows whatever the others do.
Knows(q, na, nd, w) ==
    /\ q.op \in AdvanceActions /\ q.at = "commit" =>
         /\ q.no \in 0..na
         /\ q.op = "mark_ready" => q.no # 0
    /\ q.op = "mark_ready" => q.at \in {"look", "commit"}
    /\ q.op \in DispatchActions => q.no \in 1..nd
    /\ q.op = "start" => q.no \in 0..nd
    /\ q.op = "refresh" => q.job.status = "ready"
    /\ q.op \in {"access", "refresh"} => w # {}

IInv ==
    /\ TypeOK
    /\ RunningHasItsAttempt
    /\ ReadyIsEarned
    /\ \A x \in Requests : Knows(req[x], Len(attempts), Len(dispatches), won)

-----------------------------------------------------------------------------
(* Sequences.                                                              *)

\* Replacing an element of a sequence.
LEMMA UpdateSeq ==
    ASSUME NEW S, NEW s \in Seq(S), NEW i \in 1..Len(s), NEW v \in S
    PROVE  /\ [s EXCEPT ![i] = v] \in Seq(S)
           /\ Len([s EXCEPT ![i] = v]) = Len(s)
           /\ DOMAIN [s EXCEPT ![i] = v] = DOMAIN s
           /\ [s EXCEPT ![i] = v][i] = v
           /\ \A j \in 1..Len(s) : j # i => [s EXCEPT ![i] = v][j] = s[j]
  OBVIOUS

\* Appending to a sequence.
LEMMA AppendSeq ==
    ASSUME NEW S, NEW s \in Seq(S), NEW v \in S
    PROVE  /\ Append(s, v) \in Seq(S)
           /\ Len(Append(s, v)) = Len(s) + 1
           /\ DOMAIN Append(s, v) = 1..(Len(s) + 1)
           /\ Append(s, v) # << >>
           /\ Append(s, v)[Len(s) + 1] = v
           /\ \A j \in 1..Len(s) : Append(s, v)[j] = s[j]
  OBVIOUS

\* A function on 1..n is a sequence of length n.
LEMMA FunctionSeq ==
    ASSUME NEW n \in Nat, NEW S, NEW f \in [1..n -> S]
    PROVE  f \in Seq(S) /\ Len(f) = n
  OBVIOUS

\* Append, written as a function.
LEMMA AppendFunction ==
    ASSUME NEW S, NEW s \in Seq(S), NEW v \in S
    PROVE  Append(s, v) = [i \in 1..(Len(s) + 1) |->
                             IF i = Len(s) + 1 THEN v ELSE s[i]]
  <1> DEFINE t == [i \in 1..(Len(s) + 1) |-> IF i = Len(s) + 1 THEN v ELSE s[i]]
  <1>1. t \in [1..(Len(s) + 1) -> S]
    OBVIOUS
  <1>2. \A i \in 1..(Len(s) + 1) : Append(s, v)[i] = t[i]
    BY AppendSeq
  <1>3. t \in Seq(S) /\ Len(t) = Len(s) + 1
    <2>1. Len(s) + 1 \in Nat
      OBVIOUS
    <2> HIDE DEF t
    <2> QED  BY <1>1, <2>1, FunctionSeq
  <1> HIDE DEF t
  <1>4. Append(s, v) = t
    BY <1>2, <1>3, AppendSeq, SeqEqual
  <1> QED  BY <1>4 DEF t

\* A request keeps its knowledge when the tables only grow and won is never
\* emptied.
LEMMA KnowsGrows ==
    ASSUME NEW q \in Request, NEW na \in Nat, NEW nd \in Nat, NEW w,
           NEW na2 \in Nat, NEW nd2 \in Nat, NEW w2,
           Knows(q, na, nd, w), na <= na2, nd <= nd2, w # {} => w2 # {}
    PROVE  Knows(q, na2, nd2, w2)
  <1>1. q.no \in Nat
    BY DEF Request
  <1>2. \A i \in Nat : i \in 0..na => i \in 0..na2
    OBVIOUS
  <1>3. \A i \in Nat : i \in 0..nd => i \in 0..nd2
    OBVIOUS
  <1>4. \A i \in Nat : i \in 1..nd => i \in 1..nd2
    OBVIOUS
  <1> QED  BY <1>1, <1>2, <1>3, <1>4 DEF Knows

\* An idle request knows nothing and needs to know nothing.
LEMMA IdleKnows ==
    ASSUME NEW na, NEW nd, NEW w
    PROVE  Idle \in Request /\ Knows(Idle, na, nd, w)
  BY DEF Idle, NoJob, Request, Row, JobStatus, Ops, Knows, AdvanceActions,
         DispatchActions

\* The requests after a step that replaces the request of x by q.
LEMMA RequestStep ==
    ASSUME NEW x \in Requests, NEW q \in Request, TypeOK,
           req' = [req EXCEPT ![x] = q],
           \A y \in Requests :
             Knows(req[y], Len(attempts), Len(dispatches), won),
           Knows(q, Len(attempts'), Len(dispatches'), won'),
           Len(attempts') \in Nat, Len(attempts) <= Len(attempts'),
           Len(dispatches') \in Nat, Len(dispatches) <= Len(dispatches'),
           won # {} => won' # {}
    PROVE  /\ req' \in [Requests -> Request]
           /\ \A y \in Requests :
                Knows(req'[y], Len(attempts'), Len(dispatches'), won')
  <1>1. req \in [Requests -> Request]
    BY DEF TypeOK
  <1>2. Len(attempts) \in Nat /\ Len(dispatches) \in Nat
    BY DEF TypeOK
  <1>3. ASSUME NEW y \in Requests
        PROVE  Knows(req'[y], Len(attempts'), Len(dispatches'), won')
    <2>1. CASE y = x
      BY <1>1, <2>1
    <2>2. CASE y # x
      <3>1. req'[y] = req[y] /\ req[y] \in Request
        BY <1>1, <2>2
      <3>2. Knows(req[y], Len(attempts'), Len(dispatches'), won')
        BY <1>2, <3>1, KnowsGrows
      <3> QED  BY <3>1, <3>2
    <2> QED  BY <2>1, <2>2
  <1> QED  BY <1>1, <1>3

-----------------------------------------------------------------------------
(* The steps that only move a request on.                                  *)

\* A step of one request that leaves the tables alone.
LEMMA QuietStep ==
    ASSUME IInv, NEW x \in Requests, NEW q \in Request,
           req' = [req EXCEPT ![x] = q],
           UNCHANGED <<jobVars, dispatches, attempts, auditVars>>,
           Knows(q, Len(attempts), Len(dispatches), won)
    PROVE  IInv'
  <1>1. UNCHANGED <<row, refs, logged, dispatches, attempts, won, granted, expired>>
    BY DEF jobVars, auditVars
  <1>2. /\ req' \in [Requests -> Request]
        /\ \A y \in Requests :
             Knows(req'[y], Len(attempts'), Len(dispatches'), won')
    <2>1. Len(attempts) \in Nat /\ Len(dispatches) \in Nat
      BY DEF IInv, TypeOK
    <2>2. TypeOK /\ \A y \in Requests :
                      Knows(req[y], Len(attempts), Len(dispatches), won)
      BY DEF IInv
    <2>3. /\ Len(attempts') = Len(attempts)
          /\ Len(dispatches') = Len(dispatches)
          /\ won' = won
      BY <1>1
    <2>4. Knows(q, Len(attempts'), Len(dispatches'), won')
      BY <2>3
    <2>5. /\ Len(attempts') \in Nat /\ Len(attempts) <= Len(attempts')
          /\ Len(dispatches') \in Nat /\ Len(dispatches) <= Len(dispatches')
      BY <2>1, <2>3
    <2> QED  BY <2>2, <2>3, <2>4, <2>5, RequestStep
  <1>3. TypeOK'
    BY <1>1, <1>2 DEF IInv, TypeOK
  <1>4. RunningHasItsAttempt' /\ ReadyIsEarned'
    BY <1>1 DEF IInv, RunningHasItsAttempt, ReadyIsEarned
  <1> QED  BY <1>2, <1>3, <1>4 DEF IInv

\* The first read of a request.
LEMMA BeginStep ==
    ASSUME IInv, NEW x \in Requests, NEW op \in Ops, NEW no \in Nat,
           NEW at \in {"look", "commit"}, Begin(x, op, at, no),
           Knows([op |-> op, at |-> at, job |-> row, no |-> no, known |-> {}],
                 Len(attempts), Len(dispatches), won)
    PROVE  IInv'
  <1>1. [op |-> op, at |-> at, job |-> row, no |-> no, known |-> {}] \in Request
    BY DEF IInv, TypeOK, Request
  <1> QED  BY <1>1, QuietStep DEF Begin

\* The last read of a request.
LEMMA ReadyStep ==
    ASSUME IInv, NEW x \in Requests, NEW no \in Nat, Ready(x, no),
           Knows([req[x] EXCEPT !.at = "commit", !.no = no],
                 Len(attempts), Len(dispatches), won)
    PROVE  IInv'
  <1>1. req[x] \in Request /\ req \in [Requests -> Request]
    BY DEF IInv, TypeOK
  <1>2. [req[x] EXCEPT !.at = "commit", !.no = no] \in Request
    BY <1>1 DEF Request
  <1>3. req' = [req EXCEPT ![x] = [req[x] EXCEPT !.at = "commit", !.no = no]]
    BY <1>1 DEF Ready
  <1> QED  BY <1>2, <1>3, QuietStep DEF Ready

LEMMA AbandonStep ==
    ASSUME IInv, NEW x \in Requests, Abandon(x)
    PROVE  IInv'
  BY IdleKnows, QuietStep DEF Abandon, Done

LEMMA OperatorReads ==
    ASSUME IInv, NEW o \in Operators,
           \/ StartJob(o) \/ LookForStart(o) \/ LookForAdvance(o)
           \/ \E a \in AdvanceActions : AdvanceJob(o, a)
    PROVE  IInv'
  <1> USE DEF Requests
  <1>0. /\ Len(attempts) \in Nat /\ Len(dispatches) \in Nat
        /\ req[o] \in Request
        /\ Knows(req[o], Len(attempts), Len(dispatches), won)
    BY DEF IInv, TypeOK
  <1>1. CASE StartJob(o)
    BY <1>0, <1>1, BeginStep
       DEF StartJob, Ops, Knows, AdvanceActions, DispatchActions
  <1>2. CASE LookForStart(o)
    <2>1. PICK n \in 0..Len(dispatches) : Ready(o, n)
      BY <1>0, <1>2 DEF LookForStart
    <2>2. Knows([req[o] EXCEPT !.at = "commit", !.no = n],
                Len(attempts), Len(dispatches), won)
      BY <1>0, <1>2
         DEF LookForStart, Knows, Request, AdvanceActions, DispatchActions
    <2>3. n \in Nat
      BY <1>0
    <2> QED  BY <2>1, <2>2, <2>3, ReadyStep
  <1>3. CASE LookForAdvance(o)
    <2>1. Len(attempts) # 0
      BY <1>3 DEF LookForAdvance, IInv, TypeOK
    <2>2. Knows([req[o] EXCEPT !.at = "commit", !.no = Len(attempts)],
                Len(attempts), Len(dispatches), won)
      BY <1>0, <1>3, <2>1
         DEF LookForAdvance, Knows, Request, AdvanceActions, DispatchActions
    <2> QED  BY <1>0, <1>3, <2>2, ReadyStep DEF LookForAdvance
  <1>4. CASE \E a \in AdvanceActions : AdvanceJob(o, a)
    <2>1. PICK a \in AdvanceActions : AdvanceJob(o, a)
      BY <1>4
    <2>2. PICK at \in {"look", "commit"} :
            /\ Begin(o, a, at, 0)
            /\ row.status = "running" => at = "look"
      BY <2>1 DEF AdvanceJob
    <2>3. a = "mark_ready" => at = "look"
      BY <2>1, <2>2 DEF AdvanceJob, Admits
    <2>4. Knows([op |-> a, at |-> at, job |-> row, no |-> 0, known |-> {}],
                Len(attempts), Len(dispatches), won)
      BY <1>0, <2>3 DEF Knows, AdvanceActions, DispatchActions
    <2> QED  BY <2>2, <2>4, BeginStep DEF Ops
  <1> QED  BY <1>1, <1>2, <1>3, <1>4

LEMMA DispatcherReads ==
    ASSUME IInv, NEW d \in Dispatchers,
           \/ CreateJobDispatch(d) \/ LookForCreate(d) \/ LookAtDispatch(d)
           \/ \E n \in 1..Len(dispatches), a \in DispatchActions :
                AdvanceJobDispatch(d, n, a)
    PROVE  IInv'
  <1> USE DEF Requests
  <1>0. /\ Len(attempts) \in Nat /\ Len(dispatches) \in Nat
        /\ req[d] \in Request
        /\ Knows(req[d], Len(attempts), Len(dispatches), won)
    BY DEF IInv, TypeOK
  <1>1. CASE CreateJobDispatch(d)
    BY <1>0, <1>1, BeginStep
       DEF CreateJobDispatch, Ops, Knows, AdvanceActions, DispatchActions
  <1>2. CASE LookForCreate(d)
    <2>1. Knows([req[d] EXCEPT !.at = "commit", !.no = 0],
                Len(attempts), Len(dispatches), won)
      BY <1>0, <1>2
         DEF LookForCreate, Knows, Request, AdvanceActions, DispatchActions
    <2> QED  BY <1>2, <2>1, ReadyStep DEF LookForCreate
  <1>3. CASE LookAtDispatch(d)
    <2>1. Knows([req[d] EXCEPT !.at = "commit", !.no = req[d].no],
                Len(attempts), Len(dispatches), won)
      BY <1>0, <1>3
         DEF LookAtDispatch, Knows, Request, AdvanceActions, DispatchActions
    <2>2. req[d].no \in Nat
      BY <1>0 DEF Request
    <2> QED  BY <1>3, <2>1, <2>2, ReadyStep DEF LookAtDispatch
  <1>4. CASE \E n \in 1..Len(dispatches), a \in DispatchActions :
               AdvanceJobDispatch(d, n, a)
    <2>1. PICK n \in 1..Len(dispatches), a \in DispatchActions :
            AdvanceJobDispatch(d, n, a)
      BY <1>4
    <2>2. Knows([op |-> a, at |-> "look", job |-> row, no |-> n, known |-> {}],
                Len(attempts), Len(dispatches), won)
      BY <1>0 DEF Knows, AdvanceActions, DispatchActions
    <2>3. n \in Nat /\ a \in Ops
      BY <1>0 DEF Ops
    <2> QED  BY <2>1, <2>2, <2>3, BeginStep DEF AdvanceJobDispatch
  <1> QED  BY <1>1, <1>2, <1>3, <1>4

LEMMA ReaderReads ==
    ASSUME IInv, NEW r \in Readers,
           AccessDownload(r) \/ RefreshDownload(r) \/ ListEvents(r)
    PROVE  IInv'
  <1> USE DEF Requests
  <1>0. /\ Len(attempts) \in Nat /\ Len(dispatches) \in Nat
        /\ req \in [Requests -> Request]
        /\ req[r] \in Request
        /\ Knows(req[r], Len(attempts), Len(dispatches), won)
    BY DEF IInv, TypeOK
  <1>1. CASE AccessDownload(r) \/ RefreshDownload(r)
    <2>1. PICK op \in {"access", "note", "refresh"},
               at \in {"look", "commit"} : Begin(r, op, at, 0)
      BY <1>1 DEF AccessDownload, RefreshDownload
    <2>2. row.status = "ready" /\ won # {}
      BY <1>1 DEF AccessDownload, RefreshDownload, CanAccess, DownloadExpired,
                  IInv, ReadyIsEarned
    <2>3. Knows([op |-> op, at |-> at, job |-> row, no |-> 0, known |-> {}],
                Len(attempts), Len(dispatches), won)
      BY <1>0, <2>2 DEF Knows, AdvanceActions, DispatchActions
    <2> QED  BY <2>1, <2>3, BeginStep DEF Ops
  <1>2. CASE ListEvents(r)
    <2> DEFINE q == [req[r] EXCEPT !.at = "commit", !.known = ToSet(expired)]
    <2>1. ToSet(expired) \in SUBSET Nat
      BY DEF ToSet, IInv, TypeOK
    <2>2. q \in Request
      BY <1>0, <2>1 DEF Request
    <2>3. Knows(q, Len(attempts), Len(dispatches), won)
      BY <1>0, <1>2
         DEF ListEvents, Knows, Request, AdvanceActions, DispatchActions
    <2>4. req' = [req EXCEPT ![r] = q]
      BY <1>0, <1>2 DEF ListEvents
    <2> HIDE DEF q
    <2> QED  BY <1>2, <2>2, <2>3, <2>4, QuietStep DEF ListEvents
  <1> QED  BY <1>1, <1>2

-----------------------------------------------------------------------------
(* The transactions.                                                       *)

\* The end of a request, as RequestStep wants it.
LEMMA DoneStep ==
    ASSUME NEW x \in Requests, IInv, Done(x),
           Len(attempts') \in Nat, Len(attempts) <= Len(attempts'),
           Len(dispatches') \in Nat, Len(dispatches) <= Len(dispatches'),
           won # {} => won' # {}
    PROVE  /\ req' \in [Requests -> Request]
           /\ \A y \in Requests :
                Knows(req'[y], Len(attempts'), Len(dispatches'), won')
  <1>1. Idle \in Request /\ Knows(Idle, Len(attempts'), Len(dispatches'), won')
    BY IdleKnows
  <1>2. TypeOK /\ \A y \in Requests :
                    Knows(req[y], Len(attempts), Len(dispatches), won)
    BY DEF IInv
  <1> QED  BY <1>1, <1>2, RequestStep DEF Done

LEMMA StartStep ==
    ASSUME IInv, NEW o \in Operators, CommitStart(o)
    PROVE  IInv'
  <1>0. /\ o \in Requests
        /\ req[o] \in Request
        /\ Knows(req[o], Len(attempts), Len(dispatches), won)
        /\ attempts \in Seq(Attempt) /\ Len(attempts) \in Nat
        /\ dispatches \in Seq(DispatchStatus) /\ Len(dispatches) \in Nat
    BY DEF IInv, TypeOK, Requests
  <1>1. PICK n \in Nat :
          attempts' = Append(attempts, [status |-> "running", dispatch |-> n])
    BY <1>0 DEF CommitStart, Request
  <1>2. [status |-> "running", dispatch |-> n] \in Attempt
    BY DEF Attempt, AttemptStatus
  <1>3. /\ attempts' \in Seq(Attempt)
        /\ Len(attempts') = Len(attempts) + 1
        /\ attempts' # << >>
        /\ attempts'[Len(attempts')].status = "running"
    BY <1>0, <1>1, <1>2, AppendSeq
  <1>4. /\ dispatches' \in Seq(DispatchStatus)
        /\ Len(dispatches') \in Nat
        /\ Len(dispatches) <= Len(dispatches')
    <2>1. dispatches' \in {dispatches, Append(dispatches, "received")}
      BY DEF CommitStart
    <2>2. "received" \in DispatchStatus
      BY DEF DispatchStatus
    <2> QED  BY <1>0, <2>1, <2>2, AppendSeq
  <1>5. UNCHANGED <<refs, won, granted, expired>> /\ Done(o) /\ logged' = "running"
    BY DEF CommitStart, auditVars
  <1>6. row' = [status |-> "running", ref |-> req[o].job.ref, expiry |-> "none"]
    BY DEF CommitStart, UpdateLifecycle
  <1>7. /\ req' \in [Requests -> Request]
        /\ \A y \in Requests :
             Knows(req'[y], Len(attempts'), Len(dispatches'), won')
    BY <1>0, <1>3, <1>4, <1>5, DoneStep
  <1>8. row' \in Row /\ row'.status = "running"
    BY <1>0, <1>6 DEF Request, Row, JobStatus
  <1>9. TypeOK'
    BY <1>3, <1>4, <1>5, <1>7, <1>8 DEF IInv, TypeOK, JobStatus
  <1>10. RunningHasItsAttempt'
    BY <1>3 DEF RunningHasItsAttempt
  <1>11. ReadyIsEarned'
    BY <1>5, <1>8 DEF IInv, ReadyIsEarned
  <1> QED  BY <1>7, <1>9, <1>10, <1>11 DEF IInv

LEMMA AdvanceStep ==
    ASSUME IInv, NEW o \in Operators, CommitAdvance(o)
    PROVE  IInv'
  <1> DEFINE next == NextStatus(req[o].op)
             no == req[o].no
  <1>0. /\ o \in Requests
        /\ req[o] \in Request
        /\ Knows(req[o], Len(attempts), Len(dispatches), won)
        /\ attempts \in Seq(Attempt) /\ Len(attempts) \in Nat
        /\ Len(dispatches) \in Nat
        /\ won \in SUBSET Nat
    BY DEF IInv, TypeOK, Requests
  <1>1. req[o].op \in AdvanceActions /\ req[o].at = "commit" /\ Done(o)
    BY DEF CommitAdvance
  <1>2. /\ next \in JobStatus
        /\ next # "running"
        /\ next = "ready" => req[o].op = "mark_ready"
    BY <1>1 DEF NextStatus, AdvanceActions, JobStatus
  <1>3. no \in 0..Len(attempts) /\ (next = "ready" => no # 0)
    BY <1>0, <1>1, <1>2 DEF Knows
  <1>4. attempts' \in Seq(Attempt) /\ Len(attempts') = Len(attempts)
    <2>1. CASE no = 0
      BY <1>0, <2>1 DEF CommitAdvance
    <2>2. CASE no # 0
      <3> DEFINE v == [attempts[no] EXCEPT !.status = AttemptOutcome(next)]
      <3>1. no \in 1..Len(attempts) /\ attempts[no] \in Attempt
        BY <1>0, <1>3, <2>2
      <3>2. AttemptOutcome(next) \in AttemptStatus
        BY DEF AttemptOutcome, AttemptStatus
      <3>3. v \in Attempt
        BY <3>1, <3>2 DEF Attempt
      <3>4. attempts' = [attempts EXCEPT ![no] = v]
        BY <1>0, <2>2, <3>1 DEF CommitAdvance
      <3> HIDE DEF v, no
      <3> QED  BY <1>0, <3>1, <3>3, <3>4, UpdateSeq
    <2> QED  BY <2>1, <2>2
  <1>5. /\ won' \in SUBSET Nat
        /\ won # {} => won' # {}
        /\ next = "ready" => won' # {}
    <2>1. won' = IF no # 0 /\ next = "ready" THEN won \cup {no} ELSE won
      BY DEF CommitAdvance
    <2>2. no \in Nat
      BY <1>0 DEF Request
    <2> HIDE DEF no, next
    <2> QED  BY <1>0, <1>3, <2>1, <2>2
  <1>6. UNCHANGED <<refs, dispatches, granted, expired>> /\ logged' = next
    BY DEF CommitAdvance
  <1>7. PICK e \in Expiries(next) :
          row' = [status |-> next, ref |-> req[o].job.ref, expiry |-> e]
    BY DEF CommitAdvance, UpdateLifecycle
  <1>8. row' \in Row /\ row'.status = next
    <2>1. e \in {"none", "live", "past"} /\ req[o].job.ref \in Nat
      BY <1>0 DEF Expiries, Request, Row
    <2> HIDE DEF next
    <2> QED  BY <1>2, <1>7, <2>1 DEF Row
  <1>9. /\ req' \in [Requests -> Request]
        /\ \A y \in Requests :
             Knows(req'[y], Len(attempts'), Len(dispatches'), won')
    BY <1>0, <1>1, <1>4, <1>5, <1>6, DoneStep
  <1>10. TypeOK'
    BY <1>2, <1>4, <1>5, <1>6, <1>8, <1>9 DEF IInv, TypeOK
  <1>11. RunningHasItsAttempt'
    BY <1>2, <1>8 DEF RunningHasItsAttempt
  <1>12. ReadyIsEarned'
    BY <1>5, <1>6, <1>8 DEF IInv, ReadyIsEarned
  <1> QED  BY <1>9, <1>10, <1>11, <1>12 DEF IInv

LEMMA DispatchStep ==
    ASSUME IInv, NEW d \in Dispatchers, CommitNewDispatch(d) \/ CommitDispatch(d)
    PROVE  IInv'
  <1>0. /\ d \in Requests
        /\ req[d] \in Request
        /\ Knows(req[d], Len(attempts), Len(dispatches), won)
        /\ dispatches \in Seq(DispatchStatus) /\ Len(dispatches) \in Nat
        /\ Len(attempts) \in Nat
    BY DEF IInv, TypeOK, Requests
  <1>1. /\ UNCHANGED <<row, refs, logged, attempts, won, granted, expired>>
        /\ Done(d)
    BY DEF CommitNewDispatch, CommitDispatch, jobVars, auditVars
  <1>2. /\ dispatches' \in Seq(DispatchStatus)
        /\ Len(dispatches') \in Nat
        /\ Len(dispatches) <= Len(dispatches')
    <2>1. CASE CommitNewDispatch(d)
      <3>1. "submitted" \in DispatchStatus
        BY DEF DispatchStatus
      <3> QED  BY <1>0, <2>1, <3>1, AppendSeq DEF CommitNewDispatch
    <2>2. CASE CommitDispatch(d)
      <3>1. req[d].no \in 1..Len(dispatches)
        BY <1>0, <2>2 DEF CommitDispatch, Knows
      <3>2. DispatchNext(req[d].op) \in DispatchStatus
        BY <2>2 DEF CommitDispatch, DispatchNext, DispatchStatus, DispatchActions
      <3> QED  BY <1>0, <2>2, <3>1, <3>2, UpdateSeq DEF CommitDispatch
    <2> QED  BY <2>1, <2>2
  <1>3. /\ req' \in [Requests -> Request]
        /\ \A y \in Requests :
             Knows(req'[y], Len(attempts'), Len(dispatches'), won')
    BY <1>0, <1>1, <1>2, DoneStep
  <1>4. TypeOK'
    BY <1>1, <1>2, <1>3 DEF IInv, TypeOK
  <1>5. RunningHasItsAttempt' /\ ReadyIsEarned'
    BY <1>1 DEF IInv, RunningHasItsAttempt, ReadyIsEarned
  <1> QED  BY <1>3, <1>4, <1>5 DEF IInv

LEMMA ReaderStepOK ==
    ASSUME IInv, NEW r \in Readers,
           CommitAccess(r) \/ CommitExpired(r) \/ CommitRefresh(r)
    PROVE  IInv'
  <1>0. /\ r \in Requests
        /\ req[r] \in Request
        /\ req[r].job \in Row
        /\ Knows(req[r], Len(attempts), Len(dispatches), won)
        /\ Len(dispatches) \in Nat /\ Len(attempts) \in Nat
        /\ expired \in Seq(Nat)
        /\ refs \in Nat
    BY DEF IInv, TypeOK, Requests, Request
  <1>1. UNCHANGED <<dispatches, attempts, won, logged>> /\ Done(r)
    BY DEF CommitAccess, CommitExpired, CommitRefresh, jobVars
  <1>2. /\ req' \in [Requests -> Request]
        /\ \A y \in Requests :
             Knows(req'[y], Len(attempts'), Len(dispatches'), won')
    BY <1>0, <1>1, DoneStep
  <1>3. expired' \in Seq(Nat)
    <2>1. expired' \in {expired, Append(expired, req[r].job.ref)}
      BY DEF CommitAccess, CommitExpired, CommitRefresh, NoteExpired
    <2>2. req[r].job.ref \in Nat
      BY <1>0 DEF Row
    <2>3. Append(expired, req[r].job.ref) \in Seq(Nat)
      BY <1>0, <2>2, AppendSeq
    <2> QED  BY <1>0, <2>1, <2>3
  <1>4. granted' \in SUBSET Nat /\ (granted' # {} => won # {})
    <2>1. CASE CommitAccess(r)
      BY <1>0, <2>1 DEF CommitAccess, Knows, Row, IInv, TypeOK
    <2>2. CASE CommitExpired(r) \/ CommitRefresh(r)
      BY <2>2 DEF CommitExpired, CommitRefresh, IInv, TypeOK, ReadyIsEarned
    <2> QED  BY <2>1, <2>2
  <1>5. CASE CommitRefresh(r)
    <2>1. req[r].job.status = "ready" /\ won # {}
      BY <1>0, <1>5 DEF CommitRefresh, Knows
    <2>2. /\ row' = [status |-> "ready", ref |-> refs + 1, expiry |-> "live"]
          /\ refs' \in Nat
      BY <1>0, <1>5, <2>1 DEF CommitRefresh, UpdateLifecycle
    <2>3. row' \in Row /\ row'.status = "ready"
      BY <1>0, <2>2 DEF Row, JobStatus
    <2>4. TypeOK'
      BY <1>1, <1>2, <1>3, <1>4, <2>2, <2>3 DEF IInv, TypeOK
    <2>5. RunningHasItsAttempt' /\ ReadyIsEarned'
      BY <1>1, <2>1, <2>3 DEF RunningHasItsAttempt, ReadyIsEarned
    <2> QED  BY <1>2, <2>4, <2>5 DEF IInv
  <1>6. CASE CommitAccess(r) \/ CommitExpired(r)
    <2>1. UNCHANGED <<row, refs>>
      BY <1>6 DEF CommitAccess, CommitExpired, jobVars
    <2>2. TypeOK'
      BY <1>1, <1>2, <1>3, <1>4, <2>1 DEF IInv, TypeOK
    <2>3. RunningHasItsAttempt' /\ ReadyIsEarned'
      BY <1>1, <1>4, <2>1 DEF IInv, RunningHasItsAttempt, ReadyIsEarned
    <2> QED  BY <1>2, <2>2, <2>3 DEF IInv
  <1> QED  BY <1>5, <1>6

\* Creating the job, and time passing.
LEMMA JobStep ==
    ASSUME IInv, CreateJob \/ Lapse
    PROVE  IInv'
  <1>1. UNCHANGED <<dispatches, attempts, won, granted, expired, req>>
    BY DEF CreateJob, Lapse, auditVars
  <1>2. /\ row' \in Row /\ refs' \in Nat /\ logged' \in JobStatus
        /\ row'.status \in {"running", "ready"} => row.status = row'.status
    <2>1. CASE CreateJob
      <3>1. /\ row' = [status |-> "queued", ref |-> refs + 1, expiry |-> "none"]
            /\ refs' = refs + 1 /\ logged' = "queued"
        BY <2>1 DEF CreateJob, UpdateLifecycle
      <3> QED  BY <3>1 DEF IInv, TypeOK, Row, JobStatus
    <2>2. CASE Lapse
      BY <2>2 DEF Lapse, IInv, TypeOK, Row
    <2> QED  BY <2>1, <2>2
  <1>3. TypeOK'
    BY <1>1, <1>2 DEF IInv, TypeOK
  <1>4. RunningHasItsAttempt' /\ ReadyIsEarned'
    BY <1>1, <1>2 DEF IInv, RunningHasItsAttempt, ReadyIsEarned
  <1>5. (\A x \in Requests : Knows(req[x], Len(attempts), Len(dispatches), won))'
    BY <1>1 DEF IInv
  <1> QED  BY <1>3, <1>4, <1>5 DEF IInv

-----------------------------------------------------------------------------

LEMMA InitIInv == Init => IInv
  <1> SUFFICES ASSUME Init PROVE IInv
    OBVIOUS
  <1>1. Idle \in Request
        /\ \A x \in Requests : Knows(Idle, Len(attempts), Len(dispatches), won)
    BY IdleKnows
  <1>2. TypeOK
    BY <1>1 DEF Init, TypeOK, NoJob, Row, JobStatus
  <1>3. RunningHasItsAttempt /\ ReadyIsEarned
    BY DEF Init, RunningHasItsAttempt, ReadyIsEarned, NoJob
  <1> QED  BY <1>1, <1>2, <1>3 DEF IInv, Init

LEMMA NextIInv == IInv /\ [Next]_vars => IInv'
  <1> SUFFICES ASSUME IInv, [Next]_vars PROVE IInv'
    OBVIOUS
  <1>1. ASSUME NEW o \in Operators, OperatorStep(o) PROVE IInv'
    BY <1>1, OperatorReads, StartStep, AdvanceStep DEF OperatorStep
  <1>2. ASSUME NEW d \in Dispatchers, DispatcherStep(d) PROVE IInv'
    BY <1>2, DispatcherReads, DispatchStep DEF DispatcherStep
  <1>3. ASSUME NEW r \in Readers, ReaderStep(r) PROVE IInv'
    BY <1>3, ReaderReads, ReaderStepOK DEF ReaderStep
  <1>4. CASE UNCHANGED vars
    <2>1. UNCHANGED <<row, refs, dispatches, attempts, logged, won, granted,
                      expired, req>>
      BY <1>4 DEF vars
    <2>2. TypeOK' /\ RunningHasItsAttempt' /\ ReadyIsEarned'
      BY <2>1 DEF IInv, TypeOK, RunningHasItsAttempt, ReadyIsEarned
    <2>3. (\A x \in Requests :
             Knows(req[x], Len(attempts), Len(dispatches), won))'
      BY <2>1 DEF IInv
    <2> QED  BY <2>2, <2>3 DEF IInv
  <1> QED  BY <1>1, <1>2, <1>3, <1>4, JobStep, AbandonStep DEF Next

\* Everything the induction carries holds in every reachable state.
LEMMA IInvHolds == Spec => []IInv
  BY InitIInv, NextIInv, PTL DEF Spec

\* Rows, requests and tables keep their types whatever requests overlap.
THEOREM TypeCorrect == Spec => []TypeOK
  <1>1. IInv => TypeOK
    BY DEF IInv
  <1> QED  BY <1>1, IInvHolds, PTL

\* For any number of concurrent operators, dispatchers and readers a running
\* job can be finished: startJob is the only writer of running and opens an
\* attempt in the same transaction, and whoever closes the latest attempt
\* takes the job out of running in the same transaction.
THEOREM RunningHasItsAttemptHolds == Spec => []RunningHasItsAttempt
  <1>1. IInv => RunningHasItsAttempt
    BY DEF IInv
  <1> QED  BY <1>1, IInvHolds, PTL

\* For any number of concurrent requests a download is offered or granted
\* only after an attempt succeeded.
THEOREM ReadyIsEarnedHolds == Spec => []ReadyIsEarned
  <1>1. IInv => ReadyIsEarned
    BY DEF IInv
  <1> QED  BY <1>1, IInvHolds, PTL

-----------------------------------------------------------------------------
(* While operators commit alone.  The row an operator has read still has   *)
(* the status it read, the attempt it will close is the latest, and while  *)
(* a refresh is under way the job stays ready.                             *)

OperatorOps == AdvanceActions \cup {"start"}

Fresh(q, s, na) ==
    /\ q.op = "start" => s = "queued"
    /\ q.op \in AdvanceActions =>
         /\ s \in Admits(q.op)
         /\ q.at = "look" => s = "running"
         /\ q.at = "commit" => q.no = IF s = "running" THEN na ELSE 0
    /\ q.op = "refresh" => s = "ready"

SInv ==
    /\ IInv
    /\ AuditMatchesRow
    /\ \A x \in Requests : Fresh(req[x], row.status, Len(attempts))
    /\ \A x \in Requests \ Operators : req[x].op \notin OperatorOps

\* A step of one request that changes neither the status nor the attempts.
LEMMA FreshQuiet ==
    ASSUME SInv, IInv', NEW x \in Requests, NEW q,
           req' = [req EXCEPT ![x] = q],
           row'.status = row.status, Len(attempts') = Len(attempts),
           logged' = logged,
           Fresh(q, row.status, Len(attempts)),
           x \notin Operators => q.op \notin OperatorOps
    PROVE  SInv'
  <1>1. req \in [Requests -> Request]
    BY DEF SInv, IInv, TypeOK
  <1>2. ASSUME NEW y \in Requests
        PROVE  /\ Fresh(req'[y], row'.status, Len(attempts'))
               /\ y \notin Operators => req'[y].op \notin OperatorOps
    <2>1. CASE y = x
      BY <1>1, <2>1
    <2>2. CASE y # x
      BY <1>1, <2>2 DEF SInv
    <2> QED  BY <2>1, <2>2
  <1>3. AuditMatchesRow'
    BY DEF SInv, AuditMatchesRow
  <1> QED  BY <1>2, <1>3 DEF SInv

\* Who commits alone finds the others of its role idle.
Alone(x, role) == \A y \in role \ {x} : req[y].op = "idle"

LEMMA AloneCommits ==
    ASSUME NEW role, CommitsAlone(role), NEW x \in role, Commits(x)
    PROVE  Alone(x, role)
  BY DEF CommitsAlone, Alone

\* A transaction of an operator, made while no refresh is under way.
LEMMA FreshCommit ==
    ASSUME NEW o \in Operators, Alone(o, Operators), SInv, IInv', Done(o),
           logged' = row'.status, row.status # "ready"
    PROVE  SInv'
  <1>1. req \in [Requests -> Request] /\ o \in Requests
    BY DEF SInv, IInv, TypeOK, Requests
  <1>2. ASSUME NEW y \in Requests
        PROVE  /\ Fresh(req'[y], row'.status, Len(attempts'))
               /\ y \notin Operators => req'[y].op \notin OperatorOps
    <2>1. CASE y = o
      <3>1. req'[y] = Idle
        BY <1>1, <2>1 DEF Done
      <3> QED  BY <2>1, <3>1 DEF Fresh, Idle, AdvanceActions
    <2>2. CASE y # o
      <3>1. req'[y] = req[y]
        BY <1>1, <2>2 DEF Done
      <3>2. req[y].op \notin OperatorOps
        BY <2>2 DEF SInv, Alone, OperatorOps, AdvanceActions
      <3>3. req[y].op # "refresh"
        BY DEF SInv, Fresh
      <3> QED  BY <3>1, <3>2, <3>3 DEF Fresh, OperatorOps
    <2> QED  BY <2>1, <2>2
  <1> QED  BY <1>2 DEF SInv, AuditMatchesRow

\* What a step of the implementation is to the promise.
Kept == [Lifecycle!Next]_(Lifecycle!lifecycleVars)

LEMMA Stutter ==
    ASSUME row'.status = row.status, attempts' = attempts
    PROVE  Kept
  BY DEF Kept, Lifecycle!lifecycleVars

\* The reads of an operator.
LEMMA FreshOperatorReads ==
    ASSUME NEW o \in Operators, SInv, IInv',
           \/ StartJob(o) \/ LookForStart(o) \/ LookForAdvance(o)
           \/ \E a \in AdvanceActions : AdvanceJob(o, a)
    PROVE  SInv' /\ Kept
  <1>0. /\ o \in Requests /\ o \in Operators
        /\ req \in [Requests -> Request] /\ req[o] \in Request
        /\ Fresh(req[o], row.status, Len(attempts))
    BY DEF SInv, IInv, TypeOK, Requests
  <1>1. UNCHANGED <<row, attempts, logged>>
    BY DEF StartJob, LookForStart, LookForAdvance, AdvanceJob, Begin, Ready, jobVars
  <1>2. CASE StartJob(o)
    <2>1. PICK q : /\ req' = [req EXCEPT ![o] = q]
                   /\ q = [op |-> "start", at |-> "look", job |-> row, no |-> 0,
                           known |-> {}]
      BY <1>2 DEF StartJob, Begin
    <2>2. Fresh(q, row.status, Len(attempts))
      BY <1>2, <2>1 DEF StartJob, Fresh, AdvanceActions
    <2> QED  BY <1>0, <1>1, <2>1, <2>2, FreshQuiet, Stutter
  <1>3. CASE \E a \in AdvanceActions : AdvanceJob(o, a)
    <2>1. PICK a \in AdvanceActions : AdvanceJob(o, a)
      BY <1>3
    <2>2. PICK q : /\ req' = [req EXCEPT ![o] = q]
                   /\ q = [op |-> a,
                           at |-> IF row.status = "running" THEN "look"
                                  ELSE "commit",
                           job |-> row, no |-> 0, known |-> {}]
      BY <2>1 DEF AdvanceJob, Begin
    <2>3. Fresh(q, row.status, Len(attempts))
      BY <2>1, <2>2 DEF AdvanceJob, Fresh, AdvanceActions
    <2> QED  BY <1>0, <1>1, <2>2, <2>3, FreshQuiet, Stutter
  <1>4. CASE LookForStart(o) \/ LookForAdvance(o)
    <2>1. PICK n \in Nat :
            /\ req' = [req EXCEPT ![o] = [req[o] EXCEPT !.at = "commit", !.no = n]]
            /\ req[o].op \in AdvanceActions => req[o].at = "look" /\ n = Len(attempts)
      <3>1. Len(attempts) \in Nat /\ Len(dispatches) \in Nat
        BY DEF SInv, IInv, TypeOK
      <3>2. CASE LookForStart(o)
        <4>1. PICK n \in Nat : Ready(o, n)
          BY <3>1, <3>2 DEF LookForStart
        <4>2. req[o].op \notin AdvanceActions
          BY <3>2 DEF LookForStart, AdvanceActions
        <4> QED  BY <1>0, <4>1, <4>2 DEF Ready
      <3>3. CASE LookForAdvance(o)
        BY <1>0, <3>1, <3>3 DEF LookForAdvance, Ready
      <3> QED  BY <1>4, <3>2, <3>3
    <2>2. Fresh([req[o] EXCEPT !.at = "commit", !.no = n], row.status, Len(attempts))
      BY <1>0, <2>1 DEF Fresh, Request
    <2> QED  BY <1>0, <1>1, <2>1, <2>2, FreshQuiet, Stutter
  <1> QED  BY <1>1, <1>2, <1>3, <1>4, Stutter

\* A step of a request that is not an operator's.
LEMMA HarmlessStep ==
    ASSUME SInv, IInv', NEW x \in Requests, NEW q,
           req' = [req EXCEPT ![x] = q],
           row'.status = row.status, attempts' = attempts, logged' = logged,
           q.op \notin OperatorOps, q.op = "refresh" => row.status = "ready"
    PROVE  SInv' /\ Kept
  <1>1. Fresh(q, row.status, Len(attempts))
    BY DEF Fresh, OperatorOps
  <1> QED  BY <1>1, FreshQuiet, Stutter

LEMMA FreshAbandon ==
    ASSUME SInv, IInv', NEW x \in Requests, Abandon(x)
    PROVE  SInv' /\ Kept
  <1>1. UNCHANGED <<row, attempts, logged>> /\ req' = [req EXCEPT ![x] = Idle]
    BY DEF Abandon, Done, jobVars
  <1>2. Idle.op \notin OperatorOps /\ Idle.op # "refresh"
    BY DEF Idle, OperatorOps, AdvanceActions
  <1> QED  BY <1>1, <1>2, HarmlessStep

\* What a dispatcher does to its request and to the job.
LEMMA DispatcherMoves ==
    ASSUME IInv, NEW d \in Dispatchers, DispatcherStep(d)
    PROVE  /\ \E q : /\ req' = [req EXCEPT ![d] = q]
                     /\ q.op \in DispatchActions \cup {"create", "idle"}
           /\ UNCHANGED <<row, refs, logged, attempts, won, granted, expired>>
  <1>0. d \in Requests /\ req[d] \in Request /\ req \in [Requests -> Request]
    BY DEF IInv, TypeOK, Requests
  <1>1. UNCHANGED <<row, refs, logged, attempts, won, granted, expired>>
    BY DEF DispatcherStep, CreateJobDispatch, LookForCreate, CommitNewDispatch,
           AdvanceJobDispatch, LookAtDispatch, CommitDispatch, Begin, Ready, jobVars,
           auditVars
  <1>2. PICK q : /\ req' = [req EXCEPT ![d] = q]
                 /\ q.op \in DispatchActions \cup {"create", "idle"}
    <2>1. ASSUME NEW op \in DispatchActions \cup {"create"}, NEW n,
                 Begin(d, op, "look", n)
          PROVE  \E q : /\ req' = [req EXCEPT ![d] = q]
                        /\ q.op \in DispatchActions \cup {"create", "idle"}
      <3>1. req' = [req EXCEPT ![d] = [op |-> op, at |-> "look", job |-> row,
                                       no |-> n, known |-> {}]]
        BY <2>1 DEF Begin
      <3>2. [op |-> op, at |-> "look", job |-> row, no |-> n, known |-> {}].op
              \in DispatchActions \cup {"create", "idle"}
        OBVIOUS
      <3> QED  BY <3>1, <3>2
    <2>2. CASE CreateJobDispatch(d)
      BY <2>1, <2>2 DEF CreateJobDispatch
    <2>3. CASE \E n \in 1..Len(dispatches), a \in DispatchActions :
                 AdvanceJobDispatch(d, n, a)
      BY <2>1, <2>3 DEF AdvanceJobDispatch
    <2>4. CASE LookForCreate(d) \/ LookAtDispatch(d)
      <3>1. PICK n : /\ req' = [req EXCEPT ![d] =
                                 [req[d] EXCEPT !.at = "commit", !.no = n]]
                     /\ req[d].op \in DispatchActions \cup {"create"}
        BY <1>0, <2>4 DEF LookForCreate, LookAtDispatch, Ready
      <3>2. [req[d] EXCEPT !.at = "commit", !.no = n].op = req[d].op
        BY <1>0 DEF Request
      <3> QED  BY <3>1, <3>2
    <2>5. CASE CommitNewDispatch(d) \/ CommitDispatch(d)
      <3>1. req' = [req EXCEPT ![d] = Idle]
        BY <2>5 DEF CommitNewDispatch, CommitDispatch, Done
      <3>2. Idle.op = "idle"
        BY DEF Idle
      <3> QED  BY <3>1, <3>2
    <2> QED  BY <2>2, <2>3, <2>4, <2>5 DEF DispatcherStep
  <1> QED  BY <1>1, <1>2

LEMMA FreshDispatcher ==
    ASSUME SInv, IInv', NEW d \in Dispatchers, DispatcherStep(d)
    PROVE  SInv' /\ Kept
  <1>0. d \in Requests /\ IInv
    BY DEF SInv, Requests
  <1>1. UNCHANGED <<row, attempts, logged>>
    BY <1>0, DispatcherMoves
  <1>2. PICK q : /\ req' = [req EXCEPT ![d] = q]
                 /\ q.op \in DispatchActions \cup {"create", "idle"}
    BY <1>0, DispatcherMoves
  <1>3. q.op \notin OperatorOps /\ q.op # "refresh"
    BY <1>2 DEF OperatorOps, AdvanceActions, DispatchActions
  <1> QED  BY <1>0, <1>1, <1>2, <1>3, HarmlessStep

LEMMA FreshReader ==
    ASSUME SInv, IInv', NEW r \in Readers, ReaderStep(r)
    PROVE  SInv' /\ Kept
  <1>0. /\ r \in Requests /\ req[r] \in Request /\ req \in [Requests -> Request]
        /\ Knows(req[r], Len(attempts), Len(dispatches), won)
        /\ Fresh(req[r], row.status, Len(attempts))
    BY DEF SInv, IInv, TypeOK, Requests
  <1>1. UNCHANGED <<attempts, logged>>
    BY DEF ReaderStep, AccessDownload, RefreshDownload, ListEvents, CommitAccess,
           CommitExpired, CommitRefresh, Begin, jobVars
  <1>2. row'.status = row.status
    <2>1. CASE CommitRefresh(r)
      <3>1. req[r].job.status = "ready" /\ row.status = "ready"
        BY <1>0, <2>1 DEF CommitRefresh, Knows, Fresh
      <3> QED  BY <2>1, <3>1 DEF CommitRefresh, UpdateLifecycle
    <2>2. CASE ~CommitRefresh(r)
      BY <2>2 DEF ReaderStep, AccessDownload, RefreshDownload, ListEvents,
                  CommitAccess, CommitExpired, Begin, jobVars
    <2> QED  BY <2>1, <2>2
  <1>3. PICK q : /\ req' = [req EXCEPT ![r] = q]
                 /\ q.op \in {"access", "note", "refresh", "idle"}
                 /\ q.op = "refresh" => row.status = "ready"
    <2>1. CASE AccessDownload(r) \/ RefreshDownload(r)
      <3>1. PICK op \in {"access", "note", "refresh"},
                 at \in {"look", "commit"} : Begin(r, op, at, 0)
        BY <2>1 DEF AccessDownload, RefreshDownload
      <3>2. row.status = "ready"
        BY <2>1 DEF AccessDownload, RefreshDownload, CanAccess, DownloadExpired
      <3>3. req' = [req EXCEPT ![r] = [op |-> op, at |-> at, job |-> row,
                                       no |-> 0, known |-> {}]]
        BY <3>1 DEF Begin
      <3> QED  BY <3>2, <3>3
    <2>2. CASE ListEvents(r)
      <3>1. req' = [req EXCEPT ![r] =
                     [req[r] EXCEPT !.at = "commit", !.known = ToSet(expired)]]
        BY <1>0, <2>2 DEF ListEvents
      <3>2. [req[r] EXCEPT !.at = "commit", !.known = ToSet(expired)].op = req[r].op
        BY <1>0 DEF Request
      <3>3. req[r].op \in {"note", "refresh"}
        BY <2>2 DEF ListEvents
      <3> QED  BY <1>0, <3>1, <3>2, <3>3 DEF Fresh
    <2>3. CASE CommitAccess(r) \/ CommitExpired(r) \/ CommitRefresh(r)
      <3>1. req' = [req EXCEPT ![r] = Idle]
        BY <2>3 DEF CommitAccess, CommitExpired, CommitRefresh, Done
      <3>2. Idle.op = "idle"
        BY DEF Idle
      <3> QED  BY <3>1, <3>2
    <2> QED  BY <2>1, <2>2, <2>3 DEF ReaderStep
  <1>4. q.op \notin OperatorOps
    BY <1>3 DEF OperatorOps, AdvanceActions
  <1> QED  BY <1>0, <1>1, <1>2, <1>3, <1>4, HarmlessStep

\* Creating the job finds no request under way; time changes no status.
LEMMA FreshJob ==
    ASSUME SInv, IInv', CreateJob \/ Lapse
    PROVE  SInv' /\ Kept
  <1>1. UNCHANGED <<attempts, req>>
    BY DEF CreateJob, Lapse
  <1>2. CASE CreateJob
    <2>1. row.status = "absent" /\ row'.status = "queued" /\ logged' = "queued"
      BY <1>2 DEF CreateJob, UpdateLifecycle
    <2>2. ASSUME NEW x \in Requests
          PROVE  Fresh(req[x], "queued", Len(attempts))
      BY <2>1 DEF SInv, Fresh, Admits, AdvanceActions
    <2>3. SInv'
      BY <1>1, <2>1, <2>2 DEF SInv, AuditMatchesRow
    <2>4. Lifecycle!Create
      BY <1>1, <2>1 DEF Lifecycle!Create
    <2> QED  BY <2>3, <2>4 DEF Kept, Lifecycle!Next
  <1>3. CASE Lapse
    <2>1. row'.status = row.status /\ logged' = logged
      BY <1>3 DEF Lapse, SInv, IInv, TypeOK, Row
    <2>2. SInv'
      BY <1>1, <2>1 DEF SInv, AuditMatchesRow
    <2> QED  BY <1>1, <2>1, <2>2, Stutter
  <1> QED  BY <1>2, <1>3

\* The ledger of the promise, for the steps that change it.
Ledger == [i \in DOMAIN attempts |-> attempts[i].status]

LEMMA FreshStart ==
    ASSUME NEW o \in Operators, Alone(o, Operators), SInv, IInv', CommitStart(o)
    PROVE  SInv' /\ Kept
  <1>0. /\ o \in Requests
        /\ Fresh(req[o], row.status, Len(attempts))
        /\ attempts \in Seq(Attempt) /\ Len(attempts) \in Nat
    BY DEF SInv, IInv, TypeOK, Requests
  <1>1. row.status = "queued"
    BY <1>0 DEF CommitStart, Fresh
  <1>2. row'.status = "running" /\ logged' = "running" /\ Done(o)
    BY DEF CommitStart, UpdateLifecycle
  <1>3. SInv'
    BY <1>1, <1>2, FreshCommit
  <1>4. PICK n : attempts' = Append(attempts, [status |-> "running", dispatch |-> n])
    BY DEF CommitStart
  <1>5. Ledger' = Append(Ledger, "running")
    <2>1. /\ Ledger \in Seq(AttemptStatus) /\ Len(Ledger) = Len(attempts)
          /\ \A i \in 1..Len(attempts) : Ledger[i] = attempts[i].status
      <3>1. Ledger = [i \in 1..Len(attempts) |-> attempts[i].status]
        BY <1>0 DEF Ledger
      <3>2. ASSUME NEW i \in 1..Len(attempts)
            PROVE  attempts[i].status \in AttemptStatus
        <4>1. attempts[i] \in Attempt
          BY <1>0, ElementOfSeq
        <4> QED  BY <4>1 DEF Attempt
      <3>3. Ledger \in [1..Len(attempts) -> AttemptStatus]
        BY <3>1, <3>2
      <3> HIDE DEF Ledger
      <3> QED  BY <1>0, <3>1, <3>3, FunctionSeq
    <2>2. /\ DOMAIN attempts' = 1..(Len(attempts) + 1)
          /\ attempts'[Len(attempts) + 1].status = "running"
          /\ \A i \in 1..Len(attempts) : attempts'[i] = attempts[i]
      BY <1>0, <1>4
    <2>3. Ledger' = [i \in 1..(Len(attempts) + 1) |-> attempts'[i].status]
      BY <2>2 DEF Ledger
    <2>4. Append(Ledger, "running") =
            [i \in 1..(Len(attempts) + 1) |->
               IF i = Len(attempts) + 1 THEN "running" ELSE Ledger[i]]
      <3>1. "running" \in AttemptStatus
        BY DEF AttemptStatus
      <3> QED  BY <1>0, <2>1, <3>1, AppendFunction
    <2>5. \A i \in 1..(Len(attempts) + 1) :
            attempts'[i].status =
              IF i = Len(attempts) + 1 THEN "running" ELSE Ledger[i]
      BY <1>0, <2>1, <2>2
    <2> QED  BY <2>3, <2>4, <2>5
  <1>6. Lifecycle!Start
    BY <1>1, <1>2, <1>5 DEF Lifecycle!Start, Ledger
  <1> QED  BY <1>3, <1>6 DEF Kept, Lifecycle!Next

LEMMA FreshAdvance ==
    ASSUME NEW o \in Operators, Alone(o, Operators), SInv, IInv', CommitAdvance(o)
    PROVE  SInv' /\ Kept
  <1> DEFINE next == NextStatus(req[o].op)
  <1>0. /\ o \in Requests
        /\ Fresh(req[o], row.status, Len(attempts))
        /\ attempts \in Seq(Attempt) /\ Len(attempts) \in Nat
        /\ RunningHasItsAttempt
    BY DEF SInv, IInv, TypeOK, Requests
  <1>1. /\ req[o].op \in AdvanceActions
        /\ row.status \in Admits(req[o].op)
        /\ req[o].no = IF row.status = "running" THEN Len(attempts) ELSE 0
    BY <1>0 DEF CommitAdvance, Fresh
  <1>2. row'.status = next /\ logged' = next /\ Done(o)
    BY DEF CommitAdvance, UpdateLifecycle
  <1>3. /\ row.status # "ready"
        /\ \/ row.status = "running" /\ next \in {"ready", "failed", "cancelled"}
           \/ row.status = "queued" /\ next \in {"failed", "cancelled"}
           \/ row.status \in {"failed", "cancelled"} /\ next = "queued"
    BY <1>1 DEF Admits, NextStatus, AdvanceActions
  <1>4. SInv'
    BY <1>2, <1>3, FreshCommit
  <1>5. CASE row.status # "running"
    <2>1. attempts' = attempts
      BY <1>1, <1>5 DEF CommitAdvance
    <2>2. CASE next = "queued"
      <3>1. Lifecycle!Requeue
        BY <1>2, <1>3, <1>5, <2>1, <2>2 DEF Lifecycle!Requeue
      <3> QED  BY <1>4, <3>1 DEF Kept, Lifecycle!Next
    <2>3. CASE next # "queued"
      <3>1. next \in {"failed", "cancelled"} /\ row.status = "queued"
        BY <1>3, <1>5, <2>3
      <3>2. Lifecycle!Drop(next)
        BY <1>2, <2>1, <3>1 DEF Lifecycle!Drop
      <3>3. \E s \in {"failed", "cancelled"} : Lifecycle!Drop(s)
        BY <3>1, <3>2
      <3> QED  BY <1>4, <3>3 DEF Kept, Lifecycle!Next
    <2> QED  BY <1>4, <2>2, <2>3
  <1>6. CASE row.status = "running"
    <2>1. Len(attempts) \in 1..Len(attempts)
      BY <1>0, <1>6 DEF RunningHasItsAttempt
    <2>2. attempts' = [attempts EXCEPT ![Len(attempts)] =
                         [@ EXCEPT !.status = AttemptOutcome(next)]]
      BY <1>1, <1>6, <2>1 DEF CommitAdvance
    <2>3. /\ DOMAIN attempts' = 1..Len(attempts)
          /\ attempts'[Len(attempts)].status = AttemptOutcome(next)
          /\ \A i \in 1..Len(attempts) :
               i # Len(attempts) => attempts'[i] = attempts[i]
      BY <1>0, <2>1, <2>2 DEF Attempt
    <2>4. /\ Ledger = [i \in 1..Len(attempts) |-> attempts[i].status]
          /\ Ledger' = [i \in 1..Len(attempts) |-> attempts'[i].status]
      BY <1>0, <2>3 DEF Ledger
    <2>5. Len(Ledger) = Len(attempts)
      BY <1>0, <2>4
    <2>6. Ledger' = [Ledger EXCEPT ![Len(Ledger)] = AttemptOutcome(next)]
      BY <1>0, <2>1, <2>3, <2>4, <2>5
    <2>7. AttemptOutcome(next) = Lifecycle!OutcomeOf(next)
      BY DEF AttemptOutcome, Lifecycle!OutcomeOf
    <2>8. PICK s \in {"ready", "failed", "cancelled"} : s = next
      BY <1>3, <1>6
    <2>9. Lifecycle!Finish(s)
      BY <1>2, <1>6, <2>6, <2>7, <2>8 DEF Lifecycle!Finish, Ledger
    <2> QED  BY <1>4, <2>9 DEF Kept, Lifecycle!Next
  <1> QED  BY <1>5, <1>6

LEMMA SInvInit == Init => SInv
  <1> SUFFICES ASSUME Init PROVE SInv
    OBVIOUS
  <1>1. IInv
    BY InitIInv
  <1>2. AuditMatchesRow
    BY DEF Init, NoJob, AuditMatchesRow
  <1>3. ASSUME NEW x \in Requests
        PROVE  /\ Fresh(req[x], row.status, Len(attempts))
               /\ req[x].op \notin OperatorOps
    BY DEF Init, Idle, Fresh, OperatorOps, AdvanceActions
  <1> QED  BY <1>1, <1>2, <1>3 DEF SInv

LEMMA SInvNext ==
    ASSUME SInv, [Next]_vars, [CommitsAlone(Operators)]_vars
    PROVE  SInv' /\ Kept
  <1>1. IInv'
    BY NextIInv DEF SInv
  <1>2. ASSUME NEW o \in Operators, OperatorStep(o), CommitsAlone(Operators)
        PROVE  SInv' /\ Kept
    <2>1. CommitStart(o) \/ CommitAdvance(o) => Alone(o, Operators)
      BY <1>2, AloneCommits DEF Commits
    <2> QED
      BY <1>1, <1>2, <2>1, FreshOperatorReads, FreshStart, FreshAdvance DEF OperatorStep
  <1>3. CASE UNCHANGED vars
    <2>1. UNCHANGED <<row, attempts, logged, req>>
      BY <1>3 DEF vars
    <2>2. SInv'
      BY <1>1, <2>1 DEF SInv, AuditMatchesRow
    <2> QED  BY <2>1, <2>2, Stutter
  <1> QED
    BY <1>1, <1>2, <1>3, FreshDispatcher, FreshReader, FreshAbandon, FreshJob
    DEF Next

\* While operators commit alone, and whatever any number of dispatchers and
\* readers do, the last lifecycle event names the status of the row.
THEOREM AuditMatchesRowHolds ==
    Spec /\ [][CommitsAlone(Operators)]_vars => []AuditMatchesRow
  <1>1. SInv /\ [Next]_vars /\ [CommitsAlone(Operators)]_vars => SInv'
    BY SInvNext
  <1>2. SInv => AuditMatchesRow
    BY DEF SInv
  <1> QED  BY <1>1, <1>2, SInvInit, PTL DEF Spec

\* While operators commit alone, and whatever any number of dispatchers and
\* readers do, the export center implements the promised lifecycle: each
\* transaction is a step of ExportLifecycle or changes neither the status nor
\* the ledger.
THEOREM ImplementsLifecycle ==
    Spec /\ [][CommitsAlone(Operators)]_vars => LifecycleSpec
  <1>1. SInv /\ [Next]_vars /\ [CommitsAlone(Operators)]_vars
          => SInv' /\ [Lifecycle!Next]_(Lifecycle!lifecycleVars)
    BY SInvNext DEF Kept
  <1>2. Init => Lifecycle!Init
    BY DEF Init, Lifecycle!Init, NoJob
  <1> QED  BY <1>1, <1>2, SInvInit, PTL DEF Spec, LifecycleSpec, Lifecycle!Spec

-----------------------------------------------------------------------------
(* While dispatchers commit alone.  The dispatch one will reject is still  *)
(* submitted, and the one an operator will start under is not.             *)

Unfit == {"submitted", "rejected"}

\* What a request that will commit has read of its dispatch still holds.
Sent(q, ds) ==
    q.at = "commit" =>
        /\ q.op = "start" /\ q.no # 0 => ds[q.no] \notin Unfit
        /\ q.op = "reject" => ds[q.no] = "submitted"

DInv ==
    /\ IInv
    /\ AttemptWasDispatched
    /\ \A x \in Requests : Sent(req[x], dispatches)
    /\ \A x \in Requests \ Dispatchers : req[x].op # "reject"

\* A step that leaves the dispatches there are as they are.
LEMMA SentStep ==
    ASSUME DInv, IInv', NEW x \in Requests, NEW q,
           req' = [req EXCEPT ![x] = q],
           Sent(q, dispatches'), x \notin Dispatchers => q.op # "reject",
           \A n \in 1..Len(dispatches) : dispatches'[n] = dispatches[n],
           AttemptWasDispatched'
    PROVE  DInv'
  <1>1. ASSUME NEW y \in Requests
        PROVE  /\ Sent(req'[y], dispatches')
               /\ y \notin Dispatchers => req'[y].op # "reject"
    <2>1. CASE y = x
      BY <2>1 DEF DInv, IInv, TypeOK
    <2>2. CASE y # x
      <3>1. req'[y] = req[y]
        BY <2>2 DEF DInv, IInv, TypeOK
      <3>2. Knows(req[y], Len(attempts), Len(dispatches), won) /\ Sent(req[y], dispatches)
        BY DEF DInv, IInv
      <3>3. Len(dispatches) \in Nat
        BY DEF DInv, IInv, TypeOK
      <3>4. Sent(req[y], dispatches')
        BY <3>2, <3>3 DEF Knows, Sent, DispatchActions
      <3> QED  BY <2>2, <3>1, <3>4 DEF DInv
    <2> QED  BY <2>1, <2>2
  <1> QED  BY <1>1 DEF DInv

\* The same when no dispatch and no attempt changes.
LEMMA SentQuiet ==
    ASSUME DInv, IInv', NEW x \in Requests, NEW q,
           req' = [req EXCEPT ![x] = q], dispatches' = dispatches, attempts' = attempts,
           Sent(q, dispatches), x \notin Dispatchers => q.op # "reject"
    PROVE  DInv'
  <1>1. AttemptWasDispatched'
    BY DEF DInv, AttemptWasDispatched
  <1> QED  BY <1>1, SentStep

\* What the reads leave of a request.
LEMMA BeginSets ==
    ASSUME NEW x, NEW op, NEW at, NEW no, Begin(x, op, at, no)
    PROVE  /\ \E q : /\ req' = [req EXCEPT ![x] = q]
                     /\ q.op = op /\ q.at = at /\ q.no = no /\ q.job = row
           /\ dispatches' = dispatches /\ attempts' = attempts
  <1> DEFINE q == [op |-> op, at |-> at, job |-> row, no |-> no, known |-> {}]
  <1>1. q.op = op /\ q.at = at /\ q.no = no /\ q.job = row
    OBVIOUS
  <1>2. /\ req' = [req EXCEPT ![x] = q]
        /\ dispatches' = dispatches /\ attempts' = attempts
    BY DEF Begin
  <1> HIDE DEF q
  <1> QED  BY <1>1, <1>2

LEMMA ReadySets ==
    ASSUME IInv, NEW x \in Requests, NEW no, Ready(x, no)
    PROVE  /\ \E q : /\ req' = [req EXCEPT ![x] = q]
                     /\ q.op = req[x].op /\ q.at = "commit" /\ q.no = no
                     /\ q.job = req[x].job
           /\ dispatches' = dispatches /\ attempts' = attempts
  <1> DEFINE q == [req[x] EXCEPT !.at = "commit", !.no = no]
  <1>1. req[x] \in Request /\ req \in [Requests -> Request]
    BY DEF IInv, TypeOK
  <1>2. /\ q.op = req[x].op /\ q.at = "commit" /\ q.no = no
        /\ q.job = req[x].job
    BY <1>1 DEF Request
  <1>3. /\ req' = [req EXCEPT ![x] = q]
        /\ dispatches' = dispatches /\ attempts' = attempts
    BY <1>1 DEF Ready
  <1> HIDE DEF q
  <1> QED  BY <1>2, <1>3

LEMMA SentOperator ==
    ASSUME DInv, IInv', NEW o \in Operators, OperatorStep(o)
    PROVE  DInv'
  <1>0. /\ o \in Requests /\ req[o] \in Request /\ o \notin Dispatchers
        /\ dispatches \in Seq(DispatchStatus) /\ Len(dispatches) \in Nat
        /\ attempts \in Seq(Attempt) /\ Len(attempts) \in Nat
        /\ Knows(req[o], Len(attempts), Len(dispatches), won)
        /\ Sent(req[o], dispatches)
    BY RolesAssumption DEF DInv, IInv, TypeOK, Requests
  <1>1. CASE StartJob(o)
    <2>1. Begin(o, "start", "look", 0)
      BY <1>1 DEF StartJob
    <2>2. PICK q : req' = [req EXCEPT ![o] = q] /\ q.op = "start" /\ q.at = "look"
      BY <2>1, BeginSets
    <2>3. dispatches' = dispatches /\ attempts' = attempts
      BY <2>1, BeginSets
    <2>4. Sent(q, dispatches) /\ q.op # "reject"
      BY <2>2 DEF Sent
    <2> QED  BY <1>0, <2>2, <2>3, <2>4, SentQuiet
  <1>2. ASSUME NEW a \in AdvanceActions, AdvanceJob(o, a) PROVE DInv'
    <2>1. PICK at : Begin(o, a, at, 0)
      BY <1>2 DEF AdvanceJob
    <2>2. PICK q : req' = [req EXCEPT ![o] = q] /\ q.op = a
      BY <2>1, BeginSets
    <2>3. dispatches' = dispatches /\ attempts' = attempts
      BY <2>1, BeginSets
    <2>4. Sent(q, dispatches) /\ q.op # "reject"
      BY <2>2 DEF Sent, AdvanceActions
    <2> QED  BY <1>0, <2>2, <2>3, <2>4, SentQuiet
  <1>3. CASE LookForStart(o)
    <2>1. PICK n \in Nat : /\ Ready(o, n)
                           /\ n # 0 => dispatches[n] = "received"
      BY <1>0, <1>3 DEF LookForStart, LatestDispatch
    <2>2. PICK q : req' = [req EXCEPT ![o] = q] /\ q.op = req[o].op /\ q.no = n
      BY <1>0, <2>1, ReadySets DEF DInv
    <2>3. dispatches' = dispatches /\ attempts' = attempts
      BY <1>0, <2>1, ReadySets DEF DInv
    <2>5. q.op = "start"
      BY <1>3, <2>2 DEF LookForStart
    <2>4. Sent(q, dispatches) /\ q.op # "reject"
      BY <2>1, <2>2, <2>5 DEF Sent, Unfit
    <2> QED  BY <1>0, <2>2, <2>3, <2>4, SentQuiet
  <1>4. CASE LookForAdvance(o)
    <2>1. Ready(o, Len(attempts)) /\ req[o].op \in AdvanceActions
      BY <1>4 DEF LookForAdvance
    <2>2. PICK q : req' = [req EXCEPT ![o] = q] /\ q.op = req[o].op
      BY <1>0, <2>1, ReadySets DEF DInv
    <2>3. dispatches' = dispatches /\ attempts' = attempts
      BY <1>0, <2>1, ReadySets DEF DInv
    <2>4. Sent(q, dispatches) /\ q.op # "reject"
      BY <2>1, <2>2 DEF Sent, AdvanceActions
    <2> QED  BY <1>0, <2>2, <2>3, <2>4, SentQuiet
  <1>5. Idle.op # "reject" /\ \A ds : Sent(Idle, ds)
    BY DEF Sent, Idle
  <1>6. CASE CommitStart(o)
    <2> DEFINE n == IF req[o].no = 0 THEN Len(dispatches) + 1 ELSE req[o].no
    <2>1. /\ req' = [req EXCEPT ![o] = Idle]
          /\ req[o].op = "start" /\ req[o].at = "commit"
          /\ attempts' = Append(attempts, [status |-> "running", dispatch |-> n])
          /\ dispatches' = IF req[o].no = 0 THEN Append(dispatches, "received")
                           ELSE dispatches
      BY <1>6 DEF CommitStart, Done
    <2>2. /\ \A i \in 1..Len(dispatches) : dispatches'[i] = dispatches[i]
          /\ 1..Len(dispatches) \subseteq DOMAIN dispatches'
          /\ n \in DOMAIN dispatches' /\ dispatches'[n] \notin Unfit
      <3>1. CASE req[o].no = 0
        <4>1. dispatches' = Append(dispatches, "received") /\ "received" \in DispatchStatus
          BY <2>1, <3>1 DEF DispatchStatus
        <4> QED  BY <1>0, <3>1, <4>1, AppendSeq DEF Unfit
      <3>2. CASE req[o].no # 0
        BY <1>0, <2>1, <3>2 DEF Knows, Sent
      <3> QED  BY <3>1, <3>2
    <2>3. /\ DOMAIN attempts' = 1..(Len(attempts) + 1)
          /\ attempts'[Len(attempts) + 1].dispatch = n
          /\ \A i \in 1..Len(attempts) : attempts'[i] = attempts[i]
      BY <1>0, <2>1
    <2>4. AttemptWasDispatched'
      <3> SUFFICES ASSUME NEW i \in 1..(Len(attempts) + 1)
                   PROVE  /\ attempts'[i].dispatch \in DOMAIN dispatches'
                          /\ dispatches'[attempts'[i].dispatch] \notin Unfit
        BY <2>3 DEF AttemptWasDispatched, Unfit
      <3>1. CASE i = Len(attempts) + 1
        BY <2>2, <2>3, <3>1
      <3>2. CASE i \in 1..Len(attempts)
        <4>1. /\ attempts[i].dispatch \in 1..Len(dispatches)
              /\ dispatches[attempts[i].dispatch] \notin Unfit
          BY <1>0, <3>2 DEF DInv, AttemptWasDispatched, Unfit
        <4> QED  BY <2>2, <2>3, <3>2, <4>1
      <3> QED  BY <1>0, <3>1, <3>2
    <2> QED  BY <1>0, <1>5, <2>1, <2>2, <2>4, SentStep
  <1>7. CASE CommitAdvance(o)
    <2>1. /\ req' = [req EXCEPT ![o] = Idle] /\ dispatches' = dispatches
          /\ req[o].op \in AdvanceActions /\ req[o].at = "commit"
      BY <1>7 DEF CommitAdvance, Done
    <2>2. DOMAIN attempts' = DOMAIN attempts
          /\ \A i \in DOMAIN attempts : attempts'[i].dispatch = attempts[i].dispatch
      <3>1. CASE req[o].no = 0
        BY <1>7, <3>1 DEF CommitAdvance
      <3>2. CASE req[o].no # 0
        <4>1. PICK s : attempts' = [attempts EXCEPT ![req[o].no] =
                                      [attempts[req[o].no] EXCEPT !.status = s]]
          BY <1>0, <1>7, <3>2 DEF CommitAdvance
        <4>2. req[o].no \in 1..Len(attempts)
          BY <1>0, <2>1, <3>2 DEF Knows
        <4>3. attempts[req[o].no] \in Attempt
          BY <1>0, <4>2, ElementOfSeq
        <4>4. [attempts[req[o].no] EXCEPT !.status = s].dispatch
                = attempts[req[o].no].dispatch
          BY <4>3 DEF Attempt
        <4> QED  BY <1>0, <4>1, <4>2, <4>4
      <3> QED  BY <3>1, <3>2
    <2>3. AttemptWasDispatched'
      BY <2>1, <2>2 DEF DInv, AttemptWasDispatched
    <2> QED  BY <1>0, <1>5, <2>1, <2>3, SentStep
  <1> QED  BY <1>1, <1>2, <1>3, <1>4, <1>6, <1>7 DEF OperatorStep

LEMMA SentDispatcher ==
    ASSUME NEW d \in Dispatchers, DInv, IInv', DispatcherStep(d),
           CommitDispatch(d) => Alone(d, Dispatchers)
    PROVE  DInv'
  <1>0. /\ d \in Requests /\ d \in Dispatchers /\ req \in [Requests -> Request]
        /\ req[d] \in Request
        /\ dispatches \in Seq(DispatchStatus) /\ Len(dispatches) \in Nat
        /\ DOMAIN dispatches = 1..Len(dispatches)
        /\ Knows(req[d], Len(attempts), Len(dispatches), won)
        /\ Sent(req[d], dispatches)
    BY DEF DInv, IInv, TypeOK, Requests
  <1>1. CASE CreateJobDispatch(d) \/ \E n \in 1..Len(dispatches), a \in DispatchActions :
                                       AdvanceJobDispatch(d, n, a)
    <2>1. PICK op, n : Begin(d, op, "look", n)
      <3>1. CASE CreateJobDispatch(d)
        BY <3>1 DEF CreateJobDispatch
      <3>2. CASE \E n \in 1..Len(dispatches), a \in DispatchActions :
                   AdvanceJobDispatch(d, n, a)
        BY <3>2 DEF AdvanceJobDispatch
      <3> QED  BY <1>1, <3>1, <3>2
    <2>2. PICK q : req' = [req EXCEPT ![d] = q] /\ q.at = "look"
      BY <2>1, BeginSets
    <2>3. dispatches' = dispatches /\ attempts' = attempts
      BY <2>1, BeginSets
    <2>4. Sent(q, dispatches)
      BY <2>2 DEF Sent
    <2> QED  BY <1>0, <2>2, <2>3, <2>4, SentQuiet
  <1>2. CASE LookForCreate(d) \/ LookAtDispatch(d)
    <2>1. PICK n : /\ Ready(d, n)
                   /\ req[d].op \in DispatchActions \cup {"create"}
                   /\ req[d].op = "reject" => dispatches[n] = "submitted"
      BY <1>2 DEF LookForCreate, LookAtDispatch, DispatchAdmits, DispatchActions
    <2>2. PICK q : req' = [req EXCEPT ![d] = q] /\ q.op = req[d].op /\ q.no = n
      BY <1>0, <2>1, ReadySets DEF DInv
    <2>3. dispatches' = dispatches /\ attempts' = attempts
      BY <1>0, <2>1, ReadySets DEF DInv
    <2>4. Sent(q, dispatches)
      BY <2>1, <2>2 DEF Sent, DispatchActions
    <2> QED  BY <1>0, <2>2, <2>3, <2>4, SentQuiet
  <1>3. Idle.op # "reject" /\ \A ds : Sent(Idle, ds)
    BY DEF Sent, Idle
  <1>4. CASE CommitNewDispatch(d)
    <2>1. /\ req' = [req EXCEPT ![d] = Idle] /\ attempts' = attempts
          /\ dispatches' = Append(dispatches, "submitted")
      BY <1>4 DEF CommitNewDispatch, Done
    <2>2. \A n \in 1..Len(dispatches) : dispatches'[n] = dispatches[n]
          /\ n \in DOMAIN dispatches'
      BY <1>0, <2>1, AppendSeq DEF DispatchStatus
    <2>3. AttemptWasDispatched'
      BY <1>0, <2>1, <2>2 DEF DInv, AttemptWasDispatched
    <2> QED  BY <1>0, <1>3, <2>1, <2>2, <2>3, SentStep
  <1>5. CASE CommitDispatch(d)
    <2> DEFINE n == req[d].no
               a == req[d].op
    <2>1. /\ req' = [req EXCEPT ![d] = Idle] /\ attempts' = attempts
          /\ a \in DispatchActions /\ req[d].at = "commit"
          /\ dispatches' = [dispatches EXCEPT ![n] = DispatchNext(a)]
      BY <1>5 DEF CommitDispatch, Done
    <2>2. n \in 1..Len(dispatches)
      BY <1>0, <2>1 DEF Knows
    <2>3. dispatches[n] \notin Unfit => DispatchNext(a) \notin Unfit
      BY <1>0, <2>1 DEF Sent, Unfit, DispatchNext, DispatchActions
    <2>4. /\ DOMAIN dispatches' = DOMAIN dispatches
          /\ \A i \in 1..Len(dispatches) :
               dispatches[i] \notin Unfit => dispatches'[i] \notin Unfit
      BY <1>0, <2>1, <2>2, <2>3
    <2>5. AttemptWasDispatched'
      BY <1>0, <2>1, <2>4 DEF DInv, AttemptWasDispatched, Unfit
    <2>6. ASSUME NEW x \in Requests
          PROVE  /\ Sent(req'[x], dispatches')
                 /\ x \notin Dispatchers => req'[x].op # "reject"
      <3>1. CASE x = d
        BY <1>0, <1>3, <2>1, <3>1
      <3>2. CASE x # d
        <4>1. req'[x] = req[x] /\ req[x].op # "reject"
          BY <1>0, <1>5, <2>1, <3>2 DEF DInv, Alone
        <4>2. Knows(req[x], Len(attempts), Len(dispatches), won) /\ Sent(req[x], dispatches)
          BY DEF DInv, IInv
        <4> QED  BY <1>0, <2>4, <4>1, <4>2 DEF Knows, Sent
      <3> QED  BY <3>1, <3>2
    <2> QED  BY <2>5, <2>6 DEF DInv
  <1> QED  BY <1>1, <1>2, <1>4, <1>5 DEF DispatcherStep

LEMMA SentOthers ==
    ASSUME DInv, IInv',
           \/ \E r \in Readers : ReaderStep(r)
           \/ \E x \in Requests : Abandon(x)
           \/ CreateJob \/ Lapse \/ UNCHANGED vars
    PROVE  DInv'
  <1>0. Idle.op # "reject" /\ Sent(Idle, dispatches)
    BY DEF Sent, Idle
  <1>1. ASSUME NEW r \in Readers, ReaderStep(r) PROVE DInv'
    <2>0. r \in Requests /\ req[r] \in Request /\ req \in [Requests -> Request]
      BY DEF DInv, IInv, TypeOK, Requests
    <2>1. dispatches' = dispatches /\ attempts' = attempts
      BY <1>1 DEF ReaderStep, AccessDownload, RefreshDownload, ListEvents, CommitAccess,
                  CommitExpired, CommitRefresh, Begin
    <2>2. PICK q : /\ req' = [req EXCEPT ![r] = q]
                   /\ q.op \in {"access", "note", "refresh", "idle"}
      <3>1. CASE AccessDownload(r) \/ RefreshDownload(r)
        <4>1. PICK op \in {"access", "note", "refresh"},
                   at \in {"look", "commit"} : Begin(r, op, at, 0)
          BY <3>1 DEF AccessDownload, RefreshDownload
        <4> QED  BY <4>1, BeginSets
      <3>2. CASE ListEvents(r)
        <4>1. req' = [req EXCEPT ![r] =
                       [req[r] EXCEPT !.at = "commit", !.known = ToSet(expired)]]
          BY <2>0, <3>2 DEF ListEvents
        <4>2. [req[r] EXCEPT !.at = "commit", !.known = ToSet(expired)].op = req[r].op
          BY <2>0 DEF Request
        <4>3. req[r].op \in {"note", "refresh"}
          BY <3>2 DEF ListEvents
        <4> QED  BY <4>1, <4>2, <4>3
      <3>3. CASE CommitAccess(r) \/ CommitExpired(r) \/ CommitRefresh(r)
        <4>1. req' = [req EXCEPT ![r] = Idle] /\ Idle.op = "idle"
          BY <3>3 DEF CommitAccess, CommitExpired, CommitRefresh, Done, Idle
        <4> QED  BY <4>1
      <3> QED  BY <1>1, <3>1, <3>2, <3>3 DEF ReaderStep
    <2>3. Sent(q, dispatches) /\ q.op # "reject"
      BY <2>2 DEF Sent
    <2> QED  BY <2>0, <2>1, <2>2, <2>3, SentQuiet
  <1>2. ASSUME NEW x \in Requests, Abandon(x) PROVE DInv'
    <2>1. /\ req' = [req EXCEPT ![x] = Idle]
          /\ dispatches' = dispatches /\ attempts' = attempts
      BY <1>2 DEF Abandon, Done
    <2> QED  BY <1>0, <2>1, SentQuiet
  <1>3. CASE CreateJob \/ Lapse \/ UNCHANGED vars
    BY <1>3 DEF CreateJob, Lapse, vars, DInv, AttemptWasDispatched
  <1> QED  BY <1>1, <1>2, <1>3

\* While dispatchers commit alone, and whatever any number of operators and
\* readers do, no attempt runs under a dispatch that was never received or was
\* rejected.
THEOREM AttemptWasDispatchedHolds ==
    Spec /\ [][CommitsAlone(Dispatchers)]_vars => []AttemptWasDispatched
  <1>1. Init => DInv
    BY InitIInv DEF Init, Idle, DInv, AttemptWasDispatched, Sent
  <1>2. DInv /\ [Next]_vars /\ [CommitsAlone(Dispatchers)]_vars => DInv'
    <2> SUFFICES ASSUME DInv, [Next]_vars, [CommitsAlone(Dispatchers)]_vars PROVE DInv'
      OBVIOUS
    <2>1. IInv'
      BY NextIInv DEF DInv
    <2>2. ASSUME NEW d \in Dispatchers, DispatcherStep(d), CommitsAlone(Dispatchers)
          PROVE  DInv'
      <3>1. CommitDispatch(d) => Alone(d, Dispatchers)
        BY <2>2, AloneCommits DEF Commits
      <3> QED  BY <2>1, <2>2, <3>1, SentDispatcher
    <2> QED  BY <2>1, <2>2, SentOperator, SentOthers DEF Next
  <1>3. DInv => AttemptWasDispatched
    BY DEF DInv
  <1> QED  BY <1>1, <1>2, <1>3, PTL DEF Spec

-----------------------------------------------------------------------------
(* While operators and readers commit alone.  The key a request will write *)
(* back or record is the one the row has, and the events the reader has    *)
(* listed are all there are.                                               *)

Reading == {"note", "refresh"}

Read(q, s, n, ex) ==
    /\ q.op \in OperatorOps => q.job.ref = n
    /\ q.op \in Reading =>
         /\ s # "absent"
         /\ q.job.ref = n
         /\ q.at = "commit" => q.known = ToSet(ex)

EInv ==
    /\ SInv
    /\ ExpiryIsRecordedOnce
    /\ row.status = "absent" => refs = 0
    /\ \A x \in Requests : Read(req[x], row.status, refs, expired)
    /\ \A x \in Requests \ Readers : req[x].op \notin Reading

\* A step of one request that leaves the key and the events alone.
LEMMA ReadQuiet ==
    ASSUME EInv, SInv', NEW x \in Requests, NEW q,
           req' = [req EXCEPT ![x] = q],
           row'.ref = row.ref, refs' = refs, expired' = expired,
           row'.status = "absent" => row.status = "absent",
           Read(q, row'.status, refs, expired),
           x \notin Readers => q.op \notin Reading
    PROVE  EInv'
  <1>1. req \in [Requests -> Request]
    BY DEF EInv, SInv, IInv, TypeOK
  <1>2. ASSUME NEW y \in Requests
        PROVE  /\ Read(req'[y], row'.status, refs', expired')
               /\ y \notin Readers => req'[y].op \notin Reading
    <2>1. CASE y = x
      BY <1>1, <2>1
    <2>2. CASE y # x
      <3>1. req'[y] = req[y] /\ Read(req[y], row.status, refs, expired)
        BY <1>1, <2>2 DEF EInv
      <3>2. Read(req[y], row'.status, refs, expired)
        BY <3>1 DEF Read
      <3> QED  BY <3>1, <3>2 DEF EInv
    <2> QED  BY <2>1, <2>2
  <1>3. ExpiryIsRecordedOnce' /\ (row'.status = "absent" => refs' = 0)
    BY DEF EInv, ExpiryIsRecordedOnce
  <1> QED  BY <1>2, <1>3 DEF EInv

LEMMA ReadIdle ==
    ASSUME NEW s, NEW n, NEW ex
    PROVE  Read(Idle, s, n, ex) /\ Idle.op \notin Reading
  BY DEF Read, Idle, Reading, OperatorOps, AdvanceActions

LEMMA ReadOperator ==
    ASSUME NEW o \in Operators, EInv, SInv', OperatorStep(o)
    PROVE  EInv'
  <1>0. /\ o \in Requests /\ o \notin Readers /\ req[o] \in Request
        /\ IInv /\ row.ref = refs
        /\ Read(req[o], row.status, refs, expired)
    BY RolesAssumption DEF EInv, SInv, IInv, TypeOK, Requests, ExpiryIsRecordedOnce
  <1>1. ASSUME NEW op \in OperatorOps, NEW at, Begin(o, op, at, 0)
        PROVE  EInv'
    <2>1. PICK q : /\ req' = [req EXCEPT ![o] = q]
                   /\ q.op = op /\ q.job = row
      BY <1>1, BeginSets
    <2>2. row' = row /\ refs' = refs /\ expired' = expired
      BY <1>1 DEF Begin, jobVars, auditVars
    <2>3. q.op \notin Reading
      BY <2>1 DEF OperatorOps, AdvanceActions, Reading
    <2>4. Read(q, row.status, refs, expired)
      BY <1>0, <2>1, <2>3 DEF Read
    <2> QED  BY <1>0, <2>1, <2>2, <2>3, <2>4, ReadQuiet
  <1>2. ASSUME NEW n, Ready(o, n), req[o].op \in OperatorOps
        PROVE  EInv'
    <2>1. PICK q : /\ req' = [req EXCEPT ![o] = q]
                   /\ q.op = req[o].op /\ q.job = req[o].job
      BY <1>0, <1>2, ReadySets
    <2>2. row' = row /\ refs' = refs /\ expired' = expired
      BY <1>2 DEF Ready, jobVars, auditVars
    <2>3. q.op \notin Reading
      BY <1>2, <2>1 DEF OperatorOps, AdvanceActions, Reading
    <2>4. Read(q, row.status, refs, expired)
      BY <1>0, <1>2, <2>1, <2>3 DEF Read
    <2> QED  BY <1>0, <2>1, <2>2, <2>3, <2>4, ReadQuiet
  <1>3. CASE StartJob(o) \/ \E a \in AdvanceActions : AdvanceJob(o, a)
    <2>1. "start" \in OperatorOps /\ AdvanceActions \subseteq OperatorOps
      BY DEF OperatorOps
    <2>2. CASE StartJob(o)
      BY <1>1, <2>1, <2>2 DEF StartJob
    <2>3. CASE \E a \in AdvanceActions : AdvanceJob(o, a)
      BY <1>1, <2>1, <2>3 DEF AdvanceJob
    <2> QED  BY <1>3, <2>2, <2>3
  <1>4. CASE LookForStart(o) \/ LookForAdvance(o)
    <2>1. req[o].op \in OperatorOps
      BY <1>4 DEF LookForStart, LookForAdvance, OperatorOps
    <2> QED  BY <1>2, <1>4, <2>1 DEF LookForStart, LookForAdvance
  <1>5. CASE CommitStart(o) \/ CommitAdvance(o)
    <2>1. /\ req' = [req EXCEPT ![o] = Idle] /\ refs' = refs /\ expired' = expired
          /\ req[o].op \in OperatorOps
      BY <1>5 DEF CommitStart, CommitAdvance, Done, OperatorOps, auditVars
    <2>2. PICK s, e : /\ s # "absent"
                      /\ row' = [status |-> s, ref |-> req[o].job.ref, expiry |-> e]
      <3>1. CASE CommitStart(o)
        BY <3>1 DEF CommitStart, UpdateLifecycle
      <3>2. CASE CommitAdvance(o)
        <4>1. NextStatus(req[o].op) # "absent"
          BY <3>2 DEF CommitAdvance, AdvanceActions, NextStatus
        <4> QED  BY <3>2, <4>1 DEF CommitAdvance, UpdateLifecycle
      <3> QED  BY <1>5, <3>1, <3>2
    <2>3. row'.ref = row.ref /\ row'.status # "absent"
      BY <1>0, <2>1, <2>2 DEF Read
    <2> QED  BY <1>0, <2>1, <2>3, ReadIdle, ReadQuiet
  <1> QED  BY <1>3, <1>4, <1>5 DEF OperatorStep

LEMMA ReadDispatcher ==
    ASSUME NEW d \in Dispatchers, EInv, SInv', DispatcherStep(d)
    PROVE  EInv'
  <1>0. d \in Requests /\ IInv
    BY DEF EInv, SInv, Requests
  <1>1. PICK q : /\ req' = [req EXCEPT ![d] = q]
                 /\ q.op \in DispatchActions \cup {"create", "idle"}
    BY <1>0, DispatcherMoves
  <1>2. row' = row /\ refs' = refs /\ expired' = expired
    BY <1>0, DispatcherMoves
  <1>3. q.op \notin OperatorOps /\ q.op \notin Reading
    BY <1>1 DEF DispatchActions, OperatorOps, AdvanceActions, Reading
  <1>4. Read(q, row.status, refs, expired)
    BY <1>3 DEF Read
  <1> QED  BY <1>0, <1>1, <1>2, <1>3, <1>4, ReadQuiet

\* The key is recorded unless it is, and then it is recorded once.
LEMMA NoteStep ==
    ASSUME EInv, NEW r \in Readers, req[r].op \in Reading,
           req[r].at = "commit", NoteExpired(r)
    PROVE  /\ \A k \in 1..refs : \E i \in DOMAIN expired' : expired'[i] = k
           /\ \A i, j \in DOMAIN expired' : expired'[i] = expired'[j] => i = j
  <1>1. /\ expired \in Seq(Nat) /\ refs \in Nat
        /\ req[r].job.ref = refs /\ req[r].known = ToSet(expired)
    BY DEF EInv, SInv, IInv, TypeOK, Requests, Read
  <1>2. /\ \A k \in 1..refs : k < refs => \E i \in DOMAIN expired : expired[i] = k
        /\ \A i, j \in DOMAIN expired : expired[i] = expired[j] => i = j
    BY DEF EInv, ExpiryIsRecordedOnce
  <1>3. CASE refs \in ToSet(expired)
    <2>1. expired' = expired
      BY <1>1, <1>3 DEF NoteExpired
    <2>2. \E i \in DOMAIN expired : expired[i] = refs
      BY <1>3 DEF ToSet
    <2> QED  BY <1>1, <1>2, <2>1, <2>2
  <1>4. CASE refs \notin ToSet(expired)
    <2>1. expired' = Append(expired, refs)
      BY <1>1, <1>4 DEF NoteExpired
    <2>2. /\ DOMAIN expired' = 1..(Len(expired) + 1)
          /\ DOMAIN expired = 1..Len(expired) /\ Len(expired) \in Nat
          /\ expired'[Len(expired) + 1] = refs
          /\ \A i \in 1..Len(expired) : expired'[i] = expired[i]
      BY <1>1, <2>1, AppendSeq
    <2>3. \A i \in 1..Len(expired) : expired[i] # refs
      BY <1>4, <2>2 DEF ToSet
    <2>4. ASSUME NEW k \in 1..refs
          PROVE  \E i \in DOMAIN expired' : expired'[i] = k
      <3>1. CASE k = refs
        BY <2>2, <3>1
      <3>2. CASE k < refs
        <4>1. PICK i \in DOMAIN expired : expired[i] = k
          BY <1>2, <3>2
        <4> QED  BY <2>2, <4>1
      <3> QED  BY <1>1, <3>1, <3>2
    <2>5. ASSUME NEW i \in DOMAIN expired', NEW j \in DOMAIN expired',
                 expired'[i] = expired'[j]
          PROVE  i = j
      BY <1>2, <2>2, <2>3, <2>5
    <2> QED  BY <2>4, <2>5
  <1> QED  BY <1>3, <1>4

\* The transaction that records the key.
LEMMA ReadCommit ==
    ASSUME NEW r \in Readers, Alone(r, Readers), EInv, SInv',
           CommitExpired(r) \/ CommitRefresh(r)
    PROVE  EInv'
  <1>0. /\ r \in Requests /\ r \in Readers /\ req \in [Requests -> Request]
        /\ refs \in Nat /\ row.ref = refs
        /\ Read(req[r], row.status, refs, expired)
        /\ Fresh(req[r], row.status, Len(attempts))
        /\ Knows(req[r], Len(attempts), Len(dispatches), won)
    BY DEF EInv, SInv, IInv, TypeOK, Requests, ExpiryIsRecordedOnce
  <1>1. /\ req[r].op \in Reading /\ req[r].at = "commit" /\ NoteExpired(r)
        /\ req' = [req EXCEPT ![r] = Idle]
    BY DEF CommitExpired, CommitRefresh, Reading, Done
  <1>2. /\ \A k \in 1..refs : \E i \in DOMAIN expired' : expired'[i] = k
        /\ \A i, j \in DOMAIN expired' : expired'[i] = expired'[j] => i = j
    BY <1>0, <1>1, NoteStep
  <1>3. ASSUME NEW y \in Requests, y # r
        PROVE  /\ req'[y] = req[y] /\ req[y].op \notin Reading
               /\ Read(req[y], row.status, refs, expired)
               /\ Fresh(req[y], row.status, Len(attempts))
    BY <1>0, <1>1, <1>3 DEF EInv, SInv, Alone, Reading
  <1>4. req'[r] = Idle
    BY <1>0, <1>1
  <1>5. row.status # "absent"
    BY <1>0, <1>1 DEF Read
  <1>6. CASE CommitExpired(r)
    <2>1. row' = row /\ refs' = refs
      BY <1>6 DEF CommitExpired, jobVars
    <2>2. ExpiryIsRecordedOnce'
      BY <1>0, <1>2, <2>1 DEF ExpiryIsRecordedOnce
    <2>3. ASSUME NEW y \in Requests
          PROVE  /\ Read(req'[y], row'.status, refs', expired')
                 /\ y \notin Readers => req'[y].op \notin Reading
      <3>1. CASE y = r
        BY <1>4, <3>1, ReadIdle
      <3>2. CASE y # r
        BY <1>3, <2>1, <3>2 DEF Read
      <3> QED  BY <3>1, <3>2
    <2> QED  BY <1>5, <2>1, <2>2, <2>3 DEF EInv
  <1>7. CASE CommitRefresh(r)
    <2>1. row.status = "ready" /\ req[r].job.status = "ready"
      BY <1>0, <1>7 DEF CommitRefresh, Fresh, Knows
    <2>2. /\ row' = [status |-> "ready", ref |-> refs + 1, expiry |-> "live"]
          /\ refs' = refs + 1
      BY <1>7, <2>1 DEF CommitRefresh, UpdateLifecycle
    <2>3. row'.ref = refs' /\ row'.status = "ready"
      BY <2>2
    <2>4. ExpiryIsRecordedOnce'
      BY <1>0, <1>2, <2>2, <2>3 DEF ExpiryIsRecordedOnce
    <2>5. ASSUME NEW y \in Requests
          PROVE  /\ Read(req'[y], row'.status, refs', expired')
                 /\ y \notin Readers => req'[y].op \notin Reading
      <3>1. CASE y = r
        BY <1>4, <3>1, ReadIdle
      <3>2. CASE y # r
        <4>1. req[y].op \notin OperatorOps
          BY <1>3, <2>1, <3>2 DEF Fresh, OperatorOps, AdvanceActions, Admits
        <4> QED  BY <1>3, <3>2, <4>1 DEF Read
      <3> QED  BY <3>1, <3>2
    <2> QED  BY <2>3, <2>4, <2>5 DEF EInv
  <1> QED  BY <1>6, <1>7

LEMMA ReadReader ==
    ASSUME NEW r \in Readers, EInv, SInv', ReaderStep(r),
           CommitExpired(r) \/ CommitRefresh(r) => Alone(r, Readers)
    PROVE  EInv'
  <1>0. /\ r \in Requests /\ r \in Readers /\ req \in [Requests -> Request]
        /\ req[r] \in Request /\ row.ref = refs
        /\ Read(req[r], row.status, refs, expired)
    BY DEF EInv, SInv, IInv, TypeOK, Requests, ExpiryIsRecordedOnce
  <1>1. CASE AccessDownload(r) \/ RefreshDownload(r)
    <2>1. PICK op \in {"access", "note", "refresh"},
               at \in {"look", "commit"} :
            /\ Begin(r, op, at, 0)
            /\ op \in Reading => at = "look"
      BY <1>1 DEF AccessDownload, RefreshDownload, Reading
    <2>2. PICK q : /\ req' = [req EXCEPT ![r] = q]
                   /\ q.op = op /\ q.at = at /\ q.job = row
      BY <2>1, BeginSets
    <2>3. row' = row /\ refs' = refs /\ expired' = expired /\ row.status # "absent"
      BY <2>1 DEF Begin, jobVars, auditVars
    <2>4. op \notin OperatorOps
      BY DEF OperatorOps, AdvanceActions
    <2>5. Read(q, row.status, refs, expired)
      BY <1>0, <2>1, <2>2, <2>3, <2>4 DEF Read
    <2> QED  BY <1>0, <2>2, <2>3, <2>5, ReadQuiet
  <1>2. CASE ListEvents(r)
    <2> DEFINE q == [req[r] EXCEPT !.at = "commit", !.known = ToSet(expired)]
    <2>1. req' = [req EXCEPT ![r] = q]
      BY <1>0, <1>2 DEF ListEvents
    <2>2. q.op = req[r].op /\ q.job = req[r].job /\ q.known = ToSet(expired)
      BY <1>0 DEF Request
    <2>3. row' = row /\ refs' = refs /\ expired' = expired
      BY <1>2 DEF ListEvents, jobVars, auditVars
    <2>4. req[r].op \in Reading /\ req[r].op \notin OperatorOps
      BY <1>2 DEF ListEvents, Reading, OperatorOps, AdvanceActions
    <2> HIDE DEF q
    <2>5. Read(q, row.status, refs, expired)
      BY <1>0, <2>2, <2>4 DEF Read
    <2> QED  BY <1>0, <2>1, <2>3, <2>5, ReadQuiet
  <1>3. CASE CommitAccess(r)
    <2>1. /\ req' = [req EXCEPT ![r] = Idle]
          /\ row' = row /\ refs' = refs /\ expired' = expired
      BY <1>3 DEF CommitAccess, Done, jobVars
    <2> QED  BY <1>0, <2>1, ReadIdle, ReadQuiet
  <1> QED  BY <1>1, <1>2, <1>3, ReadCommit DEF ReaderStep

LEMMA ReadJob ==
    ASSUME EInv, SInv', CreateJob \/ Lapse \/ UNCHANGED vars
    PROVE  EInv'
  <1>0. row \in Row /\ refs \in Nat /\ row.ref = refs
    BY DEF EInv, SInv, IInv, TypeOK, ExpiryIsRecordedOnce
  <1>1. req' = req /\ expired' = expired
    BY DEF CreateJob, Lapse, vars, auditVars
  <1>2. CASE CreateJob
    <2>1. /\ row.status = "absent" /\ refs = 0 /\ refs' = 1
          /\ row' = [status |-> "queued", ref |-> 1, expiry |-> "none"]
      BY <1>2 DEF CreateJob, UpdateLifecycle, EInv
    <2>2. row'.status = "queued" /\ row'.ref = 1
      BY <2>1
    <2>3. ExpiryIsRecordedOnce'
      BY <1>1, <2>1, <2>2 DEF EInv, ExpiryIsRecordedOnce
    <2>4. ASSUME NEW x \in Requests
          PROVE  Read(req'[x], row'.status, refs', expired')
      <3>1. req[x].op \notin Reading /\ Fresh(req[x], "absent", Len(attempts))
        BY <2>1 DEF EInv, SInv, Read
      <3>2. req[x].op \notin OperatorOps
        BY <3>1 DEF Fresh, OperatorOps, AdvanceActions, Admits
      <3> QED  BY <1>1, <3>1, <3>2 DEF Read
    <2> QED  BY <1>1, <2>2, <2>3, <2>4 DEF EInv
  <1>3. CASE Lapse \/ UNCHANGED vars
    <2>1. row'.ref = row.ref /\ row'.status = row.status /\ refs' = refs
      BY <1>0, <1>3 DEF Lapse, vars, Row
    <2> QED  BY <1>1, <2>1 DEF EInv, ExpiryIsRecordedOnce
  <1> QED  BY <1>2, <1>3

\* While operators and readers commit alone, and whatever any number of
\* dispatchers do, a handoff is replaced only after it expired, and every expiry
\* is recorded exactly once.
THEOREM ExpiryIsRecordedOnceHolds ==
    Spec /\ [][CommitsAlone(Operators)]_vars /\ [][CommitsAlone(Readers)]_vars
      => []ExpiryIsRecordedOnce
  <1>1. Init => EInv
    <2> SUFFICES ASSUME Init PROVE EInv
      OBVIOUS
    <2>1. row.status = "absent" /\ row.ref = 0 /\ refs = 0 /\ expired = << >>
      BY DEF Init, NoJob
    <2>2. ExpiryIsRecordedOnce
      BY <2>1 DEF ExpiryIsRecordedOnce
    <2>3. ASSUME NEW x \in Requests
          PROVE  /\ Read(req[x], row.status, refs, expired)
                 /\ req[x].op \notin Reading
      BY ReadIdle DEF Init
    <2> QED  BY <2>1, <2>2, <2>3, SInvInit DEF EInv
  <1>2. EInv /\ [Next]_vars /\ [CommitsAlone(Operators)]_vars
          /\ [CommitsAlone(Readers)]_vars => EInv'
    <2> SUFFICES ASSUME EInv, [Next]_vars, [CommitsAlone(Operators)]_vars,
                        [CommitsAlone(Readers)]_vars
                 PROVE  EInv'
      OBVIOUS
    <2>1. SInv'
      BY SInvNext DEF EInv
    <2>2. ASSUME NEW x \in Requests, Abandon(x) PROVE EInv'
      <3>1. /\ req' = [req EXCEPT ![x] = Idle]
            /\ row' = row /\ refs' = refs /\ expired' = expired
        BY <2>2 DEF Abandon, Done, jobVars, auditVars
      <3> QED  BY <2>1, <3>1, ReadIdle, ReadQuiet
    <2>3. ASSUME NEW r \in Readers, ReaderStep(r), CommitsAlone(Readers)
          PROVE  EInv'
      <3>1. CommitExpired(r) \/ CommitRefresh(r) => Alone(r, Readers)
        BY <2>3, AloneCommits DEF Commits
      <3> QED  BY <2>1, <2>3, <3>1, ReadReader
    <2> QED
      BY <2>1, <2>2, <2>3, ReadOperator, ReadDispatcher, ReadJob DEF Next
  <1>3. EInv => ExpiryIsRecordedOnce
    BY DEF EInv
  <1> QED  BY <1>1, <1>2, <1>3, PTL DEF Spec

=============================================================================

------------------------------ MODULE TaskFlow ------------------------------
(***************************************************************************)
(* The life of one V7 design task of the normal lane: assignment, design,  *)
(* audit, outsourcing, warehouse, close, cancel and archive.               *)
(*                                                                         *)
(* Every service method has the same shape: it reads the task row (and the *)
(* receipt or the handovers), decides, and then opens a transaction whose  *)
(* UPDATEs name the row by id only.  A request is therefore two steps: a   *)
(* Begin action with all the guards of the method, which records the       *)
(* writes it has decided on, and a Commit action that applies them to      *)
(* whatever the row is by then.  Only ClaimPendingAssignment, ClaimCAS,    *)
(* CASUpdateStatus and the unique key of warehouse_receipts look again.    *)
(***************************************************************************)
EXTENDS Naturals, FiniteSets

CONSTANTS
  Designers, Auditors, Keepers, Clerks,  \* users with role Designer, Audit_A+Audit_B, Warehouse, Ops
  OrgScope,    \* users in the owner department or team of the task
  Creator,     \* the clerk that created the task
  Requests,    \* concurrent HTTP requests
  Handovers,   \* rows of audit_handovers (bounds how many are created)
  Nobody,      \* a NULL designer_id or current_handler_id
  Keep,        \* a column the request does not write
  NoHandover

Users == Designers \cup Auditors \cup Keepers \cup Clerks

Who == Users \cup {Nobody}

Statuses == {"PendingAssign", "InProgress", "PendingAuditA", "RejectedByAuditA",
             "PendingAuditB", "RejectedByAuditB", "PendingOutsource", "Outsourcing",
             "PendingWarehouseReceive", "RejectedByWarehouse",
             "PendingProductionTransfer", "PendingClose", "Completed",
             "Cancelled", "Archived"}

ASSUME TaskFlowAssumption ==
  /\ Creator \in Clerks
  /\ OrgScope \subseteq Users
  /\ Nobody \notin Users
  /\ Keep \notin Statuses \cup Users \cup {Nobody}
  /\ NoHandover \notin Handovers

VARIABLES
  status, designer, handler,  \* tasks.task_status, designer_id, current_handler_id
  designModule,  \* state of the task's design module
  review,        \* flow_review_status of the current delivery version
  receipt,       \* warehouse_receipts.status; "none" when there is no row
  filed,         \* the product and all its SKU items are filed in the ERP
  handover,      \* audit_handovers
  done,          \* milestones recorded in task_event_logs
  call,          \* what each open request has decided to write
  job            \* the warehouse auto-release run

taskVars == <<status, designer, handler, designModule, review, receipt, filed, handover, done>>
vars == <<taskVars, call, job>>

AuditStatuses == {"PendingAuditA", "PendingAuditB"}

DesignStatuses == {"InProgress", "RejectedByAuditA", "RejectedByAuditB"}

UploadStatuses == {"PendingAssign", "PendingProductionTransfer", "RejectedByWarehouse"}
                    \cup DesignStatuses \cup AuditStatuses

Milestones == {"submitted", "passedA", "outsourced", "approved", "received",
               "warehoused", "closed"}

HandoverStates == {"none", "pending_takeover", "taken_over"}

Ops == {"none", "assign_cas", "assign", "clear", "pool_claim", "submit", "upload",
        "claim", "approve", "reject", "transfer", "handover", "takeover",
        "outsource", "receive", "reject_wh", "complete", "close", "cancel"}

\* The columns to write (Keep: not written); to, ho: the handover concerned;
\* fresh: the method saw no receipt and will INSERT one.
Calls == [op : Ops, to : Who, status : Statuses \cup {Keep},
          designer : Who \cup {Keep}, handler : Who \cup {Keep},
          ho : Handovers \cup {NoHandover}, fresh : BOOLEAN]

Call(op, s, d, h) ==
  [op |-> op, to |-> Nobody, status |-> s, designer |-> d, handler |-> h,
   ho |-> NoHandover, fresh |-> FALSE]

NoCall == Call("none", Keep, Keep, Keep)

IdleJob == [phase |-> "idle", seen |-> Keep]

\* Create: with a designer the task starts in progress; InitTask puts the
\* design module into the pool either way.
Init ==
  /\ \/ status = "PendingAssign" /\ designer = Nobody /\ handler = Nobody
     \/ status = "InProgress" /\ designer \in Designers /\ handler = designer
  /\ designModule = "pending_claim"
  /\ review = "none"
  /\ receipt = "none"
  /\ filed = FALSE
  /\ handover = [h \in Handovers |-> [to |-> Nobody, state |-> "none"]]
  /\ done = {}
  /\ call = [r \in Requests |-> NoCall]
  /\ job = IdleJob

-----------------------------------------------------------------------------
(* The two halves of a request *)

Begin(r, c) ==
  /\ call[r].op = "none"
  /\ call' = [call EXCEPT ![r] = c]
  /\ UNCHANGED <<taskVars, job>>

\* Mutant: a column the request does not mean to change is written as well.
WriteEveryColumn(c) ==
  /\ status' = c.status
  /\ designer' = c.designer
  /\ handler' = c.handler

\* UpdateStatus, UpdateDesigner, UpdateHandler: UPDATE tasks ... WHERE id = ?
WriteTask(c) ==
  /\ status' = IF c.status = Keep THEN status ELSE c.status
  /\ designer' = IF c.designer = Keep THEN designer ELSE c.designer
  /\ handler' = IF c.handler = Keep THEN handler ELSE c.handler

\* The milestone an approval into stage next records.
Approval(next) ==
  CASE next = "PendingAuditB" -> {"passedA"}
    [] next = "PendingOutsource" -> {"outsourced"}
    [] OTHER -> {"approved"}

\* The milestones that the task event of a request records.
Earned(c) ==
  CASE c.op = "submit" -> {"submitted"}
    [] c.op = "upload" /\ c.status # Keep -> {"submitted"}
    [] c.op = "approve" -> Approval(c.status)
    [] c.op = "receive" -> {"received"}
    [] c.op = "complete" -> {"warehoused"}
    [] c.op = "close" -> {"closed"}
    [] OTHER -> {}

\* The transaction of request r commits, its task event included.
Commit(r, op) ==
  /\ call[r].op = op
  /\ WriteTask(call[r])
  /\ done' = done \cup Earned(call[r])
  /\ call' = [call EXCEPT ![r] = NoCall]
  /\ UNCHANGED <<filed, job>>

\* A refused compare-and-set, a duplicate receipt or any database error
\* rolls the transaction back.
RequestFails(r) ==
  /\ call[r].op # "none"
  /\ call' = [call EXCEPT ![r] = NoCall]
  /\ UNCHANGED <<taskVars, job>>

-----------------------------------------------------------------------------
(* Assignment *)

Unclaimed == designer = Nobody /\ handler = Nobody

\* A clerk assigns any designer, a designer claims an unclaimed task.
BeginAssign(r, u, d) ==
  /\ status = "PendingAssign"
  /\ \/ u \in Clerks
     \/ u = d /\ Unclaimed
  /\ Begin(r, Call(IF Unclaimed THEN "assign_cas" ELSE "assign", "InProgress", d, d))

\* In progress the designer is replaced and the status is not written.
BeginReassign(r, u, d) ==
  /\ status = "InProgress"
  /\ u \in Clerks
  /\ ~(designer = d /\ handler = d)
  /\ Begin(r, Call("assign", Keep, d, d))

BeginClearAssignment(r, u) ==
  /\ status \in {"PendingAssign", "InProgress"}
  /\ u \in Clerks
  /\ ~(status = "PendingAssign" /\ Unclaimed)
  /\ Begin(r, Call("clear", IF status = "InProgress" THEN "PendingAssign" ELSE Keep,
                   Nobody, Nobody))

\* Claim of the design module from the pool.
BeginPoolClaim(r, u) ==
  /\ handler \in {Nobody, u}
  /\ designer \in {Nobody, u}
  /\ Begin(r, Call("pool_claim", IF status = "PendingAssign" THEN "InProgress" ELSE Keep,
                   IF designer = Nobody THEN u ELSE Keep,
                   IF handler = Nobody THEN u ELSE Keep))

\* Reassign of the module: WHERE state IN ('pending_claim', 'in_progress').
SyncAssignmentModule ==
  designModule' = IF designModule \in {"pending_claim", "in_progress"}
                  THEN "in_progress" ELSE designModule

\* ClaimPendingAssignment: WHERE task_status = 'PendingAssign' AND designer_id
\* IS NULL AND current_handler_id IS NULL.
CommitAssignCAS(r) ==
  /\ status = "PendingAssign"
  /\ Unclaimed
  /\ Commit(r, "assign_cas")
  /\ SyncAssignmentModule
  /\ UNCHANGED <<review, receipt, handover>>

CommitAssign(r) ==
  /\ Commit(r, "assign")
  /\ SyncAssignmentModule
  /\ UNCHANGED <<review, receipt, handover>>

CommitClearAssignment(r) ==
  /\ Commit(r, "clear")
  /\ designModule' = IF designModule = "closed" THEN designModule ELSE "pending_claim"
  /\ UNCHANGED <<review, receipt, handover>>

\* Mutant: the module is claimed without looking at its state.
CommitPoolClaimBlindly(r) ==
  /\ Commit(r, "pool_claim")
  /\ designModule' = "in_progress"
  /\ UNCHANGED <<review, receipt, handover>>

\* ClaimCAS: WHERE state = 'pending_claim'.
CommitPoolClaim(r) ==
  /\ designModule = "pending_claim"
  /\ Commit(r, "pool_claim")
  /\ designModule' = "in_progress"
  /\ UNCHANGED <<review, receipt, handover>>

-----------------------------------------------------------------------------
(* Design *)

BeginSubmitDesign(r, u) ==
  /\ status \in DesignStatuses
  /\ designer # Nobody
  /\ u \in {designer, handler}
  /\ Begin(r, Call("submit", "PendingAuditA", Keep, Nobody))

\* The asset goes into task_assets without a design_assets version, so the
\* review state of the current delivery version stays.
CommitSubmitDesign(r) ==
  /\ Commit(r, "submit")
  /\ designModule' = "submitted"
  /\ UNCHANGED <<review, receipt, handover>>

CanUpload(u) ==
  \/ u \in {designer, handler}
  \/ u \in OrgScope
  \/ u \in Auditors /\ status \in AuditStatuses \cup {"RejectedByAuditA", "RejectedByAuditB"}

\* Mutant: a complete delivery is submitted in whatever status it is uploaded.
BeginUploadAdvancing(r, u, advance) ==
  /\ status \in UploadStatuses
  /\ CanUpload(u)
  /\ Begin(r, Call("upload", IF advance THEN "PendingAuditA" ELSE Keep,
                   Keep, IF advance THEN Nobody ELSE Keep))

\* Completing a delivery upload session; advance: every SKU has its delivery
\* and no peer session is open.
BeginUpload(r, u, advance) ==
  /\ status \in UploadStatuses
  /\ CanUpload(u)
  /\ advance => status \in DesignStatuses \cup {"PendingAssign"}
  /\ Begin(r, Call("upload", IF advance THEN "PendingAuditA" ELSE Keep,
                   Keep, IF advance THEN Nobody ELSE Keep))

CommitUpload(r) ==
  /\ Commit(r, "upload")
  /\ designModule' = IF call[r].status = Keep THEN designModule ELSE "submitted"
  /\ review' = "pending_review"
  /\ UNCHANGED <<receipt, handover>>

-----------------------------------------------------------------------------
(* Audit.  An auditor sees the audit statuses as its own stage, and a stage *)
(* match counts as elevated scope: claim, approve and reject then skip the  *)
(* current-handler policy.  Transfer and handover do not accept the stage   *)
(* as a scope, so they need the owner organisation or the handler; takeover *)
(* needs the owner organisation.                                            *)

NoPendingHandover == \A h \in Handovers : handover[h].state # "pending_takeover"

AuditAllowed == status \in AuditStatuses /\ NoPendingHandover

BeginAuditClaim(r, u) ==
  /\ AuditAllowed
  /\ Begin(r, Call("claim", Keep, Keep, u))

CommitAuditClaim(r) ==
  /\ Commit(r, "claim")
  /\ UNCHANGED <<designModule, review, receipt, handover>>

\* Mutant: an approval may send the task straight to the transfer stage.
ApproveTargetsSkipping(s) ==
  {"PendingAuditB", "PendingWarehouseReceive", "PendingOutsource", "PendingProductionTransfer"}

ApproveTargets(s) ==
  IF s = "PendingAuditA" THEN {"PendingAuditB", "PendingWarehouseReceive", "PendingOutsource"}
  ELSE {"PendingWarehouseReceive"}

\* Mutant: the approval leaves the auditor as current handler.
BeginApproveKeepingHandler(r, u, next) ==
  /\ u \in Auditors
  /\ AuditAllowed
  /\ next \in ApproveTargets(status)
  /\ Begin(r, Call("approve", next, Keep, Keep))

BeginApprove(r, u, next) ==
  /\ u \in Auditors
  /\ AuditAllowed
  /\ next \in ApproveTargets(status)
  /\ Begin(r, Call("approve", next, Keep, Nobody))

\* MarkCurrentDeliveryVersionsApprovedForTask, on the final approval only.
CommitApprove(r) ==
  /\ Commit(r, "approve")
  /\ review' = IF call[r].status = "PendingWarehouseReceive" /\ review # "none"
               THEN "approved" ELSE review
  /\ UNCHANGED <<designModule, receipt, handover>>

RejectedStatus(s) == IF s = "PendingAuditA" THEN "RejectedByAuditA" ELSE "RejectedByAuditB"

BeginReject(r, u) ==
  /\ u \in Auditors
  /\ AuditAllowed
  /\ Begin(r, Call("reject", RejectedStatus(status), Keep, designer))

CommitReject(r) ==
  /\ Commit(r, "reject")
  /\ review' = IF review = "none" THEN review ELSE "rejected"
  /\ UNCHANGED <<designModule, receipt, handover>>

BeginTransfer(r, u, a) ==
  /\ AuditAllowed
  /\ u \in OrgScope \cup {handler}
  /\ Begin(r, Call("transfer", Keep, Keep, a))

CommitTransfer(r) ==
  /\ Commit(r, "transfer")
  /\ UNCHANGED <<designModule, review, receipt, handover>>

\* Mutant: a handover may be added while another one is pending.
BeginHandoverAgain(r, u, a, h) ==
  /\ status \in AuditStatuses
  /\ u \in OrgScope \cup {handler}
  /\ a # u
  /\ handover[h].state = "none"
  /\ Begin(r, [Call("handover", Keep, Keep, Nobody) EXCEPT !.to = a, !.ho = h])

BeginHandover(r, u, a, h) ==
  /\ AuditAllowed
  /\ u \in OrgScope \cup {handler}
  /\ a # u
  /\ handover[h].state = "none"
  /\ Begin(r, [Call("handover", Keep, Keep, Nobody) EXCEPT !.to = a, !.ho = h])

CommitHandover(r) ==
  LET h == call[r].ho IN
  /\ call[r].op = "handover"
  /\ handover[h].state = "none"
  /\ Commit(r, "handover")
  /\ handover' = [handover EXCEPT ![h] = [to |-> call[r].to, state |-> "pending_takeover"]]
  /\ UNCHANGED <<designModule, review, receipt>>

BeginTakeover(r, u, h) ==
  /\ handover[h] = [to |-> u, state |-> "pending_takeover"]
  /\ u \in OrgScope
  /\ status \in AuditStatuses
  /\ Begin(r, [Call("takeover", Keep, Keep, u) EXCEPT !.ho = h])

CommitTakeover(r) ==
  LET h == call[r].ho IN
  /\ Commit(r, "takeover")
  /\ handover' = [handover EXCEPT ![h] = [to |-> handover[h].to, state |-> "taken_over"]]
  /\ UNCHANGED <<designModule, review, receipt>>

-----------------------------------------------------------------------------
(* Outsourcing: only Create has a route; nothing leads out of Outsourcing. *)

BeginOutsource(r, u) ==
  /\ u \in Clerks
  /\ status = "PendingOutsource"
  /\ Begin(r, Call("outsource", "Outsourcing", Keep, Keep))

CommitOutsource(r) ==
  /\ Commit(r, "outsource")
  /\ UNCHANGED <<designModule, review, receipt, handover>>

-----------------------------------------------------------------------------
(* Warehouse and close.  A keeper's stage is elevated scope; a clerk is     *)
(* held to the current-handler policy.  PrepareWarehouse is refused for     *)
(* every status of a design task (auditApproved holds only where another    *)
(* reason blocks it), so it has no action.                                  *)

BeginReceive(r, u) ==
  /\ status = "PendingWarehouseReceive"
  /\ \/ u \in Keepers
     \/ u \in Clerks /\ handler \in {Nobody, u}
  /\ receipt \in {"none", "rejected"}
  /\ Begin(r, [Call("receive", "PendingProductionTransfer", Keep, u)
                 EXCEPT !.fresh = (receipt = "none")])

CommitReceive(r) ==
  /\ call[r].fresh => receipt = "none"
  /\ Commit(r, "receive")
  /\ receipt' = "received"
  /\ UNCHANGED <<designModule, review, handover>>

BeginWarehouseReject(r, u) ==
  /\ status = "PendingWarehouseReceive"
  /\ \/ u \in Keepers
     \/ u \in Clerks /\ handler = u
  /\ receipt # "completed"
  /\ Begin(r, [Call("reject_wh", "RejectedByWarehouse", Keep, designer)
                 EXCEPT !.fresh = (receipt = "none")])

CommitWarehouseReject(r) ==
  /\ call[r].fresh => receipt = "none"
  /\ Commit(r, "reject_wh")
  /\ receipt' = "rejected"
  /\ UNCHANGED <<designModule, review, handover>>

BeginComplete(r, u) ==
  /\ status \in {"PendingWarehouseReceive", "PendingProductionTransfer"}
  /\ \/ u \in Keepers
     \/ u \in Clerks /\ handler = u
  /\ receipt = "received"
  /\ Begin(r, Call("complete", "PendingClose", Keep, Nobody))

\* Mutant: the task advances but the receipt row is not updated.
CommitCompleteWithoutReceipt(r) ==
  /\ Commit(r, "complete")
  /\ UNCHANGED <<designModule, review, receipt, handover>>

CommitComplete(r) ==
  /\ Commit(r, "complete")
  /\ receipt' = "completed"
  /\ UNCHANGED <<designModule, review, handover>>

BeginClose(r, u) ==
  /\ u \in Keepers \cup Clerks
  /\ status = "PendingClose"
  /\ receipt = "completed"
  /\ filed
  /\ Begin(r, Call("close", "Completed", Keep, Nobody))

CommitClose(r) ==
  /\ Commit(r, "close")
  /\ UNCHANGED <<designModule, review, receipt, handover>>

-----------------------------------------------------------------------------
(* Filing in the ERP, cancel by the creator, archive job. *)

\* An attempt ends filed, pending or failed.  It is started by a business-info
\* patch, by a retry, by Approve after its commit and by Complete before it; both
\* ignore its outcome, so an attempt may happen in every status.
TriggerFiling ==
  /\ filed' \in BOOLEAN
  /\ UNCHANGED <<status, designer, handler, designModule, review, receipt, handover,
                 done, call, job>>

\* The creator passes every check of Cancel, which does not look at the status.
BeginCancel(r) ==
  /\ Begin(r, Call("cancel", "Cancelled", Keep, Keep))

CommitCancel(r) ==
  /\ Commit(r, "cancel")
  /\ designModule' = "closed"
  /\ UNCHANGED <<review, receipt, handover>>

ArchiveTasks ==
  /\ status \in {"Completed", "Cancelled"}
  /\ status' = "Archived"
  /\ UNCHANGED <<designer, handler, designModule, review, receipt, filed, handover, done,
                 call, job>>

-----------------------------------------------------------------------------
(* Warehouse auto release: list the candidates, load one, release it in one *)
(* transaction of compare-and-set updates.                                  *)

ReleaseStatuses == {"PendingWarehouseReceive", "PendingProductionTransfer", "PendingClose"}

\* Mutant: the candidate query joins warehouse_receipts without LEFT.
ReleasableWithReceipt ==
  /\ status \in ReleaseStatuses
  /\ receipt \in {"received", "completed"}
  /\ review = "approved"
  /\ filed

Releasable ==
  /\ status \in ReleaseStatuses
  /\ receipt # "rejected"
  /\ review = "approved"
  /\ filed

ListCandidates ==
  /\ job.phase = "idle"
  /\ Releasable
  /\ job' = [phase |-> "listed", seen |-> Keep]
  /\ UNCHANGED <<taskVars, call>>

LoadTask ==
  /\ job.phase = "listed"
  /\ job' = [phase |-> "loaded", seen |-> status]
  /\ UNCHANGED <<taskVars, call>>

\* A receipt created by this transaction is not completed by it: Create does
\* not fill in receipt.ID, so the second Update finds no row.  Neither the review
\* nor the filing is looked at again after the listing.
ReleaseOne ==
  /\ job.phase = "loaded"
  /\ status = job.seen
  /\ receipt # "rejected"
  /\ \/ /\ status = "PendingWarehouseReceive"
        /\ receipt' = IF receipt = "none" THEN "received" ELSE "completed"
        /\ done' = done \cup {"received", "warehoused", "closed"}
     \/ /\ status = "PendingProductionTransfer"
        /\ receipt # "none"
        /\ receipt' = "completed"
        /\ done' = done \cup {"warehoused", "closed"}
     \/ /\ status = "PendingClose"
        /\ receipt # "none"
        /\ receipt' = receipt
        /\ done' = done \cup {"closed"}
  /\ status' = "Completed"
  /\ job' = IdleJob
  /\ UNCHANGED <<designer, handler, designModule, review, filed, handover, call>>

\* A missed compare-and-set, a rejected or missing receipt, a status that is
\* not releasable, or a database error.
SkipTask ==
  /\ job.phase = "loaded"
  /\ job' = IdleJob
  /\ UNCHANGED <<taskVars, call>>

-----------------------------------------------------------------------------
BeginWork(r) ==
  \/ \E u \in Clerks \cup Designers, d \in Designers : BeginAssign(r, u, d)
  \/ \E u \in Clerks, d \in Designers : BeginReassign(r, u, d)
  \/ \E u \in Clerks : BeginClearAssignment(r, u)
  \/ \E u \in Designers : BeginPoolClaim(r, u)
  \/ \E u \in Designers \cup Clerks : BeginSubmitDesign(r, u)
  \/ \E u \in Designers \cup Auditors \cup Clerks, b \in BOOLEAN : BeginUpload(r, u, b)
  \/ \E u \in Auditors : BeginAuditClaim(r, u)
  \/ \E u \in Users, s \in Statuses : BeginApprove(r, u, s)
  \/ \E u \in Users : BeginReject(r, u)
  \/ \E u, a \in Auditors : BeginTransfer(r, u, a)
  \/ \E u, a \in Auditors, h \in Handovers : BeginHandover(r, u, a, h)
  \/ \E u \in Auditors, h \in Handovers : BeginTakeover(r, u, h)
  \/ \E u \in Users : BeginOutsource(r, u)
  \/ \E u \in Keepers \cup Clerks : BeginReceive(r, u)
  \/ \E u \in Keepers \cup Clerks : BeginWarehouseReject(r, u)
  \/ \E u \in Keepers \cup Clerks : BeginComplete(r, u)
  \/ \E u \in Users : BeginClose(r, u)

CommitWork(r) ==
  \/ CommitAssignCAS(r) \/ CommitAssign(r) \/ CommitClearAssignment(r) \/ CommitPoolClaim(r)
  \/ CommitSubmitDesign(r) \/ CommitUpload(r)
  \/ CommitAuditClaim(r) \/ CommitApprove(r) \/ CommitReject(r) \/ CommitTransfer(r)
  \/ CommitHandover(r) \/ CommitTakeover(r)
  \/ CommitOutsource(r)
  \/ CommitReceive(r) \/ CommitWarehouseReject(r) \/ CommitComplete(r) \/ CommitClose(r)

Job == ListCandidates \/ LoadTask \/ ReleaseOne \/ SkipTask

Next ==
  \/ \E r \in Requests :
       BeginWork(r) \/ CommitWork(r) \/ BeginCancel(r) \/ CommitCancel(r) \/ RequestFails(r)
  \/ TriggerFiling
  \/ ArchiveTasks
  \/ Job

Spec == Init /\ [][Next]_vars

\* The cron entry runs the job every five minutes; SF on the release because a
\* run may also fail, which the next run makes up for.
FairJob ==
  /\ WF_vars(ListCandidates)
  /\ WF_vars(LoadTask)
  /\ SF_vars(ReleaseOne)
  /\ WF_vars(SkipTask)

FairJobSpec == Spec /\ FairJob

-----------------------------------------------------------------------------
(* Properties *)

\* The columns, the requests in flight and the job have the values the code
\* can give them.
TypeOK ==
  /\ status \in Statuses
  /\ designer \in Who
  /\ handler \in Who
  /\ designModule \in {"pending_claim", "in_progress", "submitted", "closed"}
  /\ review \in {"none", "pending_review", "approved", "rejected"}
  /\ receipt \in {"none", "received", "rejected", "completed"}
  /\ filed \in BOOLEAN
  /\ handover \in [Handovers -> [to : Who, state : HandoverStates]]
  /\ done \subseteq Milestones
  /\ call \in [Requests -> Calls]
  /\ job \in [phase : {"idle", "listed", "loaded"}, seen : Statuses \cup {Keep}]

\* The milestones a task must have behind it to be in a status.
Behind(s) ==
  CASE s \in {"PendingAuditA", "RejectedByAuditA"} -> {"submitted"}
    [] s \in {"PendingAuditB", "RejectedByAuditB"} -> {"submitted", "passedA"}
    [] s \in {"PendingOutsource", "Outsourcing"} -> {"submitted", "outsourced"}
    [] s \in {"PendingWarehouseReceive", "RejectedByWarehouse"} -> {"submitted", "approved"}
    [] s = "PendingProductionTransfer" -> {"submitted", "approved", "received"}
    [] s = "PendingClose" -> {"submitted", "approved", "received", "warehoused"}
    [] s = "Completed" -> {"submitted", "approved", "received", "warehoused", "closed"}
    [] OTHER -> {}

\* However requests and the release job interleave, and although their writes
\* do not look at the row again, a task is never in a stage whose preceding
\* stages have not happened: nothing reaches audit B without a pass of audit A,
\* the warehouse without a final approval, or the close without the warehouse.
NoStageSkipped == Behind(status) \subseteq done

Justified(c) == Behind(c.status) \subseteq done \cup Earned(c)

\* What makes NoStageSkipped inductive: the writes a request has decided on stay
\* justified until it commits, because milestones are never taken back.
CallsStayJustified == \A r \in Requests : Justified(call[r])

\* A receipt that was not rejected has been received at some time.
ReceiptWasReceived == receipt \in {"received", "completed"} => "received" \in done

WritesItsStage(c) ==
  /\ c.op = "receive" <=> c.status = "PendingProductionTransfer"
  /\ c.op = "complete" <=> c.status = "PendingClose"
  /\ c.op = "reject_wh" <=> c.status = "RejectedByWarehouse"

\* Each stage that depends on the receipt is written by one kind of request.
WarehouseStagesHaveOneWriter == \A r \in Requests : WritesItsStage(call[r])

\* The warehouse receipt and the task row are written by the same
\* transactions, so the stages that follow a receipt agree with it.
ReceiptAgreesWithStatus ==
  /\ status = "PendingProductionTransfer" => receipt = "received"
  /\ status = "PendingClose" => receipt = "completed"
  /\ status = "RejectedByWarehouse" => receipt = "rejected"

\* The inductive invariant.
FlowInv ==
  /\ TypeOK
  /\ NoStageSkipped
  /\ CallsStayJustified
  /\ ReceiptWasReceived
  /\ WarehouseStagesHaveOneWriter
  /\ ReceiptAgreesWithStatus

\* A claim, from the pool or by self-assignment, never takes a task from a
\* designer who already has it: only a clerk's assignment replaces one.  The
\* two claim paths guard different tables (ClaimCAS on task_modules,
\* ClaimPendingAssignment on tasks).
ClaimsDoNotSteal ==
  [][(designer # Nobody /\ designer' \notin {designer, Nobody})
       => \E r \in Requests : call[r].op = "assign" /\ call'[r].op = "none"]_vars

\* Only the assignment paths write the designer, and an unassignment empties it.
DesignerHasFewWriters ==
  \A r \in Requests :
    /\ call[r].designer # Keep => call[r].op \in {"assign_cas", "assign", "clear", "pool_claim"}
    /\ call[r].op = "clear" => call[r].designer = Nobody

\* While the module of a task that has a designer waits in the pool, no claim in
\* flight means to write the designer.
PoolClaimsAreFirst ==
  (designModule = "pending_claim" /\ designer # Nobody) =>
    \A r \in Requests : call[r].op = "pool_claim" => call[r].designer = Keep

\* What ClaimsDoNotSteal rests on, inductive together with TypeOK.
ClaimInv == DesignerHasFewWriters /\ PoolClaimsAreFirst

\* The current handler is the one the status calls for: nobody while a stage
\* waits to be picked up, an auditor or nobody during audit, the designer while
\* the work is with the designer.
OwnershipIsFresh ==
  /\ status \in {"PendingAssign", "PendingOutsource", "Outsourcing",
                 "PendingWarehouseReceive", "PendingClose"} => handler = Nobody
  /\ status \in AuditStatuses => handler \in Auditors \cup {Nobody}
  /\ status \in DesignStatuses \cup {"RejectedByWarehouse"} => handler = designer

\* A pending handover freezes the audit: there is one at most, the task has no
\* handler, and it stays in audit (or is cancelled) until somebody takes over.
HandoverFreezesAudit ==
  \A h \in Handovers : handover[h].state = "pending_takeover" =>
    /\ \A g \in Handovers \ {h} : handover[g].state # "pending_takeover"
    /\ handler = Nobody
    /\ status \in AuditStatuses \cup {"Cancelled", "Archived"}

\* A request that commits finds no other request under way: the others may be
\* admitted at the same time only if they fail.
CommitsAlone ==
  \A r \in Requests : CommitWork(r) \/ CommitCancel(r) =>
    \A q \in Requests \ {r} : call[q].op = "none"

\* As long as requests commit alone, the columns they write by id carry the task
\* along the one map its users know, whatever the release job, the archive job and
\* failing requests do between a read and its commit: no submission leaves the
\* audit, no receipt is written twice, and the only way back from the end is a
\* warehouse step that was decided before it.
Lifecycle == INSTANCE TaskLifecycle

ImplementsTaskLifecycle == Lifecycle!Spec

\* The milestones that come before m in the life of every task.
Before(m) ==
  CASE m = "submitted" -> {}
    [] m \in {"passedA", "outsourced", "approved"} -> {"submitted"}
    [] m = "received" -> {"submitted", "approved"}
    [] m = "warehoused" -> {"submitted", "approved", "received"}
    [] m = "closed" -> {"submitted", "approved", "received", "warehoused"}

\* Whatever overlaps, and wherever the row has been taken back to, the event log
\* of a task never tells of a stage without the stages before it.
HistoryIsOrdered == \A m \in done : Before(m) \subseteq done

\* However claims, handovers and takeovers overlap with the writes of others, the
\* audit begins with the submission: before it nobody is the handler only for
\* being an auditor, and no handover is recorded.
AuditFollowsSubmission ==
  "submitted" \notin done =>
    /\ handler \in Designers \cup {Nobody}
    /\ \A h \in Handovers : handover[h].state = "none"

FinalStatuses == {"Completed", "Cancelled", "Archived"}

\* No request under way means to take the task to a status that is not final.
Settled ==
  /\ status \in FinalStatuses
  /\ \A r \in Requests : call[r].status \in FinalStatuses \cup {Keep}

\* A commit that was decided earlier can bring a cancelled or completed task back,
\* but only the requests under way at that time can: once they are over, the
\* task stays final for good, whatever is tried on it.
SettledTasksStaySettled == [][Settled => Settled']_vars

AwaitsRelease ==
  /\ status \in ReleaseStatuses
  /\ receipt # "rejected"
  /\ review = "approved"
  /\ filed

\* A filed task with an approved delivery does not wait in the warehouse for ever:
\* the auto-release job closes it if nobody else moves it on.
WarehouseNeverStalls == AwaitsRelease ~> ~AwaitsRelease
=============================================================================

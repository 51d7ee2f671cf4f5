--------------------------- MODULE TaskFlowProofs ---------------------------
(***************************************************************************)
(* Proofs about TaskFlow, for any sets of users, requests and handovers:   *)
(* the type invariant, and that concurrent requests whose writes do not    *)
(* look at the row again neither skip a stage nor part the warehouse       *)
(* receipt from the task, that they keep the history in order, and that a  *)
(* settled task stays settled.  The last two sections are about requests   *)
(* that commit alone, with the jobs beside them: who owns the task, and    *)
(* the refinement of TaskLifecycle.                                        *)
(***************************************************************************)
EXTENDS TaskFlow, TLAPS

\* A request that decides on nothing.
LEMMA NoCallFacts ==
  /\ NoCall \in Calls
  /\ WritesItsStage(NoCall)
  /\ Justified(NoCall)
BY TaskFlowAssumption DEF NoCall, Call, Calls, Ops, Who, Users, Statuses, WritesItsStage, Justified, Behind

\* A record Call builds is a call whenever its columns are.
LEMMA CallType ==
  ASSUME NEW op \in Ops, NEW s \in Statuses \cup {Keep}, NEW d \in Who \cup {Keep},
         NEW h \in Who \cup {Keep}
  PROVE  Call(op, s, d, h) \in Calls
BY DEF Call, Calls, Who

\* The events of a request record known milestones only.
LEMMA EarnedMilestones == ASSUME NEW c PROVE Earned(c) \subseteq Milestones
BY DEF Earned, Approval, Milestones

\* The first half of a request, whatever it decides on, keeps the invariant if
\* what it decides on is justified at that moment.
LEMMA BeginKeeps ==
  ASSUME FlowInv, NEW r \in Requests, NEW c \in Calls, Begin(r, c),
         Justified(c), WritesItsStage(c)
  PROVE  FlowInv'
<1>1. call \in [Requests -> Calls] /\ call' = [call EXCEPT ![r] = c]
  BY DEF FlowInv, TypeOK, Begin
<1>2. UNCHANGED <<taskVars, job>>
  BY DEF Begin
<1>3. \A q \in Requests : call'[q] = c \/ call'[q] = call[q]
  BY <1>1
<1>4. TypeOK'
  BY <1>1, <1>2 DEF FlowInv, TypeOK, taskVars
<1>5. NoStageSkipped' /\ ReceiptWasReceived' /\ ReceiptAgreesWithStatus'
  BY <1>2 DEF FlowInv, NoStageSkipped, ReceiptWasReceived, ReceiptAgreesWithStatus, taskVars
<1>6. CallsStayJustified'
  BY <1>2, <1>3 DEF FlowInv, CallsStayJustified, Justified, taskVars
<1>7. WarehouseStagesHaveOneWriter'
  BY <1>3 DEF FlowInv, WarehouseStagesHaveOneWriter
<1> QED BY <1>4, <1>5, <1>6, <1>7 DEF FlowInv

\* What the second half of every request does to the task row and the calls.
LEMMA CommitKeeps ==
  ASSUME FlowInv, NEW r \in Requests, NEW op, Commit(r, op)
  PROVE  /\ status' \in Statuses /\ designer' \in Who /\ handler' \in Who
         /\ done' \subseteq Milestones /\ done \subseteq done'
         /\ call' \in [Requests -> Calls] /\ job' = job /\ filed' = filed
         /\ NoStageSkipped'
         /\ CallsStayJustified'
         /\ WarehouseStagesHaveOneWriter'
<1>1. call[r] \in Calls /\ call \in [Requests -> Calls] /\ TypeOK
  BY DEF FlowInv, TypeOK
<1>2. call' = [call EXCEPT ![r] = NoCall] /\ done' = done \cup Earned(call[r])
  BY DEF Commit
<1>3. status' \in Statuses /\ designer' \in Who /\ handler' \in Who
  BY <1>1 DEF Commit, WriteTask, TypeOK, Calls
<1>4. done' \subseteq Milestones /\ done \subseteq done'
  BY <1>1, <1>2, EarnedMilestones DEF TypeOK
<1>5. call' \in [Requests -> Calls]
  BY <1>1, <1>2, NoCallFacts
<1>6. \A q \in Requests : call'[q] = NoCall \/ call'[q] = call[q]
  BY <1>1, <1>2
<1>7. NoStageSkipped'
  <2>1. Behind(call[r].status) \subseteq done'
    BY <1>2 DEF FlowInv, CallsStayJustified, Justified
  <2>2. Behind(status) \subseteq done'
    BY <1>4 DEF FlowInv, NoStageSkipped
  <2>3. status' = status \/ status' = call[r].status
    BY DEF Commit, WriteTask
  <2> QED BY <2>1, <2>2, <2>3 DEF NoStageSkipped
<1>8. CallsStayJustified'
  <2>1. ASSUME NEW c, Justified(c) PROVE Behind(c.status) \subseteq done' \cup Earned(c)
    BY <2>1, <1>4 DEF Justified
  <2>2. ASSUME NEW q \in Requests PROVE Behind(call'[q].status) \subseteq done' \cup Earned(call'[q])
    BY <2>1, <1>6, NoCallFacts DEF FlowInv, CallsStayJustified
  <2> QED BY <2>2 DEF CallsStayJustified, Justified
<1>9. WarehouseStagesHaveOneWriter'
  BY <1>6, NoCallFacts DEF FlowInv, WarehouseStagesHaveOneWriter
<1> QED BY <1>3, <1>4, <1>5, <1>7, <1>8, <1>9 DEF Commit

\* Requests that write no stage, or one with nothing behind it.
LEMMA EarlyCall ==
  ASSUME NEW op \in Ops \ {"receive", "complete", "reject_wh"},
         NEW s \in {Keep, "PendingAssign", "InProgress", "Cancelled"},
         NEW d \in Who \cup {Keep}, NEW h \in Who \cup {Keep}
  PROVE  /\ Call(op, s, d, h) \in Calls
         /\ Justified(Call(op, s, d, h))
         /\ WritesItsStage(Call(op, s, d, h))
<1>1. Call(op, s, d, h) \in Calls
  BY CallType DEF Statuses
<1>2. Call(op, s, d, h).op = op /\ Call(op, s, d, h).status = s
  BY DEF Call
<1>3. s \notin Statuses \/ s \in {"PendingAssign", "InProgress", "Cancelled"}
  BY TaskFlowAssumption
<1>4. Behind(s) = {}
  BY <1>3 DEF Behind, Statuses
<1>5. s \notin {"PendingProductionTransfer", "PendingClose", "RejectedByWarehouse"}
  BY <1>3 DEF Statuses
<1> QED BY <1>1, <1>2, <1>4, <1>5 DEF Justified, WritesItsStage

\* Every request begins with a justified decision.
LEMMA BeginWorkKeeps == ASSUME FlowInv, NEW r \in Requests, BeginWork(r) PROVE FlowInv'
<1> USE DEF Who, Users
<1>a. /\ TypeOK /\ Behind(status) \subseteq done
      /\ receipt \in {"received", "completed"} => "received" \in done
  BY DEF FlowInv, NoStageSkipped, ReceiptWasReceived
<1>1. ASSUME NEW u \in Clerks \cup Designers, NEW d \in Designers, BeginAssign(r, u, d)
      PROVE FlowInv'
  <2> DEFINE c == Call(IF Unclaimed THEN "assign_cas" ELSE "assign", "InProgress", d, d)
  <2>1. c \in Calls /\ Justified(c) /\ WritesItsStage(c)
    <3>1. (IF Unclaimed THEN "assign_cas" ELSE "assign") \in Ops \ {"receive", "complete", "reject_wh"}
      BY DEF Ops
    <3> QED BY <3>1, EarlyCall
  <2> QED BY <1>1, <2>1, BeginKeeps DEF BeginAssign
<1>2. ASSUME NEW u \in Clerks, NEW d \in Designers, BeginReassign(r, u, d) PROVE FlowInv'
  BY <1>2, BeginKeeps, EarlyCall DEF BeginReassign, Ops
<1>3. ASSUME NEW u \in Clerks, BeginClearAssignment(r, u) PROVE FlowInv'
  BY <1>3, BeginKeeps, EarlyCall DEF BeginClearAssignment, Ops
<1>4. ASSUME NEW u \in Designers, BeginPoolClaim(r, u) PROVE FlowInv'
  BY <1>4, BeginKeeps, EarlyCall DEF BeginPoolClaim, Ops
<1>5. ASSUME NEW u \in Designers \cup Clerks, BeginSubmitDesign(r, u) PROVE FlowInv'
  <2> DEFINE c == Call("submit", "PendingAuditA", Keep, Nobody)
  <2>1. c \in Calls /\ c.op = "submit" /\ c.status = "PendingAuditA"
    BY CallType DEF Call, Ops, Statuses
  <2>2. Justified(c) /\ WritesItsStage(c)
    BY <2>1 DEF Justified, WritesItsStage, Behind, Earned
  <2> QED BY <1>5, <2>1, <2>2, BeginKeeps DEF BeginSubmitDesign
<1>6. ASSUME NEW u \in Designers \cup Auditors \cup Clerks, NEW b \in BOOLEAN, BeginUpload(r, u, b)
      PROVE FlowInv'
  <2>1. CASE b
    <3> DEFINE c == Call("upload", "PendingAuditA", Keep, Nobody)
    <3>1. c \in Calls /\ c.op = "upload" /\ c.status = "PendingAuditA"
      BY CallType DEF Call, Ops, Statuses
    <3>2. Justified(c) /\ WritesItsStage(c)
      BY <3>1, TaskFlowAssumption DEF Justified, WritesItsStage, Behind, Earned, Statuses
    <3> QED BY <1>6, <2>1, <3>1, <3>2, BeginKeeps DEF BeginUpload
  <2>2. CASE ~b
    BY <1>6, <2>2, BeginKeeps, EarlyCall DEF BeginUpload, Ops
  <2> QED BY <2>1, <2>2
<1>7. ASSUME NEW u \in Auditors, BeginAuditClaim(r, u) PROVE FlowInv'
  BY <1>7, BeginKeeps, EarlyCall DEF BeginAuditClaim, Ops
<1>8. ASSUME NEW u \in Users, NEW s \in Statuses, BeginApprove(r, u, s) PROVE FlowInv'
  <2> DEFINE c == Call("approve", s, Keep, Nobody)
  <2>1. c \in Calls /\ c.op = "approve" /\ c.status = s
    BY CallType DEF Call, Ops
  <2>2. /\ status \in AuditStatuses
        /\ s \in {"PendingAuditB", "PendingWarehouseReceive", "PendingOutsource"}
    BY <1>8 DEF BeginApprove, AuditAllowed, ApproveTargets
  <2>3. "submitted" \in done
    BY <1>a, <2>2 DEF Behind, AuditStatuses
  <2>4. Justified(c) /\ WritesItsStage(c)
    BY <2>1, <2>2, <2>3 DEF Justified, WritesItsStage, Behind, Earned, Approval
  <2> QED BY <1>8, <2>1, <2>4, BeginKeeps DEF BeginApprove
<1>9. ASSUME NEW u \in Users, BeginReject(r, u) PROVE FlowInv'
  <2> DEFINE c == Call("reject", RejectedStatus(status), Keep, designer)
  <2>1. status \in AuditStatuses
    BY <1>9 DEF BeginReject, AuditAllowed
  <2>2. c \in Calls /\ c.op = "reject" /\ c.status = RejectedStatus(status)
    <3>1. RejectedStatus(status) \in Statuses /\ designer \in Who
      BY <1>a DEF Statuses, RejectedStatus, TypeOK
    <3> QED BY <3>1, CallType DEF Call, Ops
  <2>3. Behind(RejectedStatus(status)) = Behind(status)
    BY <2>1 DEF Behind, RejectedStatus, AuditStatuses
  <2>4. Justified(c) /\ WritesItsStage(c)
    BY <1>a, <2>2, <2>3 DEF Justified, WritesItsStage, RejectedStatus
  <2> QED BY <1>9, <2>2, <2>4, BeginKeeps DEF BeginReject
<1>10. ASSUME NEW u \in Auditors, NEW a \in Auditors, BeginTransfer(r, u, a) PROVE FlowInv'
  BY <1>10, BeginKeeps, EarlyCall DEF BeginTransfer, Ops
<1>11. ASSUME NEW u \in Auditors, NEW a \in Auditors, NEW h \in Handovers, BeginHandover(r, u, a, h)
       PROVE FlowInv'
  <2> DEFINE c == [Call("handover", Keep, Keep, Nobody) EXCEPT !.to = a, !.ho = h]
  <2>1. c \in Calls /\ c.op = "handover" /\ c.status = Keep
    BY DEF Call, Calls, Ops
  <2>2. Justified(c) /\ WritesItsStage(c)
    BY <2>1, TaskFlowAssumption DEF Justified, WritesItsStage, Behind, Statuses
  <2> QED BY <1>11, <2>1, <2>2, BeginKeeps DEF BeginHandover
<1>12. ASSUME NEW u \in Auditors, NEW h \in Handovers, BeginTakeover(r, u, h) PROVE FlowInv'
  <2> DEFINE c == [Call("takeover", Keep, Keep, u) EXCEPT !.ho = h]
  <2>1. c \in Calls /\ c.op = "takeover" /\ c.status = Keep
    BY DEF Call, Calls, Ops
  <2>2. Justified(c) /\ WritesItsStage(c)
    BY <2>1, TaskFlowAssumption DEF Justified, WritesItsStage, Behind, Statuses
  <2> QED BY <1>12, <2>1, <2>2, BeginKeeps DEF BeginTakeover
<1>13. ASSUME NEW u \in Users, BeginOutsource(r, u) PROVE FlowInv'
  <2> DEFINE c == Call("outsource", "Outsourcing", Keep, Keep)
  <2>1. c \in Calls /\ c.op = "outsource" /\ c.status = "Outsourcing"
    BY CallType DEF Call, Ops, Statuses
  <2>2. Justified(c) /\ WritesItsStage(c)
    BY <1>a, <1>13, <2>1 DEF BeginOutsource, Justified, WritesItsStage, Behind
  <2> QED BY <1>13, <2>1, <2>2, BeginKeeps DEF BeginOutsource
<1>14. ASSUME NEW u \in Keepers \cup Clerks, BeginReceive(r, u) PROVE FlowInv'
  <2> DEFINE c == [Call("receive", "PendingProductionTransfer", Keep, u)
                     EXCEPT !.fresh = (receipt = "none")]
  <2>1. c \in Calls /\ c.op = "receive" /\ c.status = "PendingProductionTransfer"
    BY DEF Call, Calls, Ops, Statuses
  <2>2. Justified(c) /\ WritesItsStage(c)
    BY <1>a, <1>14, <2>1 DEF BeginReceive, Justified, WritesItsStage, Behind, Earned
  <2> QED BY <1>14, <2>1, <2>2, BeginKeeps DEF BeginReceive
<1>15. ASSUME NEW u \in Keepers \cup Clerks, BeginWarehouseReject(r, u) PROVE FlowInv'
  <2> DEFINE c == [Call("reject_wh", "RejectedByWarehouse", Keep, designer)
                     EXCEPT !.fresh = (receipt = "none")]
  <2>1. c \in Calls /\ c.op = "reject_wh" /\ c.status = "RejectedByWarehouse"
    BY <1>a DEF Call, Calls, Ops, Statuses, TypeOK
  <2>2. Justified(c) /\ WritesItsStage(c)
    BY <1>a, <1>15, <2>1 DEF BeginWarehouseReject, Justified, WritesItsStage, Behind
  <2> QED BY <1>15, <2>1, <2>2, BeginKeeps DEF BeginWarehouseReject
<1>16. ASSUME NEW u \in Keepers \cup Clerks, BeginComplete(r, u) PROVE FlowInv'
  <2> DEFINE c == Call("complete", "PendingClose", Keep, Nobody)
  <2>1. c \in Calls /\ c.op = "complete" /\ c.status = "PendingClose"
    BY CallType DEF Call, Ops, Statuses
  <2>2. {"submitted", "approved", "received"} \subseteq done
    BY <1>a, <1>16 DEF BeginComplete, Behind
  <2>3. Justified(c) /\ WritesItsStage(c)
    BY <2>1, <2>2 DEF Justified, WritesItsStage, Behind, Earned
  <2> QED BY <1>16, <2>1, <2>3, BeginKeeps DEF BeginComplete
<1>17. ASSUME NEW u \in Users, BeginClose(r, u) PROVE FlowInv'
  <2> DEFINE c == Call("close", "Completed", Keep, Nobody)
  <2>1. c \in Calls /\ c.op = "close" /\ c.status = "Completed"
    BY CallType DEF Call, Ops, Statuses
  <2>2. Justified(c) /\ WritesItsStage(c)
    BY <1>a, <1>17, <2>1 DEF BeginClose, Justified, WritesItsStage, Behind, Earned
  <2> QED BY <1>17, <2>1, <2>2, BeginKeeps DEF BeginClose
<1> QED
  BY <1>1, <1>2, <1>3, <1>4, <1>5, <1>6, <1>7, <1>8, <1>9, <1>10, <1>11, <1>12, <1>13, <1>14,
     <1>15, <1>16, <1>17 DEF BeginWork

\* A commit that leaves the receipt alone keeps the receipt facts: none of
\* these requests writes a stage that depends on the receipt.
LEMMA CommitKeepsReceipt ==
  ASSUME FlowInv, NEW r \in Requests,
         NEW op \in Ops \ {"receive", "complete", "reject_wh"}, Commit(r, op), receipt' = receipt
  PROVE  ReceiptWasReceived' /\ ReceiptAgreesWithStatus'
<1>1. done \subseteq done'
  BY CommitKeeps
<1>2. status' = status
        \/ status' \notin {"PendingProductionTransfer", "PendingClose", "RejectedByWarehouse"}
  BY DEF Commit, WriteTask, FlowInv, WarehouseStagesHaveOneWriter, WritesItsStage
<1> QED BY <1>1, <1>2 DEF FlowInv, ReceiptWasReceived, ReceiptAgreesWithStatus

\* Every request ends as it was justified.
LEMMA CommitWorkKeeps ==
  ASSUME FlowInv, NEW r \in Requests, CommitWork(r) \/ CommitCancel(r)
  PROVE  FlowInv'
<1> DEFINE Rest == /\ designModule' \in {"pending_claim", "in_progress", "submitted", "closed"}
                   /\ review' \in {"none", "pending_review", "approved", "rejected"}
                   /\ receipt' \in {"none", "received", "rejected", "completed"}
                   /\ handover' \in [Handovers -> [to : Who, state : HandoverStates]]
<1>a. TypeOK
  BY DEF FlowInv
<1>b. ASSUME NEW op, Commit(r, op), Rest, ReceiptWasReceived', ReceiptAgreesWithStatus'
      PROVE  FlowInv'
  <2>1. TypeOK'
    BY <1>a, <1>b, CommitKeeps DEF TypeOK
  <2> QED BY <2>1, <1>b, CommitKeeps DEF FlowInv
<1>c. ASSUME NEW op \in Ops \ {"receive", "complete", "reject_wh"}, Commit(r, op), Rest,
             receipt' = receipt
      PROVE  FlowInv'
  BY <1>b, <1>c, CommitKeepsReceipt
<1>1. CASE CommitAssignCAS(r) \/ CommitAssign(r)
  <2>1. Rest /\ receipt' = receipt
    BY <1>1, <1>a DEF TypeOK, CommitAssignCAS, CommitAssign, SyncAssignmentModule
  <2>2. Commit(r, "assign_cas") \/ Commit(r, "assign")
    BY <1>1 DEF CommitAssignCAS, CommitAssign
  <2>3. {"assign_cas", "assign"} \subseteq Ops \ {"receive", "complete", "reject_wh"}
    BY DEF Ops
  <2> HIDE DEF Rest
  <2> QED BY <1>c, <2>1, <2>2, <2>3
<1>2. CASE CommitClearAssignment(r) \/ CommitPoolClaim(r) \/ CommitCancel(r)
  <2>1. Rest /\ receipt' = receipt
    BY <1>2, <1>a DEF TypeOK, CommitClearAssignment, CommitPoolClaim, CommitCancel
  <2>2. Commit(r, "clear") \/ Commit(r, "pool_claim") \/ Commit(r, "cancel")
    BY <1>2 DEF CommitClearAssignment, CommitPoolClaim, CommitCancel
  <2>3. {"clear", "pool_claim", "cancel"} \subseteq Ops \ {"receive", "complete", "reject_wh"}
    BY DEF Ops
  <2> HIDE DEF Rest
  <2> QED BY <1>c, <2>1, <2>2, <2>3
<1>3. CASE CommitSubmitDesign(r) \/ CommitUpload(r)
  <2>1. Rest /\ receipt' = receipt
    BY <1>3, <1>a DEF TypeOK, CommitSubmitDesign, CommitUpload
  <2>2. Commit(r, "submit") \/ Commit(r, "upload")
    BY <1>3 DEF CommitSubmitDesign, CommitUpload
  <2>3. {"submit", "upload"} \subseteq Ops \ {"receive", "complete", "reject_wh"}
    BY DEF Ops
  <2> HIDE DEF Rest
  <2> QED BY <1>c, <2>1, <2>2, <2>3
<1>4. CASE CommitAuditClaim(r) \/ CommitTransfer(r) \/ CommitOutsource(r) \/ CommitClose(r)
  <2>1. Rest /\ receipt' = receipt
    BY <1>4, <1>a DEF TypeOK, CommitAuditClaim, CommitTransfer, CommitOutsource, CommitClose
  <2>2. \E op \in {"claim", "transfer", "outsource", "close"} : Commit(r, op)
    BY <1>4 DEF CommitAuditClaim, CommitTransfer, CommitOutsource, CommitClose
  <2>3. {"claim", "transfer", "outsource", "close"} \subseteq Ops \ {"receive", "complete", "reject_wh"}
    BY DEF Ops
  <2> HIDE DEF Rest
  <2> QED BY <1>c, <2>1, <2>2, <2>3
<1>5. CASE CommitApprove(r) \/ CommitReject(r)
  <2>1. Rest /\ receipt' = receipt
    BY <1>5, <1>a DEF TypeOK, CommitApprove, CommitReject
  <2>2. Commit(r, "approve") \/ Commit(r, "reject")
    BY <1>5 DEF CommitApprove, CommitReject
  <2>3. {"approve", "reject"} \subseteq Ops \ {"receive", "complete", "reject_wh"}
    BY DEF Ops
  <2> HIDE DEF Rest
  <2> QED BY <1>c, <2>1, <2>2, <2>3
<1>6. CASE CommitHandover(r) \/ CommitTakeover(r)
  <2>1. handover' \in [Handovers -> [to : Who, state : HandoverStates]]
    <3>1. call[r].to \in Who
      BY <1>a DEF TypeOK, Calls
    <3>2. handover \in [Handovers -> [to : Who, state : HandoverStates]]
      BY <1>a DEF TypeOK
    <3>3. CASE CommitHandover(r)
      BY <3>1, <3>2, <3>3 DEF CommitHandover, HandoverStates
    <3>4. CASE CommitTakeover(r)
      BY <3>2, <3>4 DEF CommitTakeover, HandoverStates
    <3> QED BY <1>6, <3>3, <3>4
  <2>2. Rest /\ receipt' = receipt
    BY <1>6, <1>a, <2>1 DEF TypeOK, CommitHandover, CommitTakeover
  <2>3. Commit(r, "handover") \/ Commit(r, "takeover")
    BY <1>6 DEF CommitHandover, CommitTakeover
  <2>4. {"handover", "takeover"} \subseteq Ops \ {"receive", "complete", "reject_wh"}
    BY DEF Ops
  <2> HIDE DEF Rest
  <2> QED BY <1>c, <2>2, <2>3, <2>4
<1>7. CASE CommitReceive(r)
  <2>1. Rest /\ Commit(r, "receive") /\ receipt' = "received"
    BY <1>7, <1>a DEF TypeOK, CommitReceive
  <2>2. status' = "PendingProductionTransfer" /\ "received" \in done'
    BY <2>1, TaskFlowAssumption
       DEF Commit, WriteTask, Earned, FlowInv, WarehouseStagesHaveOneWriter, WritesItsStage, Statuses
  <2>3. ReceiptWasReceived' /\ ReceiptAgreesWithStatus'
    BY <2>1, <2>2 DEF ReceiptWasReceived, ReceiptAgreesWithStatus
  <2> HIDE DEF Rest
  <2> QED BY <1>b, <2>1, <2>3
<1>8. CASE CommitWarehouseReject(r)
  <2>1. Rest /\ Commit(r, "reject_wh") /\ receipt' = "rejected"
    BY <1>8, <1>a DEF TypeOK, CommitWarehouseReject
  <2>2. status' = "RejectedByWarehouse"
    BY <2>1, TaskFlowAssumption
       DEF Commit, WriteTask, FlowInv, WarehouseStagesHaveOneWriter, WritesItsStage, Statuses
  <2>3. ReceiptWasReceived' /\ ReceiptAgreesWithStatus'
    BY <2>1, <2>2 DEF ReceiptWasReceived, ReceiptAgreesWithStatus
  <2> HIDE DEF Rest
  <2> QED BY <1>b, <2>1, <2>3
<1>9. CASE CommitComplete(r)
  <2>1. Rest /\ Commit(r, "complete") /\ receipt' = "completed"
    BY <1>9, <1>a DEF TypeOK, CommitComplete
  <2>2. status' = "PendingClose"
    BY <2>1, TaskFlowAssumption
       DEF Commit, WriteTask, FlowInv, WarehouseStagesHaveOneWriter, WritesItsStage, Statuses
  <2>3. "received" \in done'
    BY <2>1, <2>2, CommitKeeps DEF NoStageSkipped, Behind
  <2>4. ReceiptWasReceived' /\ ReceiptAgreesWithStatus'
    BY <2>1, <2>2, <2>3 DEF ReceiptWasReceived, ReceiptAgreesWithStatus
  <2> HIDE DEF Rest
  <2> QED BY <1>b, <2>1, <2>4
<1> QED
  BY <1>1, <1>2, <1>3, <1>4, <1>5, <1>6, <1>7, <1>8, <1>9 DEF CommitWork

\* The release job compares and sets, so it moves on the status it finds.
LEMMA ReleaseKeeps == ASSUME FlowInv, ReleaseOne PROVE FlowInv'
<1>1. TypeOK /\ Behind(status) \subseteq done
  BY DEF FlowInv, NoStageSkipped
<1>2. status' = "Completed" /\ call' = call /\ done \subseteq done' /\ done' \subseteq Milestones
  BY <1>1 DEF ReleaseOne, TypeOK, Milestones
<1>3. receipt' \in {"none", "received", "rejected", "completed"}
  BY <1>1 DEF ReleaseOne, TypeOK
<1>4. TypeOK'
  BY <1>1, <1>2, <1>3 DEF ReleaseOne, TypeOK, Statuses, IdleJob
<1>5. {"submitted", "approved", "received", "warehoused", "closed"} \subseteq done'
  <2>1. CASE status = "PendingWarehouseReceive"
    BY <1>1, <2>1 DEF ReleaseOne, Behind
  <2>2. CASE status = "PendingProductionTransfer"
    BY <1>1, <2>2 DEF ReleaseOne, Behind
  <2>3. CASE status = "PendingClose"
    BY <1>1, <2>3 DEF ReleaseOne, Behind
  <2> QED BY <2>1, <2>2, <2>3 DEF ReleaseOne
<1>6. NoStageSkipped'
  BY <1>2, <1>5 DEF NoStageSkipped, Behind
<1>7. CallsStayJustified'
  BY <1>2 DEF FlowInv, CallsStayJustified, Justified
<1>8. ReceiptWasReceived' /\ ReceiptAgreesWithStatus'
  BY <1>2, <1>5 DEF ReceiptWasReceived, ReceiptAgreesWithStatus
<1>9. WarehouseStagesHaveOneWriter'
  BY <1>2 DEF FlowInv, WarehouseStagesHaveOneWriter
<1> QED BY <1>4, <1>6, <1>7, <1>8, <1>9 DEF FlowInv

\* Steps that change neither the milestones, the receipt nor the calls.
LEMMA QuietStepKeeps ==
  ASSUME FlowInv, TypeOK', UNCHANGED <<done, receipt, call>>,
         status' = status \/ status' = "Archived"
  PROVE  FlowInv'
<1>1. NoStageSkipped'
  BY DEF FlowInv, NoStageSkipped, Behind
<1>2. CallsStayJustified' /\ WarehouseStagesHaveOneWriter'
  BY DEF FlowInv, CallsStayJustified, Justified, WarehouseStagesHaveOneWriter
<1>3. ReceiptWasReceived' /\ ReceiptAgreesWithStatus'
  BY DEF FlowInv, ReceiptWasReceived, ReceiptAgreesWithStatus
<1> QED BY <1>1, <1>2, <1>3 DEF FlowInv

\* The freshly created task satisfies the invariant.
LEMMA FlowInvInit == Init => FlowInv
<1> SUFFICES ASSUME Init PROVE FlowInv
  OBVIOUS
<1>1. TypeOK
  BY NoCallFacts DEF Init, TypeOK, Statuses, Who, Users, HandoverStates, IdleJob
<1>2. NoStageSkipped
  BY DEF Init, NoStageSkipped, Behind
<1>3. CallsStayJustified /\ WarehouseStagesHaveOneWriter
  BY NoCallFacts DEF Init, CallsStayJustified, WarehouseStagesHaveOneWriter
<1>4. ReceiptWasReceived /\ ReceiptAgreesWithStatus
  BY DEF Init, ReceiptWasReceived, ReceiptAgreesWithStatus
<1> QED BY <1>1, <1>2, <1>3, <1>4 DEF FlowInv

\* Every step of a request, a job or the filing keeps it.
LEMMA FlowInvNext == FlowInv /\ [Next]_vars => FlowInv'
<1> SUFFICES ASSUME FlowInv, [Next]_vars PROVE FlowInv'
  OBVIOUS
<1>a. TypeOK
  BY DEF FlowInv
<1>1. ASSUME NEW r \in Requests, BeginWork(r) PROVE FlowInv'
  BY <1>1, BeginWorkKeeps
<1>2. ASSUME NEW r \in Requests, CommitWork(r) \/ CommitCancel(r) PROVE FlowInv'
  BY <1>2, CommitWorkKeeps
<1>3. ASSUME NEW r \in Requests, BeginCancel(r) PROVE FlowInv'
  BY <1>3, BeginKeeps, EarlyCall DEF BeginCancel, Ops
<1>4. ASSUME NEW r \in Requests, RequestFails(r) PROVE FlowInv'
  <2>1. call' = [call EXCEPT ![r] = NoCall] /\ UNCHANGED <<taskVars, job>>
    BY <1>4 DEF RequestFails
  <2>2. \A q \in Requests : call'[q] = NoCall \/ call'[q] = call[q]
    BY <1>a, <2>1 DEF TypeOK
  <2>3. TypeOK'
    BY <1>a, <2>1, NoCallFacts DEF TypeOK, taskVars
  <2>4. CallsStayJustified'
    BY <2>1, <2>2, NoCallFacts DEF FlowInv, CallsStayJustified, Justified, taskVars
  <2>5. WarehouseStagesHaveOneWriter'
    BY <2>2, NoCallFacts DEF FlowInv, WarehouseStagesHaveOneWriter
  <2>6. NoStageSkipped' /\ ReceiptWasReceived' /\ ReceiptAgreesWithStatus'
    BY <2>1 DEF FlowInv, NoStageSkipped, ReceiptWasReceived, ReceiptAgreesWithStatus, taskVars
  <2> QED BY <2>3, <2>4, <2>5, <2>6 DEF FlowInv
<1>5. CASE TriggerFiling
  <2>1. TypeOK'
    BY <1>5, <1>a DEF TriggerFiling, TypeOK
  <2> QED BY <1>5, <2>1, QuietStepKeeps DEF TriggerFiling
<1>6. CASE ArchiveTasks
  <2>1. TypeOK'
    BY <1>6, <1>a DEF ArchiveTasks, TypeOK, Statuses
  <2> QED BY <1>6, <2>1, QuietStepKeeps DEF ArchiveTasks
<1>7. CASE ListCandidates \/ LoadTask \/ SkipTask
  <2>1. TypeOK'
    BY <1>7, <1>a DEF ListCandidates, LoadTask, SkipTask, TypeOK, taskVars, IdleJob
  <2> QED BY <1>7, <2>1, QuietStepKeeps DEF ListCandidates, LoadTask, SkipTask, taskVars
<1>8. CASE ReleaseOne
  BY <1>8, ReleaseKeeps
<1>9. CASE UNCHANGED vars
  <2>1. TypeOK'
    BY <1>9, <1>a DEF vars, taskVars, TypeOK
  <2> QED BY <1>9, <2>1, QuietStepKeeps DEF vars, taskVars
<1> QED
  BY <1>1, <1>2, <1>3, <1>4, <1>5, <1>6, <1>7, <1>8, <1>9 DEF Next, Job

\* The conjunction the theorems below draw on holds for ever.
THEOREM FlowInvariant == Spec => []FlowInv
BY FlowInvInit, FlowInvNext, PTL DEF Spec

\* Type correctness: columns, requests in flight and the job keep the values
\* the code can give them.
THEOREM TypeCorrect == Spec => []TypeOK
<1>1. FlowInv => TypeOK
  BY DEF FlowInv
<1> QED BY <1>1, FlowInvariant, PTL

\* Whatever the number of concurrent requests, their unconditional UPDATEs
\* never put a task into a stage whose preceding stages have not happened.
THEOREM StagesNeverSkipped == Spec => []NoStageSkipped
<1>1. FlowInv => NoStageSkipped
  BY DEF FlowInv
<1> QED BY <1>1, FlowInvariant, PTL

\* The receipt and the task row never disagree on the warehouse stages.
THEOREM ReceiptAlwaysAgrees == Spec => []ReceiptAgreesWithStatus
<1>1. FlowInv => ReceiptAgreesWithStatus
  BY DEF FlowInv
<1> QED BY <1>1, FlowInvariant, PTL

-----------------------------------------------------------------------------
(* Claims *)

\* What a request may decide on without endangering a claim.
ClaimFit(c) ==
  /\ c.designer # Keep => c.op \in {"assign_cas", "assign", "clear", "pool_claim"}
  /\ c.op = "clear" => c.designer = Nobody
  /\ c.op = "pool_claim" /\ designer # Nobody => c.designer = Keep

\* NoCall writes no designer.
LEMMA NoCallClaims == NoCall.op = "none" /\ NoCall.designer = Keep
BY DEF NoCall, Call

\* A Begin step that decides on a fit call keeps the claim facts.
LEMMA BeginKeepsClaims ==
  ASSUME TypeOK, ClaimInv, NEW r \in Requests, NEW c, Begin(r, c), ClaimFit(c)
  PROVE  ClaimInv' /\ designer' = designer
<1>1. call' = [call EXCEPT ![r] = c] /\ UNCHANGED <<designer, designModule>>
  BY DEF Begin, taskVars
<1>2. \A q \in Requests : call'[q] = c \/ call'[q] = call[q]
  BY <1>1 DEF TypeOK
<1> QED BY <1>1, <1>2 DEF ClaimInv, DesignerHasFewWriters, PoolClaimsAreFirst, ClaimFit

\* Every request begins fit.
LEMMA BeginWorkFit ==
  ASSUME TypeOK, NEW r \in Requests, BeginWork(r) \/ BeginCancel(r)
  PROVE  \E c : Begin(r, c) /\ ClaimFit(c)
<1>a. ASSUME NEW op, NEW s, NEW h, op # "clear", Begin(r, Call(op, s, Keep, h))
      PROVE  \E c : Begin(r, c) /\ ClaimFit(c)
  <2>1. ClaimFit(Call(op, s, Keep, h))
    BY <1>a DEF ClaimFit, Call
  <2> QED BY <1>a, <2>1
<1>1. ASSUME NEW u, NEW d, BeginAssign(r, u, d) \/ BeginReassign(r, u, d)
      PROVE  \E c : Begin(r, c) /\ ClaimFit(c)
  <2>1. PICK op, s : op \in {"assign_cas", "assign"} /\ Begin(r, Call(op, s, d, d))
    BY <1>1 DEF BeginAssign, BeginReassign
  <2>2. ClaimFit(Call(op, s, d, d))
    BY <2>1 DEF ClaimFit, Call
  <2> QED BY <2>1, <2>2
<1>2. ASSUME NEW u, BeginClearAssignment(r, u) PROVE \E c : Begin(r, c) /\ ClaimFit(c)
  <2>1. PICK s : Begin(r, Call("clear", s, Nobody, Nobody))
    BY <1>2 DEF BeginClearAssignment
  <2>2. ClaimFit(Call("clear", s, Nobody, Nobody))
    BY DEF ClaimFit, Call
  <2> QED BY <2>1, <2>2
<1>3. ASSUME NEW u, BeginPoolClaim(r, u) PROVE \E c : Begin(r, c) /\ ClaimFit(c)
  <2>1. PICK s, h : Begin(r, Call("pool_claim", s, IF designer = Nobody THEN u ELSE Keep, h))
    BY <1>3 DEF BeginPoolClaim
  <2>2. ClaimFit(Call("pool_claim", s, IF designer = Nobody THEN u ELSE Keep, h))
    BY DEF ClaimFit, Call
  <2> QED BY <2>1, <2>2
<1>4. ASSUME NEW u, NEW b,
             \/ BeginSubmitDesign(r, u) \/ BeginUpload(r, u, b) \/ BeginAuditClaim(r, u)
             \/ BeginTransfer(r, u, b) \/ BeginOutsource(r, u) \/ BeginComplete(r, u)
             \/ BeginClose(r, u) \/ BeginCancel(r) \/ BeginApprove(r, u, b) \/ BeginReject(r, u)
      PROVE  \E c : Begin(r, c) /\ ClaimFit(c)
  <2>1. \E op, s, h : op # "clear" /\ Begin(r, Call(op, s, Keep, h))
    BY <1>4 DEF BeginSubmitDesign, BeginUpload, BeginAuditClaim, BeginTransfer, BeginOutsource,
                BeginComplete, BeginClose, BeginCancel, BeginApprove, BeginReject
  <2> QED BY <2>1, <1>a
<1>5. ASSUME NEW u, NEW a, NEW h, BeginHandover(r, u, a, h) PROVE \E c : Begin(r, c) /\ ClaimFit(c)
  <2>1. ClaimFit([Call("handover", Keep, Keep, Nobody) EXCEPT !.to = a, !.ho = h])
    BY DEF ClaimFit, Call
  <2> QED BY <1>5, <2>1 DEF BeginHandover
<1>6. ASSUME NEW u, NEW h, BeginTakeover(r, u, h) PROVE \E c : Begin(r, c) /\ ClaimFit(c)
  <2>1. ClaimFit([Call("takeover", Keep, Keep, u) EXCEPT !.ho = h])
    BY DEF ClaimFit, Call
  <2> QED BY <1>6, <2>1 DEF BeginTakeover
<1>7. ASSUME NEW u, BeginReceive(r, u) PROVE \E c : Begin(r, c) /\ ClaimFit(c)
  <2>1. ClaimFit([Call("receive", "PendingProductionTransfer", Keep, u)
                    EXCEPT !.fresh = (receipt = "none")])
    BY DEF ClaimFit, Call
  <2> QED BY <1>7, <2>1 DEF BeginReceive
<1>8. ASSUME NEW u, BeginWarehouseReject(r, u) PROVE \E c : Begin(r, c) /\ ClaimFit(c)
  <2>1. ClaimFit([Call("reject_wh", "RejectedByWarehouse", Keep, designer)
                    EXCEPT !.fresh = (receipt = "none")])
    BY DEF ClaimFit, Call
  <2> QED BY <1>8, <2>1 DEF BeginWarehouseReject
<1> QED
  BY <1>1, <1>2, <1>3, <1>4, <1>5, <1>6, <1>7, <1>8 DEF BeginWork

\* What a step may do to the designer.
DesignerStep ==
  (designer # Nobody /\ designer' \notin {designer, Nobody})
    => \E r \in Requests : call[r].op = "assign" /\ call'[r].op = "none"

\* The second halves: the module's compare-and-set is what stops a late claim.
LEMMA CommitKeepsClaims ==
  ASSUME TypeOK, ClaimInv, NEW r \in Requests, CommitWork(r) \/ CommitCancel(r)
  PROVE  ClaimInv' /\ DesignerStep
<1>1. PICK op : Commit(r, op)
  BY DEF CommitWork, CommitCancel, CommitAssignCAS, CommitAssign, CommitClearAssignment,
         CommitPoolClaim, CommitSubmitDesign, CommitUpload, CommitAuditClaim, CommitApprove,
         CommitReject, CommitTransfer, CommitHandover, CommitTakeover, CommitOutsource,
         CommitReceive, CommitWarehouseReject, CommitComplete, CommitClose
<1>2. call' = [call EXCEPT ![r] = NoCall]
  BY <1>1 DEF Commit
<1>3. /\ \A q \in Requests : call'[q] = NoCall \/ call'[q] = call[q]
      /\ call'[r] = NoCall
  BY <1>2 DEF TypeOK
<1>4. DesignerHasFewWriters'
  BY <1>3, NoCallClaims DEF ClaimInv, DesignerHasFewWriters
<1>5. designer' = IF call[r].designer = Keep THEN designer ELSE call[r].designer
  BY <1>1 DEF Commit, WriteTask
<1>6. CASE CommitAssignCAS(r) \/ CommitAssign(r)
  <2>1. designModule' # "pending_claim"
    BY <1>6 DEF CommitAssignCAS, CommitAssign, SyncAssignmentModule
  <2>2. DesignerStep
    <3>1. CASE CommitAssignCAS(r)
      BY <3>1 DEF CommitAssignCAS, Unclaimed, DesignerStep
    <3>2. CASE CommitAssign(r)
      BY <3>2, <1>3, NoCallClaims DEF CommitAssign, Commit, DesignerStep
    <3> QED BY <1>6, <3>1, <3>2
  <2> QED BY <1>4, <2>1, <2>2 DEF ClaimInv, PoolClaimsAreFirst
<1>7. CASE CommitClearAssignment(r)
  <2>1. designer' = Nobody
    BY <1>5, <1>7, TaskFlowAssumption DEF CommitClearAssignment, Commit, ClaimInv, DesignerHasFewWriters
  <2> QED BY <1>4, <2>1 DEF ClaimInv, PoolClaimsAreFirst, DesignerStep
<1>8. CASE CommitPoolClaim(r)
  <2>1. designModule = "pending_claim" /\ designModule' = "in_progress" /\ call[r].op = "pool_claim"
    BY <1>8 DEF CommitPoolClaim, Commit
  <2>2. designer # Nobody => designer' = designer
    BY <1>5, <2>1 DEF ClaimInv, PoolClaimsAreFirst
  <2> QED BY <1>4, <2>1, <2>2 DEF ClaimInv, PoolClaimsAreFirst, DesignerStep
<1>9. ASSUME call[r].op \notin {"assign_cas", "assign", "clear", "pool_claim"},
             designModule' \in {designModule, "submitted", "closed"}
      PROVE  ClaimInv' /\ DesignerStep
  <2>1. designer' = designer
    BY <1>5, <1>9 DEF ClaimInv, DesignerHasFewWriters
  <2>2. PoolClaimsAreFirst'
    BY <1>3, <1>9, <2>1, NoCallClaims DEF ClaimInv, PoolClaimsAreFirst
  <2> QED BY <1>4, <2>1, <2>2 DEF ClaimInv, DesignerStep
<1>10. CASE CommitSubmitDesign(r) \/ CommitUpload(r) \/ CommitCancel(r)
  BY <1>9, <1>10 DEF CommitSubmitDesign, CommitUpload, CommitCancel, Commit
<1>11. CASE \/ CommitAuditClaim(r) \/ CommitApprove(r) \/ CommitReject(r) \/ CommitTransfer(r)
            \/ CommitHandover(r) \/ CommitTakeover(r) \/ CommitOutsource(r) \/ CommitReceive(r)
            \/ CommitWarehouseReject(r) \/ CommitComplete(r) \/ CommitClose(r)
  BY <1>9, <1>11 DEF CommitAuditClaim, CommitApprove, CommitReject, CommitTransfer, CommitHandover,
                     CommitTakeover, CommitOutsource, CommitReceive, CommitWarehouseReject,
                     CommitComplete, CommitClose, Commit
<1> QED BY <1>6, <1>7, <1>8, <1>10, <1>11 DEF CommitWork

\* Every step keeps the claim facts and respects the designer.
LEMMA ClaimNext == TypeOK /\ ClaimInv /\ [Next]_vars => ClaimInv' /\ DesignerStep
<1> SUFFICES ASSUME TypeOK, ClaimInv, [Next]_vars PROVE ClaimInv' /\ DesignerStep
  OBVIOUS
<1>1. ASSUME NEW r \in Requests, BeginWork(r) \/ BeginCancel(r) PROVE ClaimInv' /\ DesignerStep
  <2>1. PICK c : Begin(r, c) /\ ClaimFit(c)
    BY <1>1, BeginWorkFit
  <2> QED BY <2>1, BeginKeepsClaims DEF DesignerStep
<1>2. ASSUME NEW r \in Requests, CommitWork(r) \/ CommitCancel(r) PROVE ClaimInv' /\ DesignerStep
  BY <1>2, CommitKeepsClaims
<1>3. ASSUME NEW r \in Requests, RequestFails(r) PROVE ClaimInv' /\ DesignerStep
  <2>1. /\ \A q \in Requests : call'[q] = NoCall \/ call'[q] = call[q]
        /\ UNCHANGED <<designer, designModule>>
    BY <1>3 DEF RequestFails, TypeOK, taskVars
  <2> QED BY <2>1, NoCallClaims
         DEF ClaimInv, DesignerHasFewWriters, PoolClaimsAreFirst, DesignerStep
<1>4. CASE TriggerFiling \/ ArchiveTasks \/ Job \/ UNCHANGED vars
  <2>1. UNCHANGED <<designer, designModule, call>>
    BY <1>4 DEF TriggerFiling, ArchiveTasks, Job, ListCandidates, LoadTask, ReleaseOne, SkipTask,
                vars, taskVars
  <2> QED BY <2>1 DEF ClaimInv, DesignerHasFewWriters, PoolClaimsAreFirst, DesignerStep
<1> QED BY <1>1, <1>2, <1>3, <1>4 DEF Next

\* However pool claims, self-assignments, assignments and unassignments race, a
\* claim never takes a task from the designer who has it.
THEOREM ClaimsNeverSteal == Spec => ClaimsDoNotSteal
<1>1. Init => ClaimInv
  BY NoCallClaims DEF Init, ClaimInv, DesignerHasFewWriters, PoolClaimsAreFirst
<1>2. TypeOK /\ ClaimInv /\ [Next]_vars => ClaimInv' /\ [DesignerStep]_vars
  BY ClaimNext
<1>3. ClaimsDoNotSteal <=> [][DesignerStep]_vars
  BY DEF ClaimsDoNotSteal, DesignerStep
<1> QED BY <1>1, <1>2, <1>3, TypeCorrect, PTL DEF Spec

-----------------------------------------------------------------------------
(* Overlapping requests: what holds although commits do not look again.     *)

\* What a request may decide on without spoiling the history of the task.
StoryFit(c) ==
  /\ c.op = "approve" => c.status \in {"PendingAuditB", "PendingOutsource", "PendingWarehouseReceive"}
  /\ c.op = "close" => c.status = "Completed"
  /\ "submitted" \notin done =>
       c.handler \in Designers \cup {Nobody, Keep} /\ c.op \notin {"handover", "takeover"}

\* A request on a final task does not mean to take it back.
SettledFit(c) == status \in FinalStatuses => c.status \in FinalStatuses \cup {Keep}

\* Both properties about milestones, with what the requests in flight know.
StoryInv ==
  /\ HistoryIsOrdered
  /\ AuditFollowsSubmission
  /\ \A r \in Requests : StoryFit(call[r])

\* A request that decides on nothing spoils nothing.
LEMMA NoCallStory == StoryFit(NoCall) /\ NoCall.status = Keep
BY DEF StoryFit, NoCall, Call

\* The stages from the audit on have the submission behind them.
LEMMA SubmittedBehind ==
  ASSUME FlowInv,
         status \in AuditStatuses \cup {"PendingOutsource", "PendingWarehouseReceive",
                                        "PendingProductionTransfer", "PendingClose"}
  PROVE  "submitted" \in done
BY DEF FlowInv, NoStageSkipped, Behind, AuditStatuses

\* A call that is neither an approval nor a close, and gives the task to a designer
\* or to nobody unless it has been submitted.
LEMMA PlainStory ==
  ASSUME NEW r \in Requests, NEW c, Begin(r, c),
         c.op \notin {"approve", "close"},
         \/ "submitted" \in done
         \/ c.handler \in Designers \cup {Nobody, Keep} /\ c.op \notin {"handover", "takeover"},
         status \notin FinalStatuses \/ c.status \in FinalStatuses \cup {Keep}
  PROVE  \E cc : Begin(r, cc) /\ StoryFit(cc) /\ SettledFit(cc)
BY DEF StoryFit, SettledFit

\* Every request begins with a decision that fits the story.
LEMMA BeginStory ==
  ASSUME FlowInv, NEW r \in Requests, BeginWork(r) \/ BeginCancel(r)
  PROVE  \E c : Begin(r, c) /\ StoryFit(c) /\ SettledFit(c)
<1> DEFINE Goal == \E c : Begin(r, c) /\ StoryFit(c) /\ SettledFit(c)
<1>1. ASSUME NEW u, NEW d \in Designers, BeginAssign(r, u, d) \/ BeginReassign(r, u, d) PROVE Goal
  <2>1. PICK op \in {"assign_cas", "assign"}, s \in {"InProgress", Keep} :
          Begin(r, Call(op, s, d, d)) /\ status \in {"PendingAssign", "InProgress"}
    <3>1. CASE BeginAssign(r, u, d)
      BY <3>1 DEF BeginAssign
    <3>2. CASE BeginReassign(r, u, d)
      BY <3>2 DEF BeginReassign
    <3> QED BY <1>1, <3>1, <3>2
  <2> DEFINE c == Call(op, s, d, d)
  <2>2. c.op = op /\ c.status = s /\ c.handler = d
    BY DEF Call
  <2>3. Begin(r, c)
    BY <2>1
  <2> HIDE DEF c
  <2> QED BY <2>1, <2>2, <2>3, PlainStory DEF FinalStatuses
<1>2. ASSUME NEW u, BeginClearAssignment(r, u) PROVE Goal
  <2>1. PICK s \in {"PendingAssign", Keep} :
          Begin(r, Call("clear", s, Nobody, Nobody)) /\ status \in {"PendingAssign", "InProgress"}
    BY <1>2 DEF BeginClearAssignment
  <2> DEFINE c == Call("clear", s, Nobody, Nobody)
  <2>2. c.op = "clear" /\ c.handler = Nobody
    BY DEF Call
  <2>3. Begin(r, c)
    BY <2>1
  <2> HIDE DEF c
  <2> QED BY <2>1, <2>2, <2>3, PlainStory DEF FinalStatuses
<1>3. ASSUME NEW d \in Designers, BeginPoolClaim(r, d) PROVE Goal
  <2>1. PICK s, x, y : /\ Begin(r, Call("pool_claim", s, x, y))
                       /\ y \in {d, Keep}
                       /\ s = Keep \/ status = "PendingAssign"
    BY <1>3 DEF BeginPoolClaim
  <2> DEFINE c == Call("pool_claim", s, x, y)
  <2>2. c.op = "pool_claim" /\ c.status = s /\ c.handler = y
    BY DEF Call
  <2>3. Begin(r, c)
    BY <2>1
  <2> HIDE DEF c
  <2> QED BY <2>1, <2>2, <2>3, PlainStory DEF FinalStatuses
<1>4. ASSUME NEW u, NEW b, BeginSubmitDesign(r, u) \/ BeginUpload(r, u, b) PROVE Goal
  <2>1. PICK op, s, h :
          /\ op \in {"submit", "upload"} /\ h \in {Nobody, Keep}
          /\ Begin(r, Call(op, s, Keep, h)) /\ status \in UploadStatuses
    <3>1. CASE BeginSubmitDesign(r, u)
      BY <3>1 DEF BeginSubmitDesign, UploadStatuses
    <3>2. CASE BeginUpload(r, u, b)
      BY <3>2 DEF BeginUpload
    <3> QED BY <1>4, <3>1, <3>2
  <2> DEFINE c == Call(op, s, Keep, h)
  <2>2. c.op = op /\ c.handler = h
    BY DEF Call
  <2>3. Begin(r, c)
    BY <2>1
  <2>4. status \notin FinalStatuses
    BY <2>1 DEF UploadStatuses, DesignStatuses, AuditStatuses, FinalStatuses
  <2> HIDE DEF c
  <2> QED BY <2>1, <2>2, <2>3, <2>4, PlainStory
<1>5. ASSUME NEW u, NEW a, NEW h,
             \/ BeginAuditClaim(r, u) \/ BeginReject(r, u) \/ BeginTransfer(r, u, a)
             \/ BeginHandover(r, u, a, h) \/ BeginTakeover(r, u, h)
      PROVE  Goal
  <2>1. status \in AuditStatuses
    BY <1>5 DEF BeginAuditClaim, BeginReject, BeginTransfer, BeginHandover, BeginTakeover, AuditAllowed
  <2>2. "submitted" \in done /\ status \notin FinalStatuses
    BY <2>1, SubmittedBehind DEF AuditStatuses, FinalStatuses
  <2>3. PICK c : Begin(r, c) /\ c.op \notin {"approve", "close"}
    <3>1. CASE BeginAuditClaim(r, u) \/ BeginReject(r, u) \/ BeginTransfer(r, u, a)
      <4>1. PICK op, s, x : op \in {"claim", "reject", "transfer"} /\ Begin(r, Call(op, s, Keep, x))
        BY <3>1 DEF BeginAuditClaim, BeginReject, BeginTransfer
      <4>2. Call(op, s, Keep, x).op = op
        BY DEF Call
      <4> QED BY <4>1, <4>2
    <3>2. CASE BeginHandover(r, u, a, h)
      <4>1. [Call("handover", Keep, Keep, Nobody) EXCEPT !.to = a, !.ho = h].op = "handover"
        BY DEF Call
      <4> QED BY <3>2, <4>1 DEF BeginHandover
    <3>3. CASE BeginTakeover(r, u, h)
      <4>1. [Call("takeover", Keep, Keep, u) EXCEPT !.ho = h].op = "takeover"
        BY DEF Call
      <4> QED BY <3>3, <4>1 DEF BeginTakeover
    <3> QED BY <1>5, <3>1, <3>2, <3>3
  <2> QED BY <2>2, <2>3, PlainStory
<1>6. ASSUME NEW u, NEW s, BeginApprove(r, u, s) PROVE Goal
  <2>1. status \in AuditStatuses /\ s \in ApproveTargets(status)
    BY <1>6 DEF BeginApprove, AuditAllowed
  <2>2. "submitted" \in done /\ status \notin FinalStatuses
    BY <2>1, SubmittedBehind DEF AuditStatuses, FinalStatuses
  <2> DEFINE c == Call("approve", s, Keep, Nobody)
  <2>3. c.op = "approve" /\ c.status = s
    BY DEF Call
  <2>4. Begin(r, c)
    BY <1>6 DEF BeginApprove
  <2> HIDE DEF c
  <2> QED BY <2>1, <2>2, <2>3, <2>4 DEF StoryFit, SettledFit, ApproveTargets
<1>7. ASSUME NEW u, \/ BeginOutsource(r, u) \/ BeginReceive(r, u) \/ BeginWarehouseReject(r, u)
                    \/ BeginComplete(r, u)
      PROVE  Goal
  <2>1. status \in {"PendingOutsource", "PendingWarehouseReceive", "PendingProductionTransfer"}
    BY <1>7 DEF BeginOutsource, BeginReceive, BeginWarehouseReject, BeginComplete
  <2>2. "submitted" \in done /\ status \notin FinalStatuses
    BY <2>1, SubmittedBehind DEF FinalStatuses
  <2>3. PICK c : Begin(r, c) /\ c.op \notin {"approve", "close"}
    <3>1. CASE BeginOutsource(r, u) \/ BeginComplete(r, u)
      <4>1. PICK op, s, h : op \in {"outsource", "complete"} /\ Begin(r, Call(op, s, Keep, h))
        BY <3>1 DEF BeginOutsource, BeginComplete
      <4>2. Call(op, s, Keep, h).op = op
        BY DEF Call
      <4> QED BY <4>1, <4>2
    <3>2. CASE BeginReceive(r, u)
      <4>1. [Call("receive", "PendingProductionTransfer", Keep, u)
               EXCEPT !.fresh = (receipt = "none")].op = "receive"
        BY DEF Call
      <4> QED BY <3>2, <4>1 DEF BeginReceive
    <3>3. CASE BeginWarehouseReject(r, u)
      <4>1. [Call("reject_wh", "RejectedByWarehouse", Keep, designer)
               EXCEPT !.fresh = (receipt = "none")].op = "reject_wh"
        BY DEF Call
      <4> QED BY <3>3, <4>1 DEF BeginWarehouseReject
    <3> QED BY <1>7, <3>1, <3>2, <3>3
  <2> QED BY <2>2, <2>3, PlainStory
<1>8. ASSUME NEW u, BeginClose(r, u) PROVE Goal
  <2> DEFINE c == Call("close", "Completed", Keep, Nobody)
  <2>1. c.op = "close" /\ c.status = "Completed" /\ c.handler = Nobody
    BY DEF Call
  <2>2. Begin(r, c)
    BY <1>8 DEF BeginClose
  <2> HIDE DEF c
  <2> QED BY <2>1, <2>2 DEF StoryFit, SettledFit, FinalStatuses
<1>9. ASSUME BeginCancel(r) PROVE Goal
  <2> DEFINE c == Call("cancel", "Cancelled", Keep, Keep)
  <2>1. c.op = "cancel" /\ c.status = "Cancelled" /\ c.handler = Keep
    BY DEF Call
  <2>2. Begin(r, c)
    BY <1>9 DEF BeginCancel
  <2> HIDE DEF c
  <2> QED BY <2>1, <2>2, PlainStory DEF FinalStatuses
<1> HIDE DEF Goal
<1>10. Goal
  <2>1. CASE BeginCancel(r)
    BY <1>9, <2>1
  <2>2. CASE BeginWork(r)
    BY <1>1, <1>2, <1>3, <1>4, <1>5, <1>6, <1>7, <1>8, <2>2 DEF BeginWork
  <2> QED BY <2>1, <2>2
<1> QED BY <1>10 DEF Goal

\* The first half of a request leaves the row alone.
LEMMA BeginKeepsStory ==
  ASSUME FlowInv, StoryInv, NEW r \in Requests, NEW c, Begin(r, c), StoryFit(c), SettledFit(c)
  PROVE  StoryInv' /\ (Settled => Settled')
<1>1. call' = [call EXCEPT ![r] = c] /\ UNCHANGED <<status, handler, handover, done>>
  BY DEF Begin, taskVars
<1>2. \A q \in Requests : call'[q] = c \/ call'[q] = call[q]
  BY <1>1 DEF FlowInv, TypeOK
<1>3. \A q \in Requests : StoryFit(call[q])'
  BY <1>1, <1>2 DEF StoryInv, StoryFit
<1>4. Settled => Settled'
  BY <1>1, <1>2 DEF Settled, SettledFit
<1> QED BY <1>1, <1>3, <1>4 DEF StoryInv, HistoryIsOrdered, AuditFollowsSubmission

\* The second half adds the milestone that its justified decision has earned.
LEMMA CommitKeepsStory ==
  ASSUME FlowInv, StoryInv, NEW r \in Requests, CommitWork(r) \/ CommitCancel(r)
  PROVE  StoryInv' /\ (Settled => Settled')
<1> DEFINE c == call[r]
<1>1. PICK op : Commit(r, op)
  BY DEF CommitWork, CommitCancel, CommitAssignCAS, CommitAssign, CommitClearAssignment,
         CommitPoolClaim, CommitSubmitDesign, CommitUpload, CommitAuditClaim, CommitApprove,
         CommitReject, CommitTransfer, CommitHandover, CommitTakeover, CommitOutsource,
         CommitReceive, CommitWarehouseReject, CommitComplete, CommitClose
<1>2. /\ status' = IF c.status = Keep THEN status ELSE c.status
      /\ handler' = IF c.handler = Keep THEN handler ELSE c.handler
      /\ done' = done \cup Earned(c)
      /\ call' = [call EXCEPT ![r] = NoCall]
  BY <1>1 DEF Commit, WriteTask
<1>3. \A q \in Requests : call'[q] = NoCall \/ call'[q] = call[q]
  BY <1>2 DEF FlowInv, TypeOK
<1>4. StoryFit(c) /\ Justified(c) /\ WritesItsStage(c)
  BY DEF StoryInv, FlowInv, CallsStayJustified, WarehouseStagesHaveOneWriter
<1>5. handover' = handover \/ c.op \in {"handover", "takeover"}
  BY DEF CommitWork, CommitCancel, CommitAssignCAS, CommitAssign, CommitClearAssignment,
         CommitPoolClaim, CommitSubmitDesign, CommitUpload, CommitAuditClaim, CommitApprove,
         CommitReject, CommitTransfer, CommitHandover, CommitTakeover, CommitOutsource,
         CommitReceive, CommitWarehouseReject, CommitComplete, CommitClose, Commit
<1> HIDE DEF c
<1>6. HistoryIsOrdered'
  <2>1. ASSUME NEW m \in Earned(c) PROVE Before(m) \subseteq done'
    <3>1. CASE c.op = "submit" \/ c.op = "upload"
      BY <3>1 DEF Earned, Before
    <3>2. CASE c.op = "approve"
      <4>1. Behind(c.status) \subseteq done'
        BY <1>2, <1>4 DEF Justified
      <4>2. "submitted" \in done' /\ m \in {"passedA", "outsourced", "approved"}
        BY <1>4, <3>2, <4>1 DEF StoryFit, Behind, Earned, Approval
      <4> QED BY <4>2 DEF Before
    <3>3. CASE c.op \in {"receive", "complete", "close"}
      <4>1. Behind(c.status) \subseteq done'
        BY <1>2, <1>4 DEF Justified
      <4>2. CASE c.op = "receive"
        BY <1>4, <4>1, <4>2 DEF WritesItsStage, Behind, Earned, Before
      <4>3. CASE c.op = "complete"
        BY <1>4, <4>1, <4>3 DEF WritesItsStage, Behind, Earned, Before
      <4>4. CASE c.op = "close"
        BY <1>4, <4>1, <4>4 DEF StoryFit, Behind, Earned, Before
      <4> QED BY <3>3, <4>2, <4>3, <4>4
    <3> QED BY <3>1, <3>2, <3>3 DEF Earned
  <2> QED BY <1>2, <2>1 DEF StoryInv, HistoryIsOrdered
<1>7. AuditFollowsSubmission'
  <2> SUFFICES ASSUME "submitted" \notin done' PROVE AuditFollowsSubmission'
    BY DEF AuditFollowsSubmission
  <2>1. "submitted" \notin done
    BY <1>2
  <2>2. handler' \in Designers \cup {Nobody} /\ handover' = handover
    BY <1>2, <1>4, <1>5, <2>1 DEF StoryFit, StoryInv, AuditFollowsSubmission
  <2> QED BY <2>1, <2>2 DEF StoryInv, AuditFollowsSubmission
<1>8. \A q \in Requests : StoryFit(call[q])'
  BY <1>2, <1>3, NoCallStory DEF StoryInv, StoryFit
<1>9. ASSUME Settled PROVE Settled'
  <2>1. status' \in FinalStatuses
    BY <1>2, <1>9 DEF Settled, c
  <2> QED BY <1>3, <1>9, <2>1, NoCallStory DEF Settled
<1> QED BY <1>6, <1>7, <1>8, <1>9 DEF StoryInv

\* Every step keeps the history in order, and a settled task settled.
LEMMA StoryNext ==
  FlowInv /\ StoryInv /\ [Next]_vars => StoryInv' /\ (Settled => Settled')
<1> SUFFICES ASSUME FlowInv, StoryInv, [Next]_vars PROVE StoryInv' /\ (Settled => Settled')
  OBVIOUS
<1>1. ASSUME NEW r \in Requests, BeginWork(r) \/ BeginCancel(r)
      PROVE  StoryInv' /\ (Settled => Settled')
  BY <1>1, BeginStory, BeginKeepsStory
<1>2. ASSUME NEW r \in Requests, RequestFails(r) PROVE StoryInv' /\ (Settled => Settled')
  <2>1. UNCHANGED <<status, handler, handover, done>> /\ call' = [call EXCEPT ![r] = NoCall]
    BY <1>2 DEF RequestFails, taskVars
  <2>2. \A q \in Requests : call'[q] = NoCall \/ call'[q] = call[q]
    BY <2>1 DEF FlowInv, TypeOK
  <2> QED BY <2>1, <2>2, NoCallStory
          DEF StoryInv, HistoryIsOrdered, AuditFollowsSubmission, StoryFit, Settled
<1>3. CASE TriggerFiling \/ ArchiveTasks \/ ListCandidates \/ LoadTask \/ SkipTask \/ UNCHANGED vars
  <2>1. UNCHANGED <<handler, handover, done, call>> /\ status' \in {status, "Archived"}
    BY <1>3 DEF TriggerFiling, ArchiveTasks, ListCandidates, LoadTask, SkipTask, vars, taskVars
  <2> QED BY <2>1 DEF StoryInv, HistoryIsOrdered, AuditFollowsSubmission, StoryFit, Settled,
                      FinalStatuses
<1>4. CASE ReleaseOne
  <2>1. UNCHANGED <<handler, handover, call>> /\ status' = "Completed" /\ done \subseteq done'
    BY <1>4 DEF ReleaseOne
  <2>2. Behind(status) \subseteq done /\ HistoryIsOrdered
    BY DEF FlowInv, NoStageSkipped, StoryInv
  <2>3. HistoryIsOrdered'
    <3>1. CASE status = "PendingWarehouseReceive"
      BY <1>4, <2>2, <3>1 DEF ReleaseOne, Behind, HistoryIsOrdered, Before
    <3>2. CASE status = "PendingProductionTransfer"
      BY <1>4, <2>2, <3>2 DEF ReleaseOne, Behind, HistoryIsOrdered, Before
    <3>3. CASE status = "PendingClose"
      BY <1>4, <2>2, <3>3 DEF ReleaseOne, Behind, HistoryIsOrdered, Before
    <3> QED BY <1>4, <3>1, <3>2, <3>3 DEF ReleaseOne
  <2> QED BY <2>1, <2>3 DEF StoryInv, AuditFollowsSubmission, StoryFit, Settled, FinalStatuses
<1> QED BY <1>1, <1>2, <1>3, <1>4, CommitKeepsStory DEF Next, Job

LEMMA StoryInvariant == Spec => []StoryInv
<1>1. Init => StoryInv
  BY NoCallStory DEF Init, StoryInv, HistoryIsOrdered, AuditFollowsSubmission
<1> QED BY <1>1, StoryNext, FlowInvariant, PTL DEF Spec

\* Whatever overlaps, the milestones recorded in the event log of a task are
\* closed under what has to come before: no close without the warehouse, no receipt
\* without a final approval, no decision without a submission.
THEOREM HistoryStaysOrdered == Spec => []HistoryIsOrdered
<1>1. StoryInv => HistoryIsOrdered
  BY DEF StoryInv
<1> QED BY <1>1, StoryInvariant, PTL

\* Whatever overlaps, no auditor handles a task and no handover exists before the
\* task has been submitted.
THEOREM AuditWaitsForSubmission == Spec => []AuditFollowsSubmission
<1>1. StoryInv => AuditFollowsSubmission
  BY DEF StoryInv
<1> QED BY <1>1, StoryInvariant, PTL

\* A task that is final, with no request under way that means to take it back,
\* stays final for good: nothing that is begun on a final task revives it.
THEOREM SettledStaysSettled == Spec => SettledTasksStaySettled
<1>1. SettledTasksStaySettled <=> [][Settled => Settled']_vars
  BY DEF SettledTasksStaySettled
<1>2. FlowInv /\ StoryInv /\ [Next]_vars => [Settled => Settled']_vars
  BY StoryNext
<1> QED BY <1>1, <1>2, FlowInvariant, StoryInvariant, PTL DEF Spec

-----------------------------------------------------------------------------
(* Requests that commit alone.  Only the release job, the archive job and   *)
(* the filing come between the two halves of a request that commits, so     *)
(* what a request would leave behind if it committed now can be said of the *)
(* row as it is; of the others under way none will commit after it.         *)

Waiting == {"PendingAssign", "PendingOutsource", "Outsourcing",
            "PendingWarehouseReceive", "PendingClose"}

\* OwnershipIsFresh, as a relation of a status, a designer and a handler.
Owned(s, d, h) ==
  /\ s \in Waiting => h = Nobody
  /\ s \in AuditStatuses => h \in Auditors \cup {Nobody}
  /\ s \in DesignStatuses \cup {"RejectedByWarehouse"} => h = d

\* A column after the commit of a request that writes w where v was.
Written(w, v) == IF w = Keep THEN v ELSE w

\* The row the request would leave is owned as its status calls for.
Lands(c) ==
  Owned(Written(c.status, status), Written(c.designer, designer), Written(c.handler, handler))

\* The requests that move a task on and leave its design module alone.
LateOps == {"approve", "reject", "outsource", "receive", "reject_wh", "complete", "close"}

OwnershipFit(c) ==
  /\ c.op # "none" => Lands(c) \/ (c.op = "pool_claim" /\ designModule # "pending_claim")
  /\ c.op \in LateOps => designModule # "pending_claim"
  /\ c.op = "clear" => Written(c.status, status) = "PendingAssign"
  /\ c.op \in {"claim", "transfer", "handover", "takeover"} => c.status = Keep

HandoverFit(c) ==
  /\ \/ NoPendingHandover
     \/ c.op \in {"none", "pool_claim", "takeover"}
     \/ c.op = "upload" /\ c.status = Keep /\ c.handler = Keep
     \/ c.op = "cancel" /\ c.status = "Cancelled" /\ c.handler = Keep
  /\ c.op = "handover" =>
       c.ho \in Handovers /\ c.handler = Nobody /\ c.status = Keep /\ status \in AuditStatuses
  /\ c.op = "takeover" =>
       c.ho \in Handovers /\ handover[c.ho].state = "pending_takeover"

\* The design module waits in the pool only while the task is being assigned.
PoolIsEarly == designModule = "pending_claim" => status \in {"PendingAssign", "InProgress"}

SerialInv ==
  /\ TypeOK
  /\ Owned(status, designer, handler)
  /\ PoolIsEarly
  /\ HandoverFreezesAudit
  /\ \A q \in Requests : OwnershipFit(call[q]) /\ HandoverFit(call[q])

Fits(c) == OwnershipFit(c) /\ HandoverFit(c)

\* A request that decides on nothing does no harm.
LEMMA NoCallFits == Fits(NoCall)
BY DEF Fits, OwnershipFit, HandoverFit, NoCall, Call, LateOps

\* The fields of a call.
LEMMA CallFields ==
  ASSUME NEW op, NEW s, NEW d, NEW h, NEW c, c = Call(op, s, d, h)
  PROVE  c.op = op /\ c.status = s /\ c.designer = d /\ c.handler = h
BY DEF Call

\* The facts about the constants and the row that the lemmas below use.
LEMMA SerialFacts ==
  ASSUME SerialInv
  PROVE  /\ Keep \notin Statuses /\ Keep \notin Who /\ Nobody \in Who
         /\ Designers \subseteq Who /\ Auditors \subseteq Who
         /\ "PendingAssign" # Keep /\ "InProgress" # Keep
         /\ status \in Statuses /\ designer \in Who /\ handler \in Who
         /\ Owned(status, designer, handler)
BY TaskFlowAssumption DEF SerialInv, TypeOK, Who, Users, Statuses

\* Assigning, unassigning and claiming.
LEMMA AssignFits ==
  ASSUME SerialInv, NEW r \in Requests, NEW d \in Designers, NEW u,
         BeginAssign(r, u, d) \/ BeginReassign(r, u, d) \/ BeginPoolClaim(r, d)
  PROVE  \E c : Begin(r, c) /\ Fits(c)
<1> USE SerialFacts
<1>1. CASE BeginAssign(r, u, d) \/ BeginReassign(r, u, d)
  <2>1. PICK op \in {"assign_cas", "assign"}, s \in {"InProgress", Keep} :
          /\ Begin(r, Call(op, s, d, d))
          /\ s = Keep => status = "InProgress"
          /\ status \in {"PendingAssign", "InProgress"}
    <3>1. CASE BeginAssign(r, u, d)
      BY <3>1 DEF BeginAssign
    <3>2. CASE BeginReassign(r, u, d)
      BY <3>2 DEF BeginReassign
    <3> QED BY <1>1, <3>1, <3>2
  <2> DEFINE c == Call(op, s, d, d)
  <2>2. c.op = op /\ c.status = s /\ c.designer = d /\ c.handler = d
    BY CallFields
  <2> HIDE DEF c
  <2>3. Written(s, status) = "InProgress" /\ Written(d, designer) = d /\ Written(d, handler) = d
    BY <2>1 DEF Written, Statuses
  <2>4. Lands(c)
    BY <2>2, <2>3 DEF Lands, Owned, Waiting, AuditStatuses
  <2>5. NoPendingHandover
    BY <2>1 DEF SerialInv, HandoverFreezesAudit, NoPendingHandover, AuditStatuses
  <2>6. Fits(c)
    BY <2>1, <2>2, <2>4, <2>5 DEF Fits, OwnershipFit, HandoverFit, LateOps
  <2> QED BY <2>1, <2>6 DEF c
<1>2. CASE BeginPoolClaim(r, d)
  <2> DEFINE s == IF status = "PendingAssign" THEN "InProgress" ELSE Keep
             x == IF designer = Nobody THEN d ELSE Keep
             y == IF handler = Nobody THEN d ELSE Keep
             c == Call("pool_claim", s, x, y)
  <2>1. Begin(r, c) /\ handler \in {Nobody, d} /\ designer \in {Nobody, d}
    BY <1>2 DEF BeginPoolClaim
  <2>2. c.op = "pool_claim" /\ c.status = s /\ c.designer = x /\ c.handler = y
    BY CallFields
  <2>3. ASSUME designModule = "pending_claim" PROVE Lands(c)
    <3>1. status \in {"PendingAssign", "InProgress"}
      BY <2>3 DEF SerialInv, PoolIsEarly
    <3>2. Written(s, status) = "InProgress"
      BY <3>1 DEF Written, Statuses
    <3>3. Written(x, designer) = d /\ Written(y, handler) = d
      BY <2>1 DEF Written
    <3> HIDE DEF s, x, y, c
    <3> QED BY <2>2, <3>2, <3>3 DEF Lands, Owned, Waiting, AuditStatuses
  <2> HIDE DEF s, x, y, c
  <2>4. Fits(c)
    BY <2>2, <2>3 DEF Fits, OwnershipFit, HandoverFit, LateOps
  <2> QED BY <2>1, <2>4
<1> QED BY <1>1, <1>2

LEMMA ClearFits ==
  ASSUME SerialInv, NEW r \in Requests, NEW u, BeginClearAssignment(r, u)
  PROVE  \E c : Begin(r, c) /\ Fits(c)
<1> USE SerialFacts
<1>1. PICK s \in {"PendingAssign", Keep} :
        /\ Begin(r, Call("clear", s, Nobody, Nobody))
        /\ s = Keep => status = "PendingAssign"
        /\ status \in {"PendingAssign", "InProgress"}
  BY DEF BeginClearAssignment
<1> DEFINE c == Call("clear", s, Nobody, Nobody)
<1>2. c.op = "clear" /\ c.status = s /\ c.designer = Nobody /\ c.handler = Nobody
  BY CallFields
<1> HIDE DEF c
<1>3. Written(s, status) = "PendingAssign" /\ Written(Nobody, handler) = Nobody
  BY <1>1 DEF Written, Statuses
<1>4. Lands(c)
  BY <1>2, <1>3 DEF Lands, Owned, Waiting, AuditStatuses, DesignStatuses
<1>5. NoPendingHandover
  BY <1>1 DEF SerialInv, HandoverFreezesAudit, NoPendingHandover, AuditStatuses
<1>6. Fits(c)
  BY <1>2, <1>3, <1>4, <1>5 DEF Fits, OwnershipFit, HandoverFit, LateOps
<1> QED BY <1>1, <1>6 DEF c

\* A request of a later stage, which the row's status has led past the pool.
LEMMA LateFits ==
  ASSUME SerialInv, NEW r \in Requests, NEW c, Begin(r, c),
         c.op \in LateOps, NoPendingHandover,
         status \notin {"PendingAssign", "InProgress"}, Lands(c)
  PROVE  \E cc : Begin(r, cc) /\ Fits(cc)
<1>1. designModule # "pending_claim"
  BY DEF SerialInv, PoolIsEarly
<1>2. Fits(c)
  BY <1>1 DEF Fits, OwnershipFit, HandoverFit, LateOps
<1> QED BY <1>2

\* Submitting and uploading.
LEMMA DesignFits ==
  ASSUME SerialInv, NEW r \in Requests, NEW u, NEW b \in BOOLEAN,
         BeginSubmitDesign(r, u) \/ BeginUpload(r, u, b)
  PROVE  \E c : Begin(r, c) /\ Fits(c)
<1> USE SerialFacts
<1>1. CASE BeginSubmitDesign(r, u) \/ (BeginUpload(r, u, b) /\ b)
  <2>1. PICK op \in {"submit", "upload"} :
          /\ Begin(r, Call(op, "PendingAuditA", Keep, Nobody))
          /\ status \in DesignStatuses \cup {"PendingAssign"}
    <3>1. CASE BeginSubmitDesign(r, u)
      BY <3>1 DEF BeginSubmitDesign
    <3>2. CASE BeginUpload(r, u, b) /\ b
      BY <3>2 DEF BeginUpload
    <3> QED BY <1>1, <3>1, <3>2
  <2> DEFINE c == Call(op, "PendingAuditA", Keep, Nobody)
  <2>2. c.op = op /\ c.status = "PendingAuditA" /\ c.handler = Nobody
    BY CallFields
  <2> HIDE DEF c
  <2>3. Written("PendingAuditA", status) = "PendingAuditA" /\ Written(Nobody, handler) = Nobody
    BY DEF Written, Statuses
  <2>4. Lands(c)
    BY <2>2, <2>3 DEF Lands, Owned, Waiting, AuditStatuses, DesignStatuses
  <2>5. NoPendingHandover
    BY <2>1 DEF SerialInv, HandoverFreezesAudit, NoPendingHandover, AuditStatuses, DesignStatuses
  <2>6. Fits(c)
    BY <2>1, <2>2, <2>4, <2>5 DEF Fits, OwnershipFit, HandoverFit, LateOps
  <2> QED BY <2>1, <2>6 DEF c
<1>2. CASE BeginUpload(r, u, b) /\ ~b
  <2> DEFINE c == Call("upload", Keep, Keep, Keep)
  <2>1. Begin(r, c)
    BY <1>2 DEF BeginUpload
  <2>2. c.op = "upload" /\ c.status = Keep /\ c.designer = Keep /\ c.handler = Keep
    BY CallFields
  <2> HIDE DEF c
  <2>3. Lands(c)
    BY <2>2 DEF Lands, Written
  <2>4. Fits(c)
    BY <2>2, <2>3 DEF Fits, OwnershipFit, HandoverFit, LateOps
  <2> QED BY <2>1, <2>4
<1> QED BY <1>1, <1>2

\* An audit request that keeps the status and gives the task to an auditor or nobody.
LEMMA AuditLands ==
  ASSUME SerialInv, status \in AuditStatuses, NEW c, c.status = Keep,
         c.handler \in Auditors \cup {Nobody}
  PROVE  Lands(c)
<1>1. Written(c.status, status) = status /\ Written(c.handler, handler) = c.handler
  BY SerialFacts DEF Written
<1> QED BY <1>1 DEF Lands, Owned, Waiting, AuditStatuses, DesignStatuses

\* Auditing: claims and transfers, handovers, decisions.
LEMMA AuditFits ==
  ASSUME SerialInv, NEW r \in Requests, NEW u, NEW a \in Auditors,
         BeginAuditClaim(r, a) \/ BeginTransfer(r, u, a)
  PROVE  \E c : Begin(r, c) /\ Fits(c)
<1> USE SerialFacts
<1>0. status \in AuditStatuses
  BY DEF BeginAuditClaim, BeginTransfer, AuditAllowed
<1>1. CASE BeginAuditClaim(r, a) \/ BeginTransfer(r, u, a)
  <2>1. PICK op \in {"claim", "transfer"} :
          Begin(r, Call(op, Keep, Keep, a)) /\ NoPendingHandover
    <3>1. CASE BeginAuditClaim(r, a)
      BY <3>1 DEF BeginAuditClaim, AuditAllowed
    <3>2. CASE BeginTransfer(r, u, a)
      BY <3>2 DEF BeginTransfer, AuditAllowed
    <3> QED BY <1>1, <3>1, <3>2
  <2> DEFINE c == Call(op, Keep, Keep, a)
  <2>2. c.op = op /\ c.status = Keep /\ c.handler = a
    BY CallFields
  <2> HIDE DEF c
  <2>3. Fits(c)
    BY <1>0, AuditLands, <2>1, <2>2 DEF Fits, OwnershipFit, HandoverFit, LateOps
  <2> QED BY <2>1, <2>3 DEF c
<1> QED BY <1>1

LEMMA HandoverFits ==
  ASSUME SerialInv, NEW r \in Requests, NEW u, NEW a \in Auditors, NEW h \in Handovers,
         BeginHandover(r, u, a, h) \/ BeginTakeover(r, a, h)
  PROVE  \E c : Begin(r, c) /\ Fits(c)
<1> USE SerialFacts
<1>0. status \in AuditStatuses
  BY DEF BeginHandover, BeginTakeover, AuditAllowed
<1>1. CASE BeginHandover(r, u, a, h)
  <2> DEFINE c == [Call("handover", Keep, Keep, Nobody) EXCEPT !.to = a, !.ho = h]
  <2>1. Begin(r, c) /\ NoPendingHandover
    BY <1>1 DEF BeginHandover, AuditAllowed
  <2>2. c.op = "handover" /\ c.status = Keep /\ c.handler = Nobody /\ c.ho = h
    BY DEF Call
  <2> HIDE DEF c
  <2>3. Fits(c)
    BY <1>0, AuditLands, <2>1, <2>2 DEF Fits, OwnershipFit, HandoverFit, LateOps
  <2> QED BY <2>1, <2>3
<1>2. CASE BeginTakeover(r, a, h)
  <2> DEFINE c == [Call("takeover", Keep, Keep, a) EXCEPT !.ho = h]
  <2>1. Begin(r, c) /\ handover[h] = [to |-> a, state |-> "pending_takeover"]
    BY <1>2 DEF BeginTakeover
  <2>2. c.op = "takeover" /\ c.status = Keep /\ c.handler = a /\ c.ho = h
    BY DEF Call
  <2> HIDE DEF c
  <2>3. handover[h].state = "pending_takeover"
    BY <2>1
  <2>4. Fits(c)
    BY <1>0, AuditLands, <2>2, <2>3 DEF Fits, OwnershipFit, HandoverFit, LateOps
  <2> QED BY <2>1, <2>4
<1> QED BY <1>1, <1>2

LEMMA DecisionFits ==
  ASSUME SerialInv, NEW r \in Requests, NEW u, NEW s \in Statuses,
         BeginApprove(r, u, s) \/ BeginReject(r, u)
  PROVE  \E c : Begin(r, c) /\ Fits(c)
<1> USE SerialFacts
<1>0. status \in AuditStatuses
  BY DEF BeginApprove, BeginReject, AuditAllowed
<1>1. CASE BeginApprove(r, u, s)
  <2> DEFINE c == Call("approve", s, Keep, Nobody)
  <2>1. /\ Begin(r, c) /\ NoPendingHandover
        /\ s \in {"PendingAuditB", "PendingWarehouseReceive", "PendingOutsource"}
    BY <1>1 DEF BeginApprove, AuditAllowed, ApproveTargets
  <2>2. c.op = "approve" /\ c.status = s /\ c.handler = Nobody
    BY CallFields
  <2> HIDE DEF c
  <2>3. Written(s, status) = s /\ Written(Nobody, handler) = Nobody
    BY DEF Written
  <2>4. Lands(c)
    BY <2>1, <2>2, <2>3 DEF Lands, Owned, DesignStatuses
  <2> QED BY <1>0, <2>1, <2>2, <2>4, LateFits DEF LateOps, AuditStatuses
<1>2. CASE BeginReject(r, u)
  <2> DEFINE s1 == RejectedStatus(status)
             c == Call("reject", s1, Keep, designer)
  <2>1. /\ Begin(r, c) /\ NoPendingHandover
        /\ s1 \in {"RejectedByAuditA", "RejectedByAuditB"}
    BY <1>2 DEF BeginReject, AuditAllowed, RejectedStatus
  <2>2. c.op = "reject" /\ c.status = s1 /\ c.designer = Keep /\ c.handler = designer
    BY CallFields
  <2> HIDE DEF c, s1
  <2>3. /\ Written(s1, status) = s1 /\ Written(designer, handler) = designer
        /\ Written(Keep, designer) = designer
    BY <2>1 DEF Written, Statuses
  <2>4. Lands(c)
    BY <2>1, <2>2, <2>3 DEF Lands, Owned, Waiting, AuditStatuses
  <2> QED BY <1>0, <2>1, <2>2, <2>4, LateFits DEF LateOps, AuditStatuses
<1> QED BY <1>1, <1>2

\* Outsourcing, the warehouse and the close.
LEMMA WarehouseFits ==
  ASSUME SerialInv, NEW r \in Requests, NEW u \in Who,
         \/ BeginOutsource(r, u) \/ BeginReceive(r, u) \/ BeginWarehouseReject(r, u)
         \/ BeginComplete(r, u) \/ BeginClose(r, u)
  PROVE  \E c : Begin(r, c) /\ Fits(c)
<1> USE SerialFacts
<1>0. status \in {"PendingOutsource", "PendingWarehouseReceive", "PendingProductionTransfer",
                  "PendingClose"}
  BY DEF BeginOutsource, BeginReceive, BeginWarehouseReject, BeginComplete, BeginClose
<1>1. NoPendingHandover /\ status \notin {"PendingAssign", "InProgress"}
  BY <1>0 DEF SerialInv, HandoverFreezesAudit, NoPendingHandover, AuditStatuses
<1>2. CASE BeginOutsource(r, u)
  <2> DEFINE c == Call("outsource", "Outsourcing", Keep, Keep)
  <2>1. Begin(r, c) /\ status = "PendingOutsource"
    BY <1>2 DEF BeginOutsource
  <2>2. c.op = "outsource" /\ c.status = "Outsourcing" /\ c.handler = Keep
    BY CallFields
  <2> HIDE DEF c
  <2>3. Written("Outsourcing", status) = "Outsourcing" /\ Written(Keep, handler) = Nobody
    BY <2>1 DEF Written, Statuses, Owned, Waiting
  <2>4. Lands(c)
    BY <2>2, <2>3 DEF Lands, Owned, AuditStatuses, DesignStatuses
  <2> QED BY <1>1, <2>1, <2>2, <2>4, LateFits DEF LateOps
<1>3. CASE BeginReceive(r, u)
  <2> DEFINE c == [Call("receive", "PendingProductionTransfer", Keep, u)
                     EXCEPT !.fresh = (receipt = "none")]
  <2>1. Begin(r, c)
    BY <1>3 DEF BeginReceive
  <2>2. c.op = "receive" /\ c.status = "PendingProductionTransfer"
    BY DEF Call
  <2> HIDE DEF c
  <2>3. Written("PendingProductionTransfer", status) = "PendingProductionTransfer"
    BY DEF Written, Statuses
  <2>4. Lands(c)
    BY <2>2, <2>3 DEF Lands, Owned, Waiting, AuditStatuses, DesignStatuses
  <2> QED BY <1>1, <2>1, <2>2, <2>4, LateFits DEF LateOps
<1>4. CASE BeginWarehouseReject(r, u)
  <2> DEFINE c == [Call("reject_wh", "RejectedByWarehouse", Keep, designer)
                     EXCEPT !.fresh = (receipt = "none")]
  <2>1. Begin(r, c)
    BY <1>4 DEF BeginWarehouseReject
  <2>2. /\ c.op = "reject_wh" /\ c.status = "RejectedByWarehouse"
        /\ c.designer = Keep /\ c.handler = designer
    BY DEF Call
  <2> HIDE DEF c
  <2>3. /\ Written("RejectedByWarehouse", status) = "RejectedByWarehouse"
        /\ Written(designer, handler) = designer /\ Written(Keep, designer) = designer
    BY DEF Written, Statuses
  <2>4. Lands(c)
    BY <2>2, <2>3 DEF Lands, Owned, Waiting, AuditStatuses
  <2> QED BY <1>1, <2>1, <2>2, <2>4, LateFits DEF LateOps
<1>5. CASE BeginComplete(r, u) \/ BeginClose(r, u)
  <2>1. PICK op \in {"complete", "close"}, s \in {"PendingClose", "Completed"} :
          Begin(r, Call(op, s, Keep, Nobody))
    BY <1>5 DEF BeginComplete, BeginClose
  <2> DEFINE c == Call(op, s, Keep, Nobody)
  <2>2. c.op = op /\ c.status = s /\ c.handler = Nobody
    BY CallFields
  <2> HIDE DEF c
  <2>3. Written(s, status) = s /\ Written(Nobody, handler) = Nobody
    BY <2>1 DEF Written, Statuses
  <2>4. Lands(c)
    BY <2>1, <2>2, <2>3 DEF Lands, Owned, AuditStatuses, DesignStatuses
  <2>5. Begin(r, c)
    BY <2>1 DEF c
  <2> QED BY <1>1, <2>1, <2>2, <2>4, <2>5, LateFits DEF LateOps
<1> QED BY <1>2, <1>3, <1>4, <1>5

\* Every request begins with a decision that would do no harm now.
LEMMA BeginFits ==
  ASSUME SerialInv, NEW r \in Requests, BeginWork(r) \/ BeginCancel(r)
  PROVE  \E c : Begin(r, c) /\ Fits(c)
<1>1. CASE BeginCancel(r)
  <2> DEFINE c == Call("cancel", "Cancelled", Keep, Keep)
  <2>1. Begin(r, c)
    BY <1>1 DEF BeginCancel
  <2>2. c.op = "cancel" /\ c.status = "Cancelled" /\ c.handler = Keep
    BY CallFields
  <2> HIDE DEF c
  <2>3. Written("Cancelled", status) = "Cancelled"
    BY SerialFacts DEF Written, Statuses
  <2>4. Lands(c)
    BY <2>2, <2>3 DEF Lands, Owned, Waiting, AuditStatuses, DesignStatuses
  <2>5. Fits(c)
    BY <2>2, <2>4 DEF Fits, OwnershipFit, HandoverFit, LateOps
  <2> QED BY <2>1, <2>5
<1>2. ASSUME NEW u, NEW d \in Designers, BeginAssign(r, u, d) \/ BeginReassign(r, u, d)
      PROVE  \E c : Begin(r, c) /\ Fits(c)
  BY <1>2, AssignFits
<1>3. ASSUME NEW u, BeginClearAssignment(r, u) PROVE \E c : Begin(r, c) /\ Fits(c)
  BY <1>3, ClearFits
<1>4. ASSUME NEW d \in Designers, BeginPoolClaim(r, d) PROVE \E c : Begin(r, c) /\ Fits(c)
  BY <1>4, AssignFits
<1>5. ASSUME NEW u, NEW b \in BOOLEAN, BeginUpload(r, u, b) PROVE \E c : Begin(r, c) /\ Fits(c)
  BY <1>5, DesignFits
<1>6. ASSUME NEW u, BeginSubmitDesign(r, u) PROVE \E c : Begin(r, c) /\ Fits(c)
  <2>1. TRUE \in BOOLEAN
    OBVIOUS
  <2> QED BY <1>6, <2>1, DesignFits
<1>7. ASSUME NEW u, NEW a \in Auditors, NEW h \in Handovers,
             BeginHandover(r, u, a, h) \/ BeginTakeover(r, a, h)
      PROVE  \E c : Begin(r, c) /\ Fits(c)
  BY <1>7, HandoverFits
<1>8. ASSUME NEW u, NEW a \in Auditors, BeginAuditClaim(r, a) \/ BeginTransfer(r, u, a)
      PROVE  \E c : Begin(r, c) /\ Fits(c)
  BY <1>8, AuditFits
<1>9. ASSUME NEW u, NEW s \in Statuses, BeginApprove(r, u, s) \/ BeginReject(r, u)
      PROVE  \E c : Begin(r, c) /\ Fits(c)
  BY <1>9, DecisionFits
<1>11. ASSUME NEW u, BeginReject(r, u) PROVE \E c : Begin(r, c) /\ Fits(c)
  BY <1>11, <1>9, SerialFacts
<1>10. ASSUME NEW u \in Who, \/ BeginOutsource(r, u) \/ BeginReceive(r, u)
                             \/ BeginWarehouseReject(r, u)
                             \/ BeginComplete(r, u) \/ BeginClose(r, u)
       PROVE  \E c : Begin(r, c) /\ Fits(c)
  BY <1>10, WarehouseFits
<1> QED
  BY <1>1, <1>2, <1>3, <1>4, <1>5, <1>6, <1>7, <1>8, <1>9, <1>10, <1>11 DEF BeginWork, Who, Users

\* The first half of a request, whatever others are under way.
LEMMA BeginSerial ==
  ASSUME NEW r \in Requests, SerialInv, TypeOK', BeginWork(r) \/ BeginCancel(r)
  PROVE  SerialInv'
<1>1. PICK c : Begin(r, c) /\ Fits(c)
  BY BeginFits
<1>2. /\ UNCHANGED <<status, designer, handler, designModule, handover>>
      /\ \A q \in Requests : call'[q] = c \/ call'[q] = call[q]
  BY <1>1 DEF Begin, taskVars, SerialInv, TypeOK
<1>3. ASSUME NEW q \in Requests PROVE OwnershipFit(call[q])' /\ HandoverFit(call[q])'
  <2>1. PICK d : call'[q] = d /\ OwnershipFit(d) /\ HandoverFit(d)
    BY <1>1, <1>2 DEF Fits, SerialInv
  <2> QED BY <1>2, <2>1 DEF OwnershipFit, HandoverFit, Lands, NoPendingHandover
<1>4. \A q \in Requests : OwnershipFit(call[q])' /\ HandoverFit(call[q])'
  BY <1>3
<1> QED BY <1>2, <1>4 DEF SerialInv, PoolIsEarly, HandoverFreezesAudit

\* The pool claim is refused unless the module waits in the pool.
LEMMA CommitOwned ==
  ASSUME SerialInv, NEW r \in Requests, NEW op, Commit(r, op), op # "none",
         op = "pool_claim" => designModule = "pending_claim"
  PROVE  Owned(status', designer', handler')
<1>1. /\ status' = Written(call[r].status, status)
      /\ designer' = Written(call[r].designer, designer)
      /\ handler' = Written(call[r].handler, handler)
      /\ call[r].op = op
  BY DEF Commit, WriteTask, Written
<1>2. Lands(call[r])
  BY <1>1 DEF SerialInv, OwnershipFit
<1> QED BY <1>1, <1>2 DEF Lands

\* The second half of a request that is alone.
LEMMA CommitSerial ==
  ASSUME NEW r \in Requests, SerialInv, TypeOK', CommitWork(r) \/ CommitCancel(r),
         CommitsAlone
  PROVE  SerialInv'
<1>0. /\ r \in Requests /\ call \in [Requests -> Calls]
      /\ OwnershipFit(call[r]) /\ HandoverFit(call[r])
      /\ handover \in [Handovers -> [to : Who, state : HandoverStates]]
  BY DEF SerialInv, TypeOK
<1>1. PICK op : /\ Commit(r, op) /\ op # "none"
                /\ op = "pool_claim" => designModule = "pending_claim"
  BY DEF CommitWork, CommitCancel, CommitAssignCAS, CommitAssign, CommitClearAssignment,
         CommitPoolClaim, CommitSubmitDesign, CommitUpload, CommitAuditClaim, CommitApprove,
         CommitReject, CommitTransfer, CommitHandover, CommitTakeover, CommitOutsource,
         CommitReceive, CommitWarehouseReject, CommitComplete, CommitClose
<1>2. /\ status' = Written(call[r].status, status)
      /\ handler' = Written(call[r].handler, handler)
      /\ call[r].op = op
      /\ call' = [call EXCEPT ![r] = NoCall]
  BY <1>1 DEF Commit, WriteTask, Written
<1>3. Owned(status', designer', handler')
  BY <1>0, <1>1, CommitOwned
<1>4. ASSUME NEW q \in Requests PROVE OwnershipFit(call[q])' /\ HandoverFit(call[q])'
  <2>1. NoCall.op = "none"
    BY DEF NoCall, Call
  <2>2. call'[q].op = "none"
    BY <1>0, <1>2, <2>1 DEF CommitsAlone
  <2> QED BY <2>2 DEF OwnershipFit, HandoverFit, LateOps
<1>5. PoolIsEarly'
  <2>1. CASE CommitAssignCAS(r) \/ CommitAssign(r) \/ CommitPoolClaim(r)
             \/ CommitSubmitDesign(r) \/ CommitCancel(r)
    BY <2>1 DEF CommitAssignCAS, CommitAssign, CommitPoolClaim, CommitSubmitDesign, CommitCancel,
                SyncAssignmentModule, PoolIsEarly
  <2>2. CASE CommitClearAssignment(r)
    <3>1. call[r].op = "clear"
      BY <2>2 DEF CommitClearAssignment, Commit
    <3>2. status' = "PendingAssign"
      BY <1>0, <1>2, <3>1 DEF OwnershipFit
    <3> QED BY <3>2 DEF PoolIsEarly
  <2>3. CASE CommitUpload(r)
    <3>1. CASE call[r].status = Keep
      BY <1>2, <2>3, <3>1 DEF CommitUpload, SerialInv, PoolIsEarly, Written
    <3>2. CASE call[r].status # Keep
      BY <2>3, <3>2 DEF CommitUpload, PoolIsEarly
    <3> QED BY <3>1, <3>2
  <2>4. CASE CommitAuditClaim(r) \/ CommitTransfer(r) \/ CommitHandover(r) \/ CommitTakeover(r)
    <3>1. /\ call[r].op \in {"claim", "transfer", "handover", "takeover"}
          /\ designModule' = designModule
      BY <2>4 DEF CommitAuditClaim, CommitTransfer, CommitHandover, CommitTakeover, Commit
    <3>2. status' = status
      BY <1>0, <1>2, <3>1 DEF OwnershipFit, Written
    <3> QED BY <3>1, <3>2 DEF SerialInv, PoolIsEarly
  <2>5. CASE \/ CommitApprove(r) \/ CommitReject(r) \/ CommitOutsource(r) \/ CommitReceive(r)
             \/ CommitWarehouseReject(r) \/ CommitComplete(r) \/ CommitClose(r)
    <3>1. call[r].op \in LateOps /\ designModule' = designModule
      BY <2>5 DEF CommitApprove, CommitReject, CommitOutsource, CommitReceive,
                  CommitWarehouseReject, CommitComplete, CommitClose, Commit, LateOps
    <3> QED BY <1>0, <3>1 DEF OwnershipFit, PoolIsEarly
  <2> QED BY <2>1, <2>2, <2>3, <2>4, <2>5 DEF CommitWork
<1>6. HandoverFreezesAudit'
  <2>1. CASE CommitHandover(r)
    <3> DEFINE h == call[r].ho
    <3>1. /\ call[r].op = "handover"
          /\ handover' = [handover EXCEPT ![h] = [to |-> call[r].to, state |-> "pending_takeover"]]
      BY <2>1 DEF CommitHandover
    <3>2. /\ h \in Handovers /\ NoPendingHandover /\ status' \in AuditStatuses
          /\ call[r].handler = Nobody
      BY <1>0, <1>2, <3>1 DEF HandoverFit, Written
    <3>3. \A g \in Handovers \ {h} : handover'[g].state # "pending_takeover"
      BY <1>0, <3>1, <3>2 DEF NoPendingHandover
    <3>4. handler' = Nobody
      BY <1>2, <3>2, SerialFacts DEF Written
    <3> HIDE DEF h
    <3> QED BY <3>2, <3>3, <3>4 DEF HandoverFreezesAudit
  <2>2. CASE CommitTakeover(r)
    <3> DEFINE h == call[r].ho
    <3>1. /\ call[r].op = "takeover"
          /\ handover' = [handover EXCEPT ![h] = [to |-> handover[h].to, state |-> "taken_over"]]
      BY <2>2 DEF CommitTakeover, Commit
    <3>2. h \in Handovers /\ handover[h].state = "pending_takeover"
      BY <1>0, <3>1 DEF HandoverFit
    <3>3. handover'[h].state = "taken_over"
      BY <1>0, <3>1, <3>2
    <3>4. \A g \in Handovers \ {h} : handover'[g].state # "pending_takeover"
      BY <1>0, <3>1, <3>2 DEF SerialInv, HandoverFreezesAudit
    <3> HIDE DEF h
    <3>5. \A g \in Handovers : handover'[g].state # "pending_takeover"
      BY <3>3, <3>4
    <3> QED BY <3>5 DEF HandoverFreezesAudit
  <2>3. CASE ~CommitHandover(r) /\ ~CommitTakeover(r)
    <3>1. handover' = handover /\ call[r].op \notin {"handover", "takeover"}
      BY <2>3 DEF CommitWork, CommitCancel, CommitAssignCAS, CommitAssign, CommitClearAssignment,
         CommitPoolClaim, CommitSubmitDesign, CommitUpload, CommitAuditClaim, CommitApprove,
         CommitReject, CommitTransfer, CommitOutsource,
         CommitReceive, CommitWarehouseReject, CommitComplete, CommitClose, Commit
    <3>2. CASE NoPendingHandover
      BY <3>1, <3>2 DEF NoPendingHandover, HandoverFreezesAudit
    <3>3. CASE ~NoPendingHandover
      <4>1. status \in AuditStatuses \cup {"Cancelled", "Archived"} /\ handler = Nobody
        BY <3>3 DEF NoPendingHandover, SerialInv, HandoverFreezesAudit
      <4>2. op # "pool_claim"
        BY <1>1, <4>1 DEF SerialInv, PoolIsEarly, AuditStatuses
      <4>3. handler' = Nobody /\ status' \in {status, "Cancelled"}
        BY <1>0, <1>1, <1>2, <3>1, <3>3, <4>1, <4>2 DEF HandoverFit, Written
      <4> QED BY <3>1, <4>1, <4>3 DEF SerialInv, HandoverFreezesAudit
    <3> QED BY <3>2, <3>3
  <2> QED BY <2>1, <2>2, <2>3
<1> QED BY <1>3, <1>4, <1>5, <1>6 DEF SerialInv

\* The jobs move the row on only from statuses that no decision but the
\* warehouse's and the creator's was made in.
LEMMA JobSerial ==
  ASSUME SerialInv, TypeOK',
         UNCHANGED <<designer, handler, designModule, handover, call>>,
         \/ status' = status
         \/ status \in ReleaseStatuses /\ status' = "Completed"
         \/ status \in {"Completed", "Cancelled"} /\ status' = "Archived"
  PROVE  SerialInv'
<1>1. ASSUME status' # status
      PROVE  /\ status' \in {"Completed", "Archived"}
             /\ status \notin AuditStatuses \cup {"PendingAssign", "InProgress"}
             /\ status' = "Completed" => status # "Cancelled" /\ status # "Archived"
  BY <1>1 DEF ReleaseStatuses, AuditStatuses
<1>2. \A d, h : Owned("Completed", d, h) /\ Owned("Archived", d, h)
  BY DEF Owned, Waiting, AuditStatuses, DesignStatuses
<1>3. Owned(status', designer', handler')
  BY <1>1, <1>2 DEF SerialInv
<1>4. PoolIsEarly' /\ (status' # status => designModule # "pending_claim")
  BY <1>1 DEF SerialInv, PoolIsEarly
<1>5. HandoverFreezesAudit'
  BY <1>1 DEF SerialInv, HandoverFreezesAudit
<1>6. ASSUME NEW q \in Requests PROVE OwnershipFit(call[q])' /\ HandoverFit(call[q])'
  <2> DEFINE c == call[q]
  <2>1. OwnershipFit(c) /\ HandoverFit(c)
    BY DEF SerialInv
  <2>2. CASE status' = status
    BY <2>1, <2>2 DEF OwnershipFit, HandoverFit, Lands, NoPendingHandover
  <2>3. CASE status' # status
    <3>1. Lands(c) => Owned(Written(c.status, status'), Written(c.designer, designer'),
                            Written(c.handler, handler'))
      BY <1>1, <1>2, <2>3 DEF Lands, Written
    <3>2. c.op = "clear" => Written(c.status, status') = "PendingAssign"
      BY <1>1, <2>1, <2>3 DEF OwnershipFit, Written
    <3>3. c.op # "handover"
      BY <1>1, <2>1, <2>3 DEF HandoverFit
    <3>4. OwnershipFit(call[q])'
      BY <1>4, <2>1, <2>3, <3>1, <3>2 DEF OwnershipFit, Lands
    <3>5. HandoverFit(call[q])'
      BY <2>1, <3>3 DEF HandoverFit, NoPendingHandover
    <3> QED BY <3>4, <3>5
  <2> QED BY <2>2, <2>3
<1> QED BY <1>3, <1>4, <1>5, <1>6 DEF SerialInv

LEMMA SerialNext ==
  ASSUME SerialInv, TypeOK', [Next]_vars, [CommitsAlone]_vars
  PROVE  SerialInv'
<1>1. ASSUME NEW r \in Requests, RequestFails(r) PROVE SerialInv'
  <2>1. /\ UNCHANGED <<status, designer, handler, designModule, handover>>
        /\ \A q \in Requests : call'[q] = NoCall \/ call'[q] = call[q]
    BY <1>1 DEF RequestFails, taskVars, SerialInv, TypeOK
  <2>2. ASSUME NEW q \in Requests PROVE OwnershipFit(call[q])' /\ HandoverFit(call[q])'
    <3>1. PICK d : call'[q] = d /\ OwnershipFit(d) /\ HandoverFit(d)
      BY <2>1, NoCallFits DEF Fits, SerialInv
    <3> QED BY <2>1, <3>1 DEF OwnershipFit, HandoverFit, Lands, NoPendingHandover
  <2>3. \A q \in Requests : OwnershipFit(call[q])' /\ HandoverFit(call[q])'
    BY <2>2
  <2> QED BY <2>1, <2>3 DEF SerialInv, PoolIsEarly, HandoverFreezesAudit
<1>2. CASE TriggerFiling \/ ArchiveTasks \/ Job \/ UNCHANGED vars
  <2>1. UNCHANGED <<designer, handler, designModule, handover, call>>
    BY <1>2 DEF TriggerFiling, ArchiveTasks, Job, ListCandidates, LoadTask, ReleaseOne, SkipTask,
                vars, taskVars
  <2>2. \/ status' = status
        \/ status \in ReleaseStatuses /\ status' = "Completed"
        \/ status \in {"Completed", "Cancelled"} /\ status' = "Archived"
    BY <1>2 DEF TriggerFiling, ArchiveTasks, Job, ListCandidates, LoadTask, ReleaseOne, SkipTask,
                vars, taskVars, ReleaseStatuses
  <2> QED BY <2>1, <2>2, JobSerial
<1>3. ASSUME NEW r \in Requests, CommitWork(r) \/ CommitCancel(r) PROVE SerialInv'
  <2>1. CASE UNCHANGED vars
    BY <1>2, <2>1
  <2>2. CASE CommitsAlone
    BY <1>3, <2>2, CommitSerial
  <2> QED BY <2>1, <2>2
<1> QED BY <1>1, <1>2, <1>3, BeginSerial DEF Next

LEMMA SerialHolds == Spec /\ [][CommitsAlone]_vars => []SerialInv
<1>1. Init /\ TypeOK => SerialInv
  <2> SUFFICES ASSUME Init, TypeOK PROVE SerialInv
    OBVIOUS
  <2>1. Owned(status, designer, handler) /\ PoolIsEarly
    BY DEF Init, Owned, PoolIsEarly, Waiting, AuditStatuses
  <2>2. \A h \in Handovers : handover[h].state = "none"
    BY DEF Init
  <2>3. HandoverFreezesAudit
    BY <2>2 DEF HandoverFreezesAudit
  <2>4. \A q \in Requests : OwnershipFit(call[q]) /\ HandoverFit(call[q])
    BY NoCallFits DEF Init, Fits
  <2> QED BY <2>1, <2>3, <2>4 DEF SerialInv
<1>2. SerialInv /\ TypeOK' /\ [Next]_vars /\ [CommitsAlone]_vars => SerialInv'
  BY SerialNext
<1> QED BY <1>1, <1>2, TypeCorrect, PTL DEF Spec

\* As long as every request that commits does so alone, and with the release job,
\* the archive job and the filing at any moment, the current handler is the one the
\* status calls for.
THEOREM OwnershipIsFreshHolds == Spec /\ [][CommitsAlone]_vars => []OwnershipIsFresh
<1>1. SerialInv => OwnershipIsFresh
  BY DEF SerialInv, Owned, OwnershipIsFresh, Waiting
<1> QED BY <1>1, SerialHolds, PTL

\* As long as every request that commits does so alone, a pending handover freezes
\* the audit of a task until it is taken over or the task is cancelled.
THEOREM HandoverFreezesAuditHolds == Spec /\ [][CommitsAlone]_vars => []HandoverFreezesAudit
<1>1. SerialInv => HandoverFreezesAudit
  BY DEF SerialInv
<1> QED BY <1>1, SerialHolds, PTL
-----------------------------------------------------------------------------
(* The refinement of TaskLifecycle.  Between the read of a request that     *)
(* commits and its commit only the jobs move the task on, so the edge it    *)
(* has decided to take is still there, unless the task is at its end.       *)

\* What a request is about to do is a step of the lifecycle, or its commit is
\* refused.
Decided(c) ==
  \/ c.status = Keep /\ c.op \notin {"receive", "reject_wh", "complete"}
  \/ c.op \in {"assign_cas", "assign", "pool_claim"} /\ c.status = "InProgress"
       /\ status = "PendingAssign"
  \/ c.op = "clear" /\ c.status = "PendingAssign" /\ status = "InProgress"
  \/ c.op \in {"submit", "upload"} /\ c.status = "PendingAuditA"
       /\ status \in DesignStatuses \cup {"PendingAssign"}
  \/ c.op = "approve" /\ status \in AuditStatuses /\ c.status \in ApproveTargets(status)
  \/ c.op = "reject" /\ status \in AuditStatuses /\ c.status = RejectedStatus(status)
  \/ c.op = "outsource" /\ c.status = "Outsourcing" /\ status = "PendingOutsource"
  \/ c.op \in {"receive", "reject_wh"} /\ c.fresh
       /\ (status = "PendingWarehouseReceive" \/ receipt # "none")
  \/ c.op = "complete" /\ status = "PendingProductionTransfer"
  \/ c.op \in {"complete", "close"} /\ status \in {"PendingClose", "Completed", "Archived"}
       /\ receipt = "completed" /\ (c.op = "complete" => status # "PendingClose")
  \/ c.op = "cancel"

\* The columns of the warehouse's requests and of a cancel.
Writes(c) ==
  /\ c.op = "receive" => c.status = "PendingProductionTransfer"
  /\ c.op = "reject_wh" => c.status = "RejectedByWarehouse"
  /\ c.op = "complete" => c.status = "PendingClose"
  /\ c.op = "close" => c.status = "Completed"
  /\ c.op = "cancel" => c.status = "Cancelled"

BeforeReceipt == {"PendingAssign", "InProgress", "PendingOutsource", "Outsourcing",
                  "RejectedByAuditA", "RejectedByAuditB", "PendingWarehouseReceive"}
                   \cup AuditStatuses

\* The warehouse has no receipt of a task that was not received.
ReceiptIsNew == status \in BeforeReceipt => receipt = "none"

LifeInv ==
  /\ ReceiptIsNew
  /\ \A r \in Requests : Decided(call[r]) /\ Writes(call[r])

\* A request that decides on nothing does nothing.
LEMMA NoCallDecided == Decided(NoCall) /\ Writes(NoCall)
BY DEF Decided, Writes, NoCall, Call

\* The decision of a request that begins is a step of the lifecycle.
LEMMA BeginDecides ==
  ASSUME FlowInv, ReceiptIsNew, NEW r \in Requests, BeginWork(r) \/ BeginCancel(r)
  PROVE  \E c : Begin(r, c) /\ Decided(c) /\ Writes(c)
<1> DEFINE Goal == \E c : Begin(r, c) /\ Decided(c) /\ Writes(c)
<1> USE DEF ReceiptIsNew, BeforeReceipt
<1>1. ASSUME NEW u, NEW d, BeginAssign(r, u, d) PROVE Goal
  BY <1>1 DEF BeginAssign, Call, Decided, Writes
<1>2. ASSUME NEW u, NEW d, BeginReassign(r, u, d) PROVE Goal
  BY <1>2 DEF BeginReassign, Call, Decided, Writes
<1>3. ASSUME NEW u, BeginClearAssignment(r, u) PROVE Goal
  BY <1>3 DEF BeginClearAssignment, Call, Decided, Writes
<1>4. ASSUME NEW u, BeginPoolClaim(r, u) PROVE Goal
  BY <1>4 DEF BeginPoolClaim, Call, Decided, Writes
<1>5. ASSUME NEW u, BeginSubmitDesign(r, u) PROVE Goal
  BY <1>5 DEF BeginSubmitDesign, Call, Decided, Writes
<1>6. ASSUME NEW u, NEW b \in BOOLEAN, BeginUpload(r, u, b) PROVE Goal
  BY <1>6 DEF BeginUpload, Call, Decided, Writes
<1>7. ASSUME NEW u, BeginAuditClaim(r, u) PROVE Goal
  BY <1>7 DEF BeginAuditClaim, Call, Decided, Writes
<1>8. ASSUME NEW u, NEW s, BeginApprove(r, u, s) PROVE Goal
  BY <1>8 DEF BeginApprove, AuditAllowed, Call, Decided, Writes
<1>9. ASSUME NEW u, BeginReject(r, u) PROVE Goal
  BY <1>9 DEF BeginReject, AuditAllowed, Call, Decided, Writes
<1>10. ASSUME NEW u, NEW a, BeginTransfer(r, u, a) PROVE Goal
  BY <1>10 DEF BeginTransfer, Call, Decided, Writes
<1>11. ASSUME NEW u, NEW a, NEW h, BeginHandover(r, u, a, h) PROVE Goal
  <2> DEFINE c == [Call("handover", Keep, Keep, Nobody) EXCEPT !.to = a, !.ho = h]
  <2>1. Begin(r, c)
    BY <1>11 DEF BeginHandover
  <2>2. c.op = "handover" /\ c.status = Keep
    BY DEF Call
  <2> HIDE DEF c
  <2> QED BY <2>1, <2>2 DEF Decided, Writes
<1>12. ASSUME NEW u, NEW h, BeginTakeover(r, u, h) PROVE Goal
  BY <1>12 DEF BeginTakeover, Call, Decided, Writes
<1>13. ASSUME NEW u, BeginOutsource(r, u) PROVE Goal
  BY <1>13 DEF BeginOutsource, Call, Decided, Writes
<1>14. ASSUME NEW u, BeginReceive(r, u) PROVE Goal
  <2> DEFINE c == [Call("receive", "PendingProductionTransfer", Keep, u)
                     EXCEPT !.fresh = (receipt = "none")]
  <2>1. Begin(r, c) /\ status = "PendingWarehouseReceive"
    BY <1>14 DEF BeginReceive
  <2>2. c.op = "receive" /\ c.status = "PendingProductionTransfer" /\ c.fresh = (receipt = "none")
    BY DEF Call
  <2> HIDE DEF c
  <2> QED BY <2>1, <2>2 DEF Decided, Writes
<1>15. ASSUME NEW u, BeginWarehouseReject(r, u) PROVE Goal
  <2> DEFINE c == [Call("reject_wh", "RejectedByWarehouse", Keep, designer)
                     EXCEPT !.fresh = (receipt = "none")]
  <2>1. Begin(r, c) /\ status = "PendingWarehouseReceive"
    BY <1>15 DEF BeginWarehouseReject
  <2>2. c.op = "reject_wh" /\ c.status = "RejectedByWarehouse" /\ c.fresh = (receipt = "none")
    BY DEF Call
  <2> HIDE DEF c
  <2> QED BY <2>1, <2>2 DEF Decided, Writes
<1>16. ASSUME NEW u, BeginComplete(r, u) PROVE Goal
  BY <1>16 DEF BeginComplete, Call, Decided, Writes
<1>17. ASSUME NEW u, BeginClose(r, u) PROVE Goal
  BY <1>17 DEF BeginClose, Call, Decided, Writes
<1>18. ASSUME BeginCancel(r) PROVE Goal
  BY <1>18 DEF BeginCancel, Call, Decided, Writes
<1> HIDE DEF Goal
<1>19. BeginWork(r) => Goal
  BY <1>1, <1>2, <1>3, <1>4, <1>5, <1>6, <1>7, <1>8, <1>9, <1>10, <1>11, <1>12, <1>13, <1>14,
     <1>15, <1>16, <1>17
     DEF BeginWork
<1> QED BY <1>18, <1>19 DEF Goal

\* What is decided is what the commit does.
LEMMA CommitFollows ==
  ASSUME FlowInv, LifeInv, NEW r \in Requests, CommitWork(r) \/ CommitCancel(r)
  PROVE  [Lifecycle!Next]_(Lifecycle!lifecycleVars) /\ ReceiptIsNew'
<1> DEFINE c == call[r]
<1>0. Decided(c) /\ Writes(c) /\ Keep \notin Statuses
  BY TaskFlowAssumption DEF LifeInv
<1>1. status' = IF c.status = Keep THEN status ELSE c.status
  BY DEF CommitWork, CommitCancel, CommitAssignCAS, CommitAssign, CommitClearAssignment,
         CommitPoolClaim, CommitSubmitDesign, CommitUpload, CommitAuditClaim, CommitApprove,
         CommitReject, CommitTransfer, CommitHandover, CommitTakeover, CommitOutsource,
         CommitReceive, CommitWarehouseReject, CommitComplete, CommitClose, Commit, WriteTask
<1>2. \/ c.op = "receive" /\ (c.fresh => receipt = "none") /\ receipt' = "received"
      \/ c.op = "reject_wh" /\ (c.fresh => receipt = "none") /\ receipt' = "rejected"
      \/ c.op = "complete" /\ receipt' = "completed"
      \/ c.op \notin {"receive", "reject_wh", "complete"} /\ receipt' = receipt
  BY DEF CommitWork, CommitCancel, CommitAssignCAS, CommitAssign, CommitClearAssignment,
         CommitPoolClaim, CommitSubmitDesign, CommitUpload, CommitAuditClaim, CommitApprove,
         CommitReject, CommitTransfer, CommitHandover, CommitTakeover, CommitOutsource,
         CommitReceive, CommitWarehouseReject, CommitComplete, CommitClose, Commit
<1>3. status = "PendingProductionTransfer" => receipt = "received"
  BY DEF FlowInv, ReceiptAgreesWithStatus
<1> HIDE DEF c
<1> USE DEF LifeInv, ReceiptIsNew, BeforeReceipt, Statuses
<1>4. CASE c.op \in {"receive", "reject_wh"}
  <2>1. /\ status = "PendingWarehouseReceive" /\ receipt = "none"
        /\ status' = c.status
    BY <1>0, <1>1, <1>2, <1>4 DEF Decided, Writes
  <2>2. Lifecycle!Receive \/ Lifecycle!RejectAtWarehouse
    BY <1>0, <1>2, <1>4, <2>1 DEF Writes, Lifecycle!Receive, Lifecycle!RejectAtWarehouse,
                                  Lifecycle!Handle
  <2>3. status' \notin BeforeReceipt
    BY <1>0, <1>4, <2>1 DEF Writes, AuditStatuses
  <2> QED BY <2>2, <2>3 DEF Lifecycle!Next
<1>5. CASE c.op = "complete"
  <2>1. /\ \/ status = "PendingProductionTransfer"
           \/ status \in {"Completed", "Archived"} /\ receipt = "completed"
        /\ status' = "PendingClose" /\ receipt' = "completed"
    BY <1>0, <1>1, <1>2, <1>5 DEF Decided, Writes
  <2>2. Lifecycle!Complete \/ Lifecycle!TakeBack
    BY <1>3, <2>1 DEF Lifecycle!Complete, Lifecycle!TakeBack, Lifecycle!Handle
  <2> QED BY <2>1, <2>2 DEF Lifecycle!Next, AuditStatuses
<1>6. CASE c.op = "close"
  <2>1. /\ status \in {"PendingClose", "Completed", "Archived"} /\ receipt = "completed"
        /\ status' = "Completed" /\ receipt' = "completed"
    BY <1>0, <1>1, <1>2, <1>6 DEF Decided, Writes
  <2>2. Lifecycle!Close \/ Lifecycle!TakeBack
    BY <2>1 DEF Lifecycle!Close, Lifecycle!TakeBack, Lifecycle!Handle
  <2> QED BY <2>1, <2>2 DEF Lifecycle!Next, AuditStatuses
<1>7. CASE c.op = "cancel"
  <2>1. status' = "Cancelled" /\ receipt' = receipt
    BY <1>0, <1>1, <1>2, <1>7 DEF Writes
  <2> QED BY <2>1 DEF Lifecycle!Next, Lifecycle!Cancel, AuditStatuses
<1>8. CASE c.op \notin {"receive", "reject_wh", "complete", "close", "cancel"}
  <2>1. receipt' = receipt
    BY <1>2, <1>8
  <2>2. CASE c.status = Keep
    BY <1>1, <2>1, <2>2 DEF Lifecycle!lifecycleVars
  <2>3. CASE c.status # Keep
    <3>1. status' = c.status
      BY <1>1, <2>3
    <3>2. \/ status = "PendingAssign" /\ status' = "InProgress"
          \/ status = "InProgress" /\ status' = "PendingAssign"
          \/ status \in DesignStatuses \cup {"PendingAssign"} /\ status' = "PendingAuditA"
          \/ status \in AuditStatuses /\ status' \in ApproveTargets(status)
          \/ status \in AuditStatuses /\ status' = RejectedStatus(status)
          \/ status = "PendingOutsource" /\ status' = "Outsourcing"
      BY <1>0, <1>8, <2>3, <3>1 DEF Decided
    <3>3. status \in BeforeReceipt
      BY <3>2 DEF DesignStatuses
    <3>4. \/ Lifecycle!Assign \/ Lifecycle!Unassign \/ Lifecycle!Submit
          \/ Lifecycle!Approve \/ Lifecycle!Reject \/ Lifecycle!Outsource
      BY <2>1, <3>2
         DEF DesignStatuses, AuditStatuses, ApproveTargets, RejectedStatus,
             Lifecycle!Assign, Lifecycle!Unassign, Lifecycle!Submit, Lifecycle!Approve,
             Lifecycle!Reject, Lifecycle!Outsource, Lifecycle!Move
    <3> QED BY <2>1, <3>3, <3>4 DEF Lifecycle!Next
  <2> QED BY <2>2, <2>3
<1> QED BY <1>4, <1>5, <1>6, <1>7, <1>8

\* The jobs take steps of the lifecycle, and what is decided on the way stays
\* decided.
LEMMA JobFollows ==
  ASSUME FlowInv, LifeInv, ReleaseOne \/ ArchiveTasks
  PROVE  Lifecycle!Next /\ LifeInv'
<1> USE DEF LifeInv, ReceiptIsNew, BeforeReceipt
<1>0. /\ status = "PendingProductionTransfer" => receipt = "received"
      /\ status = "PendingClose" => receipt = "completed"
  BY DEF FlowInv, ReceiptAgreesWithStatus
<1>1. \/ /\ status = "PendingWarehouseReceive" /\ receipt = "none"
         /\ status' = "Completed" /\ receipt' = "received"
      \/ /\ status = "PendingProductionTransfer"
         /\ status' = "Completed" /\ receipt' = "completed"
      \/ /\ status = "PendingClose" /\ receipt = "completed"
         /\ status' = "Completed" /\ receipt' = "completed"
      \/ status \in {"Completed", "Cancelled"} /\ status' = "Archived" /\ receipt' = receipt
  BY <1>0 DEF ReleaseOne, ArchiveTasks
<1>2. call' = call
  BY DEF ReleaseOne, ArchiveTasks
<1>3. Lifecycle!Release \/ Lifecycle!Archive
  BY <1>0, <1>1 DEF Lifecycle!Release, Lifecycle!Archive, Lifecycle!Close, Lifecycle!Handle,
                    Lifecycle!Move
<1>4. ASSUME NEW r \in Requests PROVE Decided(call[r])' /\ Writes(call[r])'
  <2>1. Decided(call[r]) /\ Writes(call[r])
    OBVIOUS
  <2>2. Writes(call[r])'
    BY <1>2, <2>1 DEF Writes
  <2>3. Decided(call[r])'
    BY <1>1, <1>2, <2>1 DEF Decided, DesignStatuses, AuditStatuses
  <2> QED BY <2>2, <2>3
<1>5. ReceiptIsNew'
  BY <1>1 DEF AuditStatuses
<1>6. LifeInv'
  BY <1>4, <1>5
<1> QED BY <1>3, <1>6 DEF Lifecycle!Next

LEMMA LifeNext ==
  ASSUME FlowInv, LifeInv, [Next]_vars, [CommitsAlone]_vars
  PROVE  LifeInv' /\ [Lifecycle!Next]_(Lifecycle!lifecycleVars)
<1> USE DEF LifeInv
<1>0. call \in [Requests -> Calls]
  BY DEF FlowInv, TypeOK
<1>1. ASSUME UNCHANGED <<status, receipt>>,
             \A q \in Requests :
               call'[q] = call[q] \/ (Decided(call'[q]) /\ Writes(call'[q]))
      PROVE  LifeInv' /\ [Lifecycle!Next]_(Lifecycle!lifecycleVars)
  <2>1. ASSUME NEW q \in Requests PROVE Decided(call[q])' /\ Writes(call[q])'
    <3>1. PICK d : call'[q] = d /\ Decided(d) /\ Writes(d)
      BY <1>1
    <3> QED BY <1>1, <3>1 DEF Decided, Writes
  <2>2. ReceiptIsNew'
    BY <1>1 DEF ReceiptIsNew
  <2> QED BY <1>1, <2>1, <2>2 DEF Lifecycle!lifecycleVars
<1>2. ASSUME NEW r \in Requests, BeginWork(r) \/ BeginCancel(r)
      PROVE  LifeInv' /\ [Lifecycle!Next]_(Lifecycle!lifecycleVars)
  <2>1. PICK c : Begin(r, c) /\ Decided(c) /\ Writes(c)
    BY <1>2, BeginDecides
  <2>2. /\ UNCHANGED <<status, receipt>>
        /\ \A q \in Requests : call'[q] = call[q] \/ call'[q] = c
    BY <1>0, <2>1 DEF Begin, taskVars
  <2> QED BY <1>1, <2>1, <2>2
<1>3. ASSUME NEW r \in Requests, RequestFails(r)
      PROVE  LifeInv' /\ [Lifecycle!Next]_(Lifecycle!lifecycleVars)
  <2>1. /\ UNCHANGED <<status, receipt>>
        /\ \A q \in Requests : call'[q] = call[q] \/ call'[q] = NoCall
    BY <1>0, <1>3 DEF RequestFails, taskVars
  <2> QED BY <1>1, <2>1, NoCallDecided
<1>4. ASSUME NEW r \in Requests, CommitWork(r) \/ CommitCancel(r), CommitsAlone
      PROVE  LifeInv' /\ [Lifecycle!Next]_(Lifecycle!lifecycleVars)
  <2>1. [Lifecycle!Next]_(Lifecycle!lifecycleVars) /\ ReceiptIsNew'
    BY <1>4, CommitFollows
  <2>2. call' = [call EXCEPT ![r] = NoCall]
    BY <1>4 DEF CommitWork, CommitCancel, CommitAssignCAS, CommitAssign, CommitClearAssignment,
         CommitPoolClaim, CommitSubmitDesign, CommitUpload, CommitAuditClaim, CommitApprove,
         CommitReject, CommitTransfer, CommitHandover, CommitTakeover, CommitOutsource,
         CommitReceive, CommitWarehouseReject, CommitComplete, CommitClose, Commit
  <2>3. ASSUME NEW q \in Requests PROVE Decided(call[q])' /\ Writes(call[q])'
    <3>1. CASE q = r
      <4>1. call'[q] = NoCall
        BY <1>0, <2>2, <3>1
      <4> QED BY <4>1 DEF Decided, Writes, NoCall, Call
    <3>2. CASE q # r
      <4>1. call'[q] = call[q] /\ call[q].op = "none"
        BY <1>0, <1>4, <2>2, <3>2 DEF CommitsAlone
      <4>2. call[q].status = Keep
        BY <4>1 DEF Decided
      <4> QED BY <4>1, <4>2 DEF Decided, Writes
    <3> QED BY <3>1, <3>2
  <2> QED BY <2>1, <2>3
<1>5. CASE ReleaseOne \/ ArchiveTasks
  BY <1>5, JobFollows
<1>6. CASE TriggerFiling \/ ListCandidates \/ LoadTask \/ SkipTask \/ UNCHANGED vars
  <2>1. UNCHANGED <<status, receipt, call>>
    BY <1>6 DEF TriggerFiling, ListCandidates, LoadTask, SkipTask, vars, taskVars
  <2> QED BY <1>1, <2>1
<1> QED BY <1>2, <1>3, <1>4, <1>5, <1>6 DEF Next, Job

\* As long as every request that commits does so alone, and with the release job,
\* the archive job and the filing at any moment, the task moves along the one map
\* of TaskLifecycle, its receipt with it.
THEOREM TaskLifecycleIsImplemented ==
  Spec /\ [][CommitsAlone]_vars => ImplementsTaskLifecycle
<1>1. Init => LifeInv /\ Lifecycle!Init
  <2> SUFFICES ASSUME Init PROVE LifeInv /\ Lifecycle!Init
    OBVIOUS
  <2>1. \A q \in Requests : Decided(call[q]) /\ Writes(call[q])
    BY NoCallDecided DEF Init
  <2> QED BY <2>1 DEF Init, LifeInv, ReceiptIsNew, Lifecycle!Init
<1>2. FlowInv /\ LifeInv /\ [Next]_vars /\ [CommitsAlone]_vars
        => LifeInv' /\ [Lifecycle!Next]_(Lifecycle!lifecycleVars)
  BY LifeNext
<1>3. Spec => []FlowInv
  BY FlowInvariant
<1> QED BY <1>1, <1>2, <1>3, PTL DEF Spec, ImplementsTaskLifecycle, Lifecycle!Spec
=============================================================================

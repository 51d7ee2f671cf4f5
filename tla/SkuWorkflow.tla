----------------------------- MODULE SkuWorkflow -----------------------------
(***************************************************************************)
(* The SKU state machine that policy/engine.go declares to be "the single  *)
(* source of truth for transition legality".  It is the abstract           *)
(* specification that Distribution, whose handlers write                   *)
(* skus.workflow_status with hard-coded compare-and-swaps, must implement. *)
(***************************************************************************)
CONSTANT SKUs

VARIABLE skuStatus

(* domain.WorkflowStatus *)
WorkflowStatus ==
  {"Draft", "Submitted", "AuditA_Pending", "AuditA_Approved",
   "AuditA_Rejected", "AuditB_Pending", "AuditB_Approved",
   "AuditB_Rejected", "Approved_PendingVerify", "Approved",
   "Distribution_Running", "Completed", "Blocked", "Cancelled"}

(* The map allowedTransitions: the statuses a SKU in status `from' may be  *)
(* moved to.  Completed and Cancelled are terminal.                        *)
allowedTransitions ==
  [from \in WorkflowStatus |->
     CASE from = "Draft"                  -> {"Submitted", "Cancelled"}
       [] from = "Submitted"              -> {"AuditA_Pending", "Cancelled"}
       [] from = "AuditA_Pending"         -> {"AuditA_Approved", "AuditA_Rejected",
                                              "Blocked", "Cancelled"}
       [] from = "AuditA_Approved"        -> {"AuditB_Pending",
                                              "Approved_PendingVerify", "Cancelled"}
       [] from = "AuditA_Rejected"        -> {"Draft", "Cancelled"}
       [] from = "AuditB_Pending"         -> {"AuditB_Approved", "AuditB_Rejected",
                                              "Blocked", "Cancelled"}
       [] from = "AuditB_Approved"        -> {"Approved_PendingVerify", "Cancelled"}
       [] from = "AuditB_Rejected"        -> {"Draft", "Cancelled"}
       [] from = "Approved_PendingVerify" -> {"Approved", "Blocked", "Cancelled"}
       [] from = "Approved"               -> {"Distribution_Running", "Cancelled"}
       [] from = "Distribution_Running"   -> {"Completed", "Blocked", "Cancelled"}
       [] from = "Blocked"                -> {"AuditA_Pending", "Cancelled"}
       [] OTHER                           -> {}]

CanTransition(from, to) == to \in allowedTransitions[from]

Init == skuStatus \in [SKUs -> WorkflowStatus]

Transition(s, to) ==
  /\ CanTransition(skuStatus[s], to)
  /\ skuStatus' = [skuStatus EXCEPT ![s] = to]

Next == \E s \in SKUs, to \in WorkflowStatus : Transition(s, to)

Spec == Init /\ [][Next]_skuStatus
=============================================================================

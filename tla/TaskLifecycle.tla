--------------------------- MODULE TaskLifecycle ---------------------------
(***************************************************************************)
(* The V7 task state machine (domain/enums_v7.go) for a design task of the *)
(* normal lane, as the services promise it to people who work on a task    *)
(* one after the other: its status and its warehouse receipt, and nothing  *)
(* about requests, roles or jobs.                                          *)
(***************************************************************************)
VARIABLES status, receipt

lifecycleVars == <<status, receipt>>

Init ==
  /\ status \in {"PendingAssign", "InProgress"}
  /\ receipt = "none"

Move(from, to) ==
  /\ status \in from
  /\ status' = to
  /\ UNCHANGED receipt

\* A step of the warehouse, which writes the receipt together with the status.
Handle(from, old, to, new) ==
  /\ status = from /\ receipt = old
  /\ status' = to /\ receipt' = new

Assign == Move({"PendingAssign"}, "InProgress")

Unassign == Move({"InProgress"}, "PendingAssign")

Submit ==
  Move({"PendingAssign", "InProgress", "RejectedByAuditA", "RejectedByAuditB"}, "PendingAuditA")

Approve ==
  \/ \E to \in {"PendingAuditB", "PendingOutsource", "PendingWarehouseReceive"} :
       Move({"PendingAuditA"}, to)
  \/ Move({"PendingAuditB"}, "PendingWarehouseReceive")

Reject ==
  \/ Move({"PendingAuditA"}, "RejectedByAuditA")
  \/ Move({"PendingAuditB"}, "RejectedByAuditB")

Outsource == Move({"PendingOutsource"}, "Outsourcing")

Receive == Handle("PendingWarehouseReceive", "none", "PendingProductionTransfer", "received")

RejectAtWarehouse == Handle("PendingWarehouseReceive", "none", "RejectedByWarehouse", "rejected")

Complete == Handle("PendingProductionTransfer", "received", "PendingClose", "completed")

Close == Handle("PendingClose", "completed", "Completed", "completed")

\* The auto-release job does the rest of the warehouse's work at once; the
\* receipt it creates itself stays received.
Release ==
  \/ Handle("PendingWarehouseReceive", "none", "Completed", "received")
  \/ Handle("PendingProductionTransfer", "received", "Completed", "completed")
  \/ Close

\* The one way back: a completion or a close that was decided before the job
\* finished the task, and commits after it.
TakeBack ==
  \E from \in {"Completed", "Archived"}, to \in {"PendingClose", "Completed"} :
    Handle(from, "completed", to, "completed")

\* The creator cancels in any status.
Cancel ==
  /\ status' = "Cancelled"
  /\ UNCHANGED receipt

Archive == Move({"Completed", "Cancelled"}, "Archived")

Next ==
  \/ Assign \/ Unassign
  \/ Submit
  \/ Approve \/ Reject
  \/ Outsource
  \/ Receive \/ RejectAtWarehouse \/ Complete \/ Close
  \/ Release \/ TakeBack
  \/ Cancel \/ Archive

Spec == Init /\ [][Next]_lifecycleVars
=============================================================================

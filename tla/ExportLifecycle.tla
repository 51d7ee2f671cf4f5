-------------------------- MODULE ExportLifecycle --------------------------
(***************************************************************************)
(* What the export center promises of one export job: its status and the   *)
(* ledger of its attempts move together.  A job is queued, runs, and ends  *)
(* ready, failed or cancelled; every run is one attempt, closed with the   *)
(* outcome of the job; only a failed or cancelled job is queued again, and *)
(* a ready job stays ready.                                                *)
(***************************************************************************)
EXTENDS Sequences, Naturals

VARIABLES
    status,     \* the job
    ledger      \* the statuses of its attempts, oldest first

lifecycleVars == <<status, ledger>>

OutcomeOf(s) ==
    CASE s = "ready" -> "succeeded"
      [] s = "failed" -> "failed"
      [] OTHER -> "cancelled"

Init ==
    /\ status = "absent"
    /\ ledger = << >>

Create ==
    /\ status = "absent"
    /\ status' = "queued"
    /\ UNCHANGED ledger

Start ==
    /\ status = "queued"
    /\ status' = "running"
    /\ ledger' = Append(ledger, "running")

Finish(s) ==
    /\ status = "running"
    /\ status' = s
    /\ ledger' = [ledger EXCEPT ![Len(ledger)] = OutcomeOf(s)]

Drop(s) ==
    /\ status = "queued"
    /\ status' = s
    /\ UNCHANGED ledger

Requeue ==
    /\ status \in {"failed", "cancelled"}
    /\ status' = "queued"
    /\ UNCHANGED ledger

Next ==
    \/ Create
    \/ Start
    \/ \E s \in {"ready", "failed", "cancelled"} : Finish(s)
    \/ \E s \in {"failed", "cancelled"} : Drop(s)
    \/ Requeue

Spec == Init /\ [][Next]_lifecycleVars

=============================================================================

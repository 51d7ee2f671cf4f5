---------------------------- MODULE ProductSync ----------------------------
(***************************************************************************)
(* Product management: one row of erp_product_sync_records per SKU of a    *)
(* task, the background worker that pushes queued rows to the ERP          *)
(* (service/product_management_service.go, workers/product_management_     *)
(* sync_worker.go), the synchronous image push that follows the closing of *)
(* a task, the pages that re-select a row's picture while they list it,    *)
(* and the refresh that copies the task's filing status into the row.      *)
(*                                                                         *)
(* A row is read, the ERP is called, and the outcome is written by id: no  *)
(* write compares the claim token, so every interleaving of several        *)
(* operations on one row is possible.  Time is kept as what the queries    *)
(* ask of it: whether last_erp_checked_at is absent or ten minutes old,    *)
(* and whether sync_cooldown_until lies ahead.                             *)
(***************************************************************************)
EXTENDS Naturals, FiniteSets

CONSTANTS
    Records,    \* the rows of one task
    Pics,       \* the picture assets a row may name
    Workers,    \* server processes that run the sync worker
    Closers,    \* calls of AutoSyncImagesAfterTaskClosed
    Pages,      \* requests that list or re-select pictures
    Limit,      \* rows one worker pass claims
    NoPic, NoRecord,
    Dropped,    \* a picture the products table answered for and did not keep
    Fallback,   \* a push the ERP did not answer may go to the products table
    MaxRequests \* bound: requests, edits and filings in a behaviour

ASSUME LimitAssumption == Limit \in Nat \ {0}
ASSUME MaxRequestsAssumption == MaxRequests \in Nat
ASSUME FallbackAssumption == Fallback \in BOOLEAN
ASSUME NoPicAssumption == NoPic \notin Pics
ASSUME DroppedAssumption == Dropped \notin Pics \cup {NoPic}
ASSUME NoRecordAssumption == NoRecord \notin Records

VARIABLES
    row,        \* erp_product_sync_records
    filing,     \* task_sku_items.filing_status per row
    detail,     \* task_details.filing_status
    edited,     \* the task's product data against the row's copy
    erp,        \* what the ERP, and the products table for it, took of the SKU
    pass,       \* what each operation under way has read and has to do
    requests,   \* how many of MaxRequests have been made
    overtaken   \* history: the picture changed under a running operation

vars == <<row, filing, detail, edited, erp, pass, requests, overtaken>>

Actors == Workers \cup Closers \cup Pages
MaybePic == Pics \cup {NoPic}

InFlight == {"queued", "cooling_down", "syncing"}
Status == InFlight \cup {"pending_sync", "synced", "failed", "waiting_image"}
Filing == {"pending_filing", "filed", "filing_failed"}
Steps == {"base", "image", "wholeBase", "wholeImage"}
Results == {"none", "ok", "failed", "retry", "noImage"}

Row == [erp : Status, base : Status, image : Status, pic : MaybePic,
        onClose : BOOLEAN, manual : BOOLEAN, old : BOOLEAN, cooling : BOOLEAN]

\* Who took the pushes of a SKU, and the last picture that was taken.
Takers == {"nobody", "local", "erp"}
Product == [holder : Takers, pic : MaybePic \cup {Dropped}]

\* What an operation remembers of a row it has read.
Snapshot == [base : Status, image : Status, pic : MaybePic,
             onClose : BOOLEAN, manual : BOOLEAN]

\* Columns it does not go on to use are left at a fixed value.
Snap(uses, old) ==
    [base |-> IF "base" \in uses THEN old.base ELSE "pending_sync",
     image |-> IF "image" \in uses THEN old.image ELSE "pending_sync",
     pic |-> old.pic,
     onClose |-> "onClose" \in uses /\ old.onClose,
     manual |-> "manual" \in uses /\ old.manual]

\* Rows of the table t as an operation has just read them.
Read(uses, S, t) == [r \in S |-> Snap(uses, t[r])]

Snapshots == UNION {[S -> Snapshot] : S \in SUBSET Records}

\* An operation: rows it still has to turn to, the row it is at, the call it
\* makes for that row and the answer it got.
Pass == [todo : SUBSET Records, at : Records \cup {NoRecord}, step : Steps,
         result : Results, snap : Snapshots]

Idle == [todo |-> {}, at |-> NoRecord, step |-> "base", result |-> "none",
         snap |-> [r \in {} |-> 0]]

\* The rows an operation has read and is not finished with.
HeldBy(p) == p.todo \cup ({p.at} \ {NoRecord})
Holds(a) == HeldBy(pass[a])

TypeOK ==
    /\ row \in [Records -> Row]
    /\ filing \in [Records -> Filing]
    /\ detail \in Filing
    /\ edited \in [Records -> {"same", "newer", "older"}]
    /\ erp \in [Records -> Product]
    /\ requests \in 0..MaxRequests
    /\ overtaken \in [Records -> BOOLEAN]
    /\ pass \in [Actors -> Pass]
    /\ \A a \in Actors : Holds(a) \subseteq DOMAIN pass[a].snap

Init ==
    /\ row = [r \in Records |->
                [erp |-> "pending_sync", base |-> "pending_sync",
                 image |-> "waiting_image", pic |-> NoPic, onClose |-> FALSE,
                 manual |-> FALSE, old |-> TRUE, cooling |-> FALSE]]
    /\ filing = [r \in Records |-> "pending_filing"]
    /\ detail = "pending_filing"
    /\ edited = [r \in Records |-> "same"]
    /\ erp = [r \in Records |-> [holder |-> "nobody", pic |-> NoPic]]
    /\ pass = [a \in Actors |-> Idle]
    /\ requests = 0
    /\ overtaken = [r \in Records |-> FALSE]

-----------------------------------------------------------------------------
(* Writes of the repository.                                               *)

\* A write moves the row's updated_at past the task's.
Older(r) == IF edited[r] = "newer" THEN "older" ELSE edited[r]

Write(r, new) ==
    /\ row' = [row EXCEPT ![r] = new]
    /\ edited' = [edited EXCEPT ![r] = Older(r)]

\* Mutant: the new picture inherits the old one's status.
UpdateImageKeepsStatus(old, pic, onClose, manual, status) ==
    [old EXCEPT !.pic = pic, !.onClose = onClose, !.manual = manual,
                !.image = IF old.image = "synced" THEN old.image ELSE status]

\* UpdateImage: a changed picture joins the sync that is under way, and a
\* synced row has to be synced again.
UpdateImage(old, pic, onClose, manual, status) ==
    [old EXCEPT
       !.pic = pic, !.onClose = onClose, !.manual = manual,
       !.image = IF status = "pending_sync" /\ old.erp \in InFlight
                 THEN old.erp ELSE status,
       !.erp = IF old.erp = "synced" THEN "pending_sync" ELSE old.erp]

\* The claim of one row: erp_sync_status is always set, the parts only when
\* they are due or when the row's last check is ten minutes old.
ClaimedPart(old, status) ==
    IF status \in {"queued", "cooling_down"} \/ (status = "syncing" /\ old.old)
    THEN "syncing" ELSE status

ClaimedRow(old) ==
    [old EXCEPT !.erp = "syncing",
                !.base = ClaimedPart(old, old.base),
                !.image = ClaimedPart(old, old.image),
                !.old = FALSE]

DueStatus(old, status) ==
    \/ status = "queued"
    \/ status = "cooling_down" /\ ~old.cooling
    \/ status = "syncing" /\ old.old

\* Mutant: only the overall status is looked at.
DueOverall(old) == DueStatus(old, old.erp)

Due(old) == \E s \in {old.erp, old.base, old.image} : DueStatus(old, s)

Priority(old) ==
    LET parts == {old.erp, old.base, old.image}
    IN  IF "queued" \in parts THEN 0 ELSE IF "syncing" \in parts THEN 1 ELSE 2

\* The rows one pass claims: at most Limit due rows, queued rows first, then
\* stale ones, then cooled-down ones.
Claimable(S) ==
    LET due == {r \in Records : Due(row[r])}
    IN  /\ S \subseteq due
        /\ Cardinality(S) = IF Cardinality(due) <= Limit THEN Cardinality(due)
                            ELSE Limit
        /\ \A r \in S, q \in due \ S : Priority(row[r]) <= Priority(row[q])

\* RefreshReadModel on one row: the task's filing status v wins when it is
\* synced, an in-flight status stays, a failed one is offered again after an
\* edit, a synced one falls back when the copied data change.
Projected(f) == CASE f = "filed" -> "synced"
                  [] f = "filing_failed" -> "failed"
                  [] OTHER -> "pending_sync"

RefreshedPart(status, v, edit) ==
    CASE v = "synced" -> "synced"
      [] v # "synced" /\ status \in InFlight -> status
      [] v = "pending_sync" /\ status = "failed" /\ edit = "newer" -> "pending_sync"
      [] v # "synced" /\ status = "synced" /\ edit # "same" -> "pending_sync"
      [] OTHER -> status

Refreshed(r) ==
    LET old == row[r]
        v == Projected(filing[r])
        offered == v = "pending_sync" /\ edited[r] = "newer"
                     /\ "failed" \in {old.erp, old.base}
    IN  [old EXCEPT !.erp = RefreshedPart(old.erp, v, edited[r]),
                    !.base = RefreshedPart(old.base, v, edited[r]),
                    !.cooling = IF offered THEN FALSE ELSE old.cooling]

\* QueuePendingBaseSyncByTaskID on a refreshed row.
QueuedBase(old) ==
    IF old.base \in {"pending_sync", "failed"} /\ old.erp \notin InFlight
    THEN [old EXCEPT !.erp = "queued", !.base = "queued",
                     !.old = FALSE, !.cooling = TRUE]
    ELSE old

-----------------------------------------------------------------------------
(* Requests.                                                               *)

RefreshReadModel ==
    /\ row' = [r \in Records |-> Refreshed(r)]
    /\ edited' = [r \in Records |-> "same"]
    /\ UNCHANGED <<filing, detail, erp, pass, overtaken>>

QueuePendingBaseSyncForTask ==
    /\ row' = [r \in Records |-> QueuedBase(Refreshed(r))]
    /\ edited' = [r \in Records |-> "same"]
    /\ UNCHANGED <<filing, detail, erp, pass, overtaken>>

\* RequestSync, RequestBaseSync, RequestImageSync: a request inside the
\* cooldown waits for its end unless it is forced.
RequestSync(r, scope, force) ==
    LET old == row[r]
        status == IF old.cooling /\ ~force THEN "cooling_down" ELSE "queued"
    IN  /\ Write(r, [old EXCEPT
              !.erp = status,
              !.base = IF scope = "image" THEN old.base ELSE status,
              !.image = IF scope = "base" THEN old.image ELSE status,
              !.old = FALSE, !.cooling = TRUE])
        /\ UNCHANGED <<filing, detail, erp, pass, overtaken>>

\* The picture of r becomes pic although an operation that has read r, other
\* than the writer's own, is still running.
Overtakes(own, r, pic) ==
    pic # row[r].pic /\ \E b \in Actors \ own : r \in Holds(b)

ChangePic(own, r, new) ==
    /\ Write(r, new)
    /\ overtaken' = [overtaken EXCEPT ![r] = @ \/ Overtakes(own, r, new.pic)]

\* An ERP-product asset chosen by hand stays open to re-selection.
SetManualImage(r, pic, manual) ==
    /\ ChangePic({}, r, UpdateImage(row[r], pic, FALSE, manual, "pending_sync"))
    /\ UNCHANGED <<filing, detail, erp, pass>>

-----------------------------------------------------------------------------
(* Pages: ReparseImage and the re-selection made while listing both read   *)
(* the row, pick the best candidate, and write it.                         *)

OpenPage(a, r) ==
    /\ Holds(a) = {}
    /\ pass' = [pass EXCEPT ![a] = [Idle EXCEPT !.todo = {r},
                                               !.snap = Read({"image", "onClose", "manual"}, {r}, row)]]
    /\ UNCHANGED <<row, filing, detail, edited, erp, overtaken>>

\* autoImagePatch: a picture fixed at closing is kept with the status read
\* along with it; otherwise the best candidate, if there is one.
KeepsPic(snap) == snap.onClose /\ snap.pic # NoPic

AutoImagePatch(old, snap, candidate) ==
    IF KeepsPic(snap)
    THEN UpdateImage(old, snap.pic, TRUE, FALSE, snap.image)
    ELSE UpdateImage(old, candidate, FALSE, FALSE,
                     IF candidate = NoPic THEN "waiting_image" ELSE "pending_sync")

ReparseImage(a, r, candidate) ==
    /\ r \in pass[a].todo
    /\ ChangePic({a}, r, AutoImagePatch(row[r], pass[a].snap[r], candidate))
    /\ pass' = [pass EXCEPT ![a] = Idle]
    /\ UNCHANGED <<filing, detail, erp>>

\* A list leaves manual selections alone and writes only what it changes.
DecorateRecord(a, r, candidate) ==
    LET snap == pass[a].snap[r]
    IN  /\ r \in pass[a].todo
        /\ IF snap.manual \/ KeepsPic(snap) \/ candidate = snap.pic
           THEN UNCHANGED <<row, edited, overtaken>>
           ELSE ChangePic({a}, r, AutoImagePatch(row[r], snap, candidate))
        /\ pass' = [pass EXCEPT ![a] = Idle]
        /\ UNCHANGED <<filing, detail, erp>>

-----------------------------------------------------------------------------
(* The worker and the push after closing.                                  *)

FirstStep(snap) ==
    CASE snap.base \in InFlight -> "base"
      [] snap.base \notin InFlight /\ snap.image \in InFlight -> "image"
      [] OTHER -> "wholeBase"

ClaimQueuedSyncRecords(w) ==
    /\ Holds(w) = {}
    /\ \E S \in SUBSET Records :
         /\ S # {} /\ Claimable(S)
         /\ LET new == [r \in Records |-> IF r \in S THEN ClaimedRow(row[r]) ELSE row[r]]
            IN  /\ row' = new
                /\ edited' = [r \in Records |-> IF r \in S THEN Older(r) ELSE edited[r]]
                /\ pass' = [pass EXCEPT ![w] =
                     [Idle EXCEPT !.todo = S, !.snap = Read({"base", "image"}, S, new)]]
    /\ UNCHANGED <<filing, detail, erp, overtaken>>

\* The loop of ProcessQueuedERPSync turns to its next row.
NextRecord(w, r) ==
    /\ pass[w].at = NoRecord /\ r \in pass[w].todo
    /\ pass' = [pass EXCEPT ![w] =
         [pass[w] EXCEPT !.todo = @ \ {r}, !.at = r,
                         !.step = FirstStep(pass[w].snap[r]), !.result = "none"]]
    /\ UNCHANGED <<row, filing, detail, edited, erp, overtaken>>

\* AutoSyncImagesAfterTaskClosed: refresh, then read every row of the task.
TaskClosed(a) ==
    /\ Holds(a) = {}
    /\ LET new == [r \in Records |-> Refreshed(r)]
       IN  /\ row' = new
           /\ pass' = [pass EXCEPT ![a] = 
                [Idle EXCEPT !.todo = Records, !.snap = Read({"onClose"}, Records, new)]]
    /\ edited' = [r \in Records |-> "same"]
    /\ UNCHANGED <<filing, detail, erp, overtaken>>

\* An operation between two rows, with the rows S of its own still to do.
Rest(a, S) == [Idle EXCEPT !.todo = S, !.snap = [r \in S |-> pass[a].snap[r]]]

\* The record in memory takes over the picture that was written.
Selected(snap, r, pic) ==
    [q \in DOMAIN snap |-> IF q = r THEN [snap[q] EXCEPT !.pic = pic, !.image = "syncing"]
                           ELSE snap[q]]

\* Its next row: no picture leaves the row waiting for an upload; otherwise
\* the picture is written as syncing, without a claim, and pushed.
CloseRecord(a, r, candidate, delivery) ==
    LET snap == pass[a].snap[r]
        pic == IF KeepsPic(snap) THEN snap.pic ELSE candidate
        onClose == pic # NoPic /\ (KeepsPic(snap) \/ delivery)
        status == IF pic = NoPic THEN "waiting_image" ELSE "syncing"
    IN  /\ pass[a].at = NoRecord /\ r \in pass[a].todo
        /\ ChangePic({a}, r, UpdateImage(row[r], pic, onClose, FALSE, status))
        /\ pass' = [pass EXCEPT ![a] =
             IF pic # NoPic
             THEN [pass[a] EXCEPT !.todo = @ \ {r}, !.at = r, !.step = "image",
                                  !.result = "none",
                                  !.snap = Selected(pass[a].snap, r, pic)]
             ELSE Rest(a, pass[a].todo \ {r})]
        /\ UNCHANGED <<filing, detail, erp>>

-----------------------------------------------------------------------------
(* The calls go through the hybrid ERP client: when the ERP fails in a     *)
(* transient way and the fallback is on, the local products table answers  *)
(* in its stead.  A call that reports an error may have taken effect.      *)

Answer(a, result) == pass' = [pass EXCEPT ![a] = [pass[a] EXCEPT !.result = result]]

\* GetProductByID finds the SKU in the ERP, or else in the products table.
Held(e) == e.holder = "erp" \/ (Fallback /\ e.holder = "local")

\* The last picture taken is one of the set S that the ERP took, unless the
\* products table answered for it.
Shows(e, S) == e.pic \in S \/ (Fallback /\ e.pic = Dropped)

\* A push of the SKU e that taker took: the ERP, the local products table,
\* which keeps no picture, or nobody.  NoPic is a push of base data and leaves
\* the picture alone.
Pushed(e, pic, taker) ==
    [holder |-> IF taker = "nobody" \/ e.holder = "erp" THEN e.holder ELSE taker,
     pic |-> IF taker = "nobody" \/ pic = NoPic THEN e.pic
             ELSE IF taker = "erp" THEN pic ELSE Dropped]

\* Who may have taken a push that did, or did not, end in an error.
MayTake(taker, failed) ==
    /\ taker = "local" => Fallback
    /\ taker = "nobody" => failed

UpsertProduct(r, pic, failed) ==
    \E taker \in Takers : /\ MayTake(taker, failed)
                          /\ erp' = [erp EXCEPT ![r] = Pushed(erp[r], pic, taker)]

\* syncBaseRecordToERP
SyncBase(a) ==
    LET r == pass[a].at
    IN  /\ r # NoRecord /\ pass[a].result = "none"
        /\ pass[a].step \in {"base", "wholeBase"}
        /\ \E result \in {"ok", "failed"} :
             /\ Answer(a, result)
             /\ UpsertProduct(r, NoPic, result # "ok")
        /\ UNCHANGED <<row, filing, detail, edited, overtaken>>

\* syncImageRecordToERP: no picture and an unknown SKU end the call early; a
\* business rejection and a readback without a picture ask for a retry.  The
\* readback accepts any picture, a former one or one of the products table:
\* it keeps a call from ok, and tells nothing about pic.
SyncImage(a) ==
    LET r == pass[a].at
        pic == pass[a].snap[r].pic
    IN  /\ r # NoRecord /\ pass[a].result = "none"
        /\ pass[a].step \in {"image", "wholeImage"}
        /\ \/ /\ pic = NoPic
              /\ Answer(a, "noImage") /\ UNCHANGED erp
           \/ /\ pic # NoPic
              /\ \E result \in {"failed", "retry"} : Answer(a, result)
              /\ UNCHANGED erp
           \/ /\ pic # NoPic /\ Held(erp[r])
              /\ \E result \in {"ok", "failed", "retry"} :
                   /\ Answer(a, result)
                   /\ UpsertProduct(r, pic, result # "ok")
        /\ UNCHANGED <<row, filing, detail, edited, overtaken>>

-----------------------------------------------------------------------------
(* The outcome is written by id, without a look at the row's claim.        *)

\* Mutant: the outcome is stored as it came.
OutcomeRaw(result) == result

Outcome(result) == CASE result = "ok" -> "synced"
                     [] result = "retry" -> "cooling_down"
                     [] result = "noImage" -> "waiting_image"
                     [] OTHER -> "failed"

Done(a) == Rest(a, pass[a].todo)

Continue(a, step) == [pass[a] EXCEPT !.step = step, !.result = "none"]

AfterBase(a) == IF pass[a].snap[pass[a].at].image \in InFlight
                THEN Continue(a, "image") ELSE Done(a)

\* A row written as checked now and cooling down.
Checked(old) == [old EXCEPT !.old = FALSE, !.cooling = TRUE]

\* MarkBaseSyncProjectionSynced: the SKU item is filed, and so is the task
\* once every row of it is base-synced.
\* Mutant: one synced row files the task.
FiledByAnyRow == IF \E r \in Records : row'[r].base = "synced" THEN "filed" ELSE detail

FiledDetail == IF \A r \in Records : row'[r].base = "synced" THEN "filed" ELSE detail

MarkBase(a) ==
    LET r == pass[a].at
        result == pass[a].result
        status == IF result = "ok" THEN "synced" ELSE "failed"
    IN  /\ r # NoRecord /\ result # "none" /\ pass[a].step = "base"
        /\ Write(r, [Checked(row[r]) EXCEPT !.erp = status, !.base = status])
        /\ filing' = IF result = "ok" THEN [filing EXCEPT ![r] = "filed"] ELSE filing
        /\ detail' = IF result = "ok" THEN FiledDetail ELSE detail
        /\ pass' = [pass EXCEPT ![a] = AfterBase(a)]
        /\ UNCHANGED <<erp, overtaken>>

MarkImage(a) ==
    LET r == pass[a].at
        status == Outcome(pass[a].result)
    IN  /\ r # NoRecord /\ pass[a].result # "none" /\ pass[a].step = "image"
        /\ Write(r, [Checked(row[r]) EXCEPT !.erp = status, !.image = status])
        /\ pass' = [pass EXCEPT ![a] = Done(a)]
        /\ UNCHANGED <<filing, detail, erp, overtaken>>

\* A row claimed through erp_sync_status alone is pushed as a whole: its base
\* data, then its picture if it has one; one failure fails all three.
ContinueWhole(a) ==
    /\ pass[a].step = "wholeBase" /\ pass[a].result = "ok"
    /\ pass[a].at # NoRecord /\ pass[a].snap[pass[a].at].pic # NoPic
    /\ pass' = [pass EXCEPT ![a] = Continue(a, "wholeImage")]
    /\ UNCHANGED <<row, filing, detail, edited, erp, overtaken>>

\* Mutant: a row without a picture is marked synced all the same.
MarkWholeSynced(a) ==
    LET r == pass[a].at
        part == IF pass[a].result = "ok" THEN "synced" ELSE "failed"
    IN  /\ r # NoRecord /\ pass[a].result # "none"
        /\ pass[a].step \in {"wholeImage", "wholeBase"}
        /\ Write(r, [Checked(row[r]) EXCEPT !.erp = part, !.base = part, !.image = part])
        /\ pass' = [pass EXCEPT ![a] = Done(a)]
        /\ UNCHANGED <<filing, detail, erp, overtaken>>

MarkWhole(a) ==
    LET r == pass[a].at
        result == pass[a].result
        withPic == pass[a].snap[r].pic # NoPic
        part == IF result = "ok" THEN "synced" ELSE "failed"
    IN  /\ r # NoRecord /\ result # "none"
        /\ \/ pass[a].step = "wholeImage"
           \/ pass[a].step = "wholeBase" /\ ~(result = "ok" /\ withPic)
        /\ Write(r, [Checked(row[r]) EXCEPT
              !.erp = part, !.base = part,
              !.image = IF result = "ok" /\ ~withPic THEN "waiting_image" ELSE part])
        /\ pass' = [pass EXCEPT ![a] = Done(a)]
        /\ UNCHANGED <<filing, detail, erp, overtaken>>

\* The mark's transaction fails: its error is dropped and the loop goes on.
MarkLost(a) ==
    /\ pass[a].at # NoRecord /\ pass[a].result # "none"
    /\ pass' = [pass EXCEPT ![a] =
                  IF pass[a].step = "base" THEN AfterBase(a) ELSE Done(a)]
    /\ UNCHANGED <<row, filing, detail, edited, erp, overtaken>>

\* The process stops, or the request's context ends: what was read is lost.
Stop(a) ==
    /\ Holds(a) # {}
    /\ pass' = [pass EXCEPT ![a] = Idle]
    /\ UNCHANGED <<row, filing, detail, edited, erp, overtaken>>

-----------------------------------------------------------------------------
(* The rest of the program, and time.                                      *)

\* TriggerFiling of the task, seen from here: it pushes the base data of the
\* SKUs itself, through the same client and each with an outcome of its own (a
\* failed push may have taken effect), and the task is filed when all are.  The best-effort
\* QueuePendingBaseSyncForTask that follows a filing or an edit in a
\* transaction of its own, and whose error is dropped, is a step of its own.
TriggerFiling(S) ==
    /\ filing' = [r \in Records |-> IF r \in S THEN "filed" ELSE "filing_failed"]
    /\ detail' = IF S = Records THEN "filed" ELSE "filing_failed"
    /\ \E taker \in [Records -> Takers] :
         /\ \A r \in Records : MayTake(taker[r], r \notin S)
         /\ erp' = [r \in Records |-> Pushed(erp[r], NoPic, taker[r])]
    /\ UNCHANGED <<row, edited, pass, overtaken>>

\* An edit makes the filing due again.
TaskEdited ==
    /\ filing' = [r \in Records |-> "pending_filing"]
    /\ detail' = "pending_filing"
    /\ edited' = [r \in Records |-> "newer"]
    /\ UNCHANGED <<row, erp, pass, overtaken>>

CooldownEnds(r) ==
    /\ row[r].cooling
    /\ row' = [row EXCEPT ![r] = [row[r] EXCEPT !.cooling = FALSE]]
    /\ UNCHANGED <<filing, detail, edited, erp, pass, overtaken>>

\* Ten minutes since the last check: the five of the cooldown are over.
CheckAges(r) ==
    /\ ~row[r].old /\ ~row[r].cooling
    /\ row' = [row EXCEPT ![r] = [row[r] EXCEPT !.old = TRUE]]
    /\ UNCHANGED <<filing, detail, edited, erp, pass, overtaken>>

WorkerStep(w) ==
    \/ ClaimQueuedSyncRecords(w)
    \/ \E r \in Records : NextRecord(w, r)

Push(a) ==
    \/ SyncBase(a)
    \/ SyncImage(a)
    \/ ContinueWhole(a)

Mark(a) ==
    \/ MarkBase(a)
    \/ MarkImage(a)
    \/ MarkWhole(a)
    \/ MarkLost(a)

Request ==
    \/ RefreshReadModel
    \/ QueuePendingBaseSyncForTask
    \/ \E r \in Records, scope \in {"all", "base", "image"}, force \in BOOLEAN :
         RequestSync(r, scope, force)
    \/ \E r \in Records, pic \in Pics, manual \in BOOLEAN :
         SetManualImage(r, pic, manual)
    \/ \E a \in Pages, r \in Records : OpenPage(a, r)
    \/ \E a \in Closers : TaskClosed(a)
    \/ \E S \in SUBSET Records : TriggerFiling(S)
    \/ TaskEdited

Step ==
    \/ \E a \in Pages, r \in Records, c \in MaybePic : ReparseImage(a, r, c)
    \/ \E a \in Pages, r \in Records, c \in MaybePic : DecorateRecord(a, r, c)
    \/ \E a \in Closers, r \in Records, c \in MaybePic, delivery \in BOOLEAN :
         CloseRecord(a, r, c, delivery)
    \/ \E w \in Workers : WorkerStep(w)
    \/ \E a \in Actors : Push(a)
    \/ \E a \in Actors : Mark(a)
    \/ \E a \in Actors : Stop(a)
    \/ \E r \in Records : CooldownEnds(r)
    \/ \E r \in Records : CheckAges(r)

Next ==
    \/ Request /\ requests < MaxRequests /\ requests' = requests + 1
    \/ Step /\ UNCHANGED requests

Spec == Init /\ [][Next]_vars

\* The worker's ticker keeps firing, calls and transactions end, and time
\* passes; nobody has to make a request, and a process may stop at any step.
FairSpec ==
    /\ Spec
    /\ \A w \in Workers : /\ WF_vars(WorkerStep(w) /\ UNCHANGED requests)
                          /\ WF_vars(Push(w) /\ UNCHANGED requests)
                          /\ WF_vars(Mark(w) /\ UNCHANGED requests)
    /\ \A r \in Records : /\ WF_vars(CooldownEnds(r) /\ UNCHANGED requests)
                          /\ WF_vars(CheckAges(r) /\ UNCHANGED requests)

-----------------------------------------------------------------------------
(* Properties.                                                             *)

\* A row is shown as synced only for what was really taken: the ERP took a
\* base-synced SKU and a picture of an image-synced one, whatever claims, late
\* results, lost writes and re-selections did to the row.  Where the fallback
\* is on, the products table may have taken them instead of the ERP.
SyncedWasTaken ==
    \A r \in Records : /\ row[r].base = "synced" => Held(erp[r])
                       /\ row[r].image = "synced" => Shows(erp[r], Pics)

\* MarkBaseSyncProjectionSynced closes the task's filing from the rows: a
\* filed SKU, and every SKU of a filed task, was taken by the ERP or, where
\* the fallback is on, by the products table.
FiledWasTaken ==
    /\ \A r \in Records : filing[r] = "filed" => Held(erp[r])
    /\ detail = "filed" => \A r \in Records : Held(erp[r])

\* The picture of an image-synced row is the last one the ERP took, with two
\* exceptions: it was replaced while another operation that had read the row
\* was running, or the products table answered for it.  Neither the result
\* writes nor the readback compare pictures, and this is all they can miss.
SyncedPicIsCurrent ==
    \A r \in Records :
      row[r].image = "synced" /\ ~overtaken[r] => Shows(erp[r], {row[r].pic})

\* A requested sync is attempted or settled, also when the worker that
\* claimed it stopped half way or its result was not written.
Wanted(r) == {row[r].erp, row[r].base, row[r].image} \cap InFlight # {}

SyncIsAttempted ==
    \A r \in Records :
      Wanted(r) ~> (~Wanted(r) \/ \E w \in Workers : r \in Holds(w))
=============================================================================

--------------------------- MODULE AssetLifecycle ---------------------------
(***************************************************************************)
(* The files behind the asset rows: uploads that supersede a version,      *)
(* previews rendered from it, the super administrator's archive, restore   *)
(* and delete, and the nightly cleanup job.  A row (task_assets) and its   *)
(* object (in the object store) change in separate steps: the job and the  *)
(* delete remove objects first and write the rows afterwards, from a list  *)
(* they read earlier.                                                      *)
(*                                                                         *)
(* A task has one uploaded ("source") asset and one preview asset derived  *)
(* from it.  An object is named by the row that was created with it.       *)
(* Event rows, search reindexing and the reasons given are left out; the   *)
(* object store is enabled.                                                *)
(***************************************************************************)
EXTENDS Integers, Sequences, FiniteSets

CONSTANTS Tasks,       \* the tasks
          Uploads,     \* upload completions that can be in flight at once
          MaxVersions, \* bound: asset rows ever created
          MaxIncidents \* bound: administrator's requests, backfills, and failed
                       \* calls or crashes of the erasers, together

Kinds == {"source", "preview"}

ASSUME AssetAssumption == MaxVersions \in Nat /\ MaxIncidents \in Nat

Versions == 1..MaxVersions

None == 0

NoTask == "no task"

Lives == {"none", "live", "cleaned", "deleted"}

VARIABLES task,     \* open, closed, or aged: closed for more than 365 days
          closings, \* closed tasks in the order of tasks.updated_at
          row,      \* task_assets
          current,  \* design_assets.current_version_id
          objects,  \* rows whose object is in the store
          up,       \* uploads in flight
          rendering,\* the source version each task's render has read, or None
          job,      \* the cleanup run
          del,      \* the delete request
          incidents,\* how many of those there were
          condemned,\* history: rows whose object a delete request removed
          late      \* history: rows created while an eraser's list was out

vars == <<task, closings, row, current, objects, up, rendering, job,
          del, incidents, condemned, late>>

storage == <<row, current, objects, late>>

erasers == <<job, del, incidents, condemned>>

Row == [task : Tasks \cup {NoTask}, kind : Kinds, source : Versions \cup {None},
        supersededBy : Versions \cup {None}, due : BOOLEAN, linked : BOOLEAN,
        archived : BOOLEAN, life : Lives]

NoRow == [task |-> NoTask, kind |-> "source", source |-> None,
          supersededBy |-> None, due |-> FALSE, linked |-> FALSE,
          archived |-> FALSE, life |-> "none"]

\* A new row has a storage key and no source_task_module_id.
NewRow(t, k, s) ==
    [NoRow EXCEPT !.task = t, !.kind = k, !.source = s, !.life = "live"]

IdleJob == [phase |-> "idle", todo |-> {}]

IdleDel == [phase |-> "idle", task |-> NoTask, kind |-> "source", keys |-> {}]

Incident == incidents < MaxIncidents /\ incidents' = incidents + 1

IdleUpload == [task |-> NoTask, prev |-> None]

\* storage_key is set exactly on live rows.
Live == {v \in Versions : row[v].life = "live"}

RowsOf(t, k) == {v \in Versions : row[v].life # "none"
                                  /\ row[v].task = t /\ row[v].kind = k}

Free == {v \in Versions : row[v].life = "none"}

DerivedFrom(v) == {p \in Live : row[p].source = v}

Init ==
    /\ task = [t \in Tasks |-> "open"]
    /\ closings = <<>>
    /\ row = [v \in Versions |-> NoRow]
    /\ current = [t \in Tasks |-> [k \in Kinds |-> None]]
    /\ objects = {}
    /\ up = [u \in Uploads |-> IdleUpload]
    /\ rendering = [t \in Tasks |-> None]
    /\ job = IdleJob
    /\ del = IdleDel
    /\ incidents = 0
    /\ condemned = {}
    /\ late = {}

-----------------------------------------------------------------------------
(* Uploads and previews *)

\* The transaction of CompleteUploadSession starts; the asset's current
\* version is read outside it.
BeginUpload(u, t) ==
    /\ up[u] = IdleUpload
    /\ task[t] = "open"
    /\ up' = [up EXCEPT ![u] = [task |-> t, prev |-> current[t]["source"]]]
    /\ UNCHANGED <<task, closings, storage, rendering, erasers>>

\* Whether an eraser that may mark rows of this asset works from a list read
\* before now.
ListIsOut(t, k) ==
    \/ del.phase # "idle" /\ del.task = t /\ del.kind = k
    \/ k = "preview" /\ job.phase # "idle"

Insert(v, t, k) ==
    /\ v \in Free /\ \A w \in Free : v <= w
    /\ current' = [current EXCEPT ![t] = [@ EXCEPT ![k] = v]]
    /\ objects' = objects \cup {v}
    /\ late' = IF ListIsOut(t, k) THEN late \cup {v} ELSE late

\* MarkAssetVersionSuperseded
SupersededRow(old, v) == [row[old] EXCEPT !.supersededBy = v, !.due = FALSE]

CommitUpload(u) ==
    /\ up[u] # IdleUpload
    /\ \E v \in Versions :
        LET t == up[u].task
            old == up[u].prev
            new == NewRow(t, "source", None)
        IN /\ Insert(v, t, "source")
           /\ IF old \in Live
              THEN row' = [row EXCEPT ![v] = new, ![old] = SupersededRow(old, v)]
              ELSE row' = [row EXCEPT ![v] = new]
    /\ up' = [up EXCEPT ![u] = IdleUpload]
    /\ UNCHANGED <<task, closings, rendering, erasers>>

UploadFails(u) ==
    /\ up[u] # IdleUpload
    /\ up' = [up EXCEPT ![u] = IdleUpload]
    /\ UNCHANGED <<task, closings, storage, rendering, erasers>>

\* ensureSingleDerivedPreviewAsset up to its transaction: nothing is rendered
\* while the preview asset's current version has a key, and the source object
\* has to open.
BeginRender(t) ==
    /\ rendering[t] = None
    /\ current[t]["source"] \in Live \cap objects
    /\ current[t]["preview"] \notin Live
    /\ rendering' = [rendering EXCEPT ![t] = current[t]["source"]]
    /\ UNCHANGED <<task, closings, storage, up, erasers>>

CommitRender(t) ==
    /\ rendering[t] # None
    /\ \E v \in Versions :
        /\ Insert(v, t, "preview")
        /\ row' = [row EXCEPT ![v] = NewRow(t, "preview", rendering[t])]
    /\ rendering' = [rendering EXCEPT ![t] = None]
    /\ UNCHANGED <<task, closings, up, erasers>>

RenderFails(t) ==
    /\ rendering[t] # None
    /\ rendering' = [rendering EXCEPT ![t] = None]
    /\ UNCHANGED <<task, closings, storage, up, erasers>>

\* The operator's backfill tool gives every row its module.
Backfill ==
    /\ Incident
    /\ row' = [v \in Versions |-> [row[v] EXCEPT !.linked = row[v].life # "none"]]
    /\ UNCHANGED <<task, closings, current, objects, late, up, rendering,
                   job, del, condemned>>

-----------------------------------------------------------------------------
(* Time *)

CloseTask(t) ==
    /\ task[t] = "open"
    /\ task' = [task EXCEPT ![t] = "closed"]
    /\ closings' = Append(closings, t)
    /\ UNCHANGED <<storage, up, rendering, erasers>>

\* 365 days pass: longer than any upload.
Age(t) ==
    /\ task[t] = "closed"
    /\ \A i, j \in DOMAIN closings : (closings[j] = t /\ i < j) => task[closings[i]] = "aged"
    /\ \A u \in Uploads : up[u] = IdleUpload
    /\ task' = [task EXCEPT ![t] = "aged"]
    /\ UNCHANGED <<closings, storage, up, rendering, erasers>>

\* assetVersionReplacementRetention (15 days) passes for the next superseded
\* row: longer than any upload.  A row is superseded when the version that
\* supersedes it is created, so cleanup_after_at orders rows by that version.
SupersededBefore(w, v) ==
    /\ row[w].supersededBy # None
    /\ row[w].supersededBy < row[v].supersededBy

Expire ==
    /\ \A u \in Uploads : up[u] = IdleUpload
    /\ \E v \in Versions :
        /\ row[v].supersededBy # None /\ ~row[v].due
        /\ \A w \in Versions : SupersededBefore(w, v) => row[w].due
        /\ row' = [row EXCEPT ![v] = [@ EXCEPT !.due = TRUE]]
    /\ UNCHANGED <<task, closings, current, objects, late, up, rendering,
                   erasers>>

-----------------------------------------------------------------------------
(* The cleanup job *)

Reasons == {"closed", "superseded"}

Candidate == [v : Versions, keys : SUBSET Versions, linked : BOOLEAN,
              why : Reasons, rank : 0..MaxVersions]

\* ListEligibleForCleanup
Outlived == {v \in Live : row[v].task \in Tasks /\ task[row[v].task] = "aged"}

ClosedBefore(w, v) ==
    LET At(x) == CHOOSE i \in DOMAIN closings : closings[i] = row[x].task
    IN At(w) < At(v) \/ (At(w) = At(v) /\ w < v)

\* ListSupersededEligibleForCleanup
Superseded ==
    {v \in Live : /\ row[v].due
                  /\ row[v].supersededBy \in Live
                  /\ v # current[row[v].task][row[v].kind]}

ClosedCandidates ==
    {[v |-> v, keys |-> {v}, linked |-> row[v].linked, why |-> "closed",
      rank |-> Cardinality({w \in Outlived : ClosedBefore(w, v)})] : v \in Outlived}

SupersededCandidatesAlone ==
    {[v |-> v, keys |-> {v}, linked |-> row[v].linked, why |-> "superseded",
      rank |-> row[v].supersededBy] : v \in Superseded}

SupersededCandidates ==
    {[v |-> v, keys |-> {v} \cup DerivedFrom(v), linked |-> row[v].linked,
      why |-> "superseded",
      rank |-> row[v].supersededBy] : v \in Superseded}

IsNextOfAny(c) == c \in job.todo

\* c is the candidate the run is at.
IsNext(c) ==
    /\ c \in job.todo
    /\ \A d \in job.todo :
        /\ ~(d.why = "closed" /\ c.why = "superseded")
        /\ d.why = c.why => c.rank <= d.rank

StartRun ==
    /\ job.phase = "idle"
    /\ job' = [phase |-> "working", todo |-> ClosedCandidates \cup SupersededCandidates]
    /\ UNCHANGED <<task, closings, storage, up, rendering, del, incidents, condemned>>

\* One DeleteObject call of the run: the row's own key first.
EraseObject ==
    /\ job.phase = "working"
    /\ \E c \in job.todo : \E k \in c.keys :
        /\ IsNext(c)
        /\ c.v \in c.keys => k = c.v
        /\ objects' = objects \ {k}
        /\ job' = [job EXCEPT !.todo =
                     (job.todo \ {c}) \cup {[c EXCEPT !.keys = c.keys \ {k}]}]
    /\ UNCHANGED <<task, closings, row, current, late, up, rendering, del,
                   incidents, condemned>>

MarkedWithAsset(c) ==
    {w \in Live : row[w].task = row[c.v].task /\ row[w].kind = row[c.v].kind}

\* MarkAutoCleaned and MarkSupersededAutoCleaned
MarkedWith(c) ==
    {w \in Live : w = c.v \/ (c.why = "superseded" /\ row[w].source = c.v)}

CleanedRaw(w) == [row[w] EXCEPT !.life = "archived", !.archived = TRUE]

Cleaned(w) == [row[w] EXCEPT !.life = "cleaned", !.archived = TRUE]

\* The transaction of one candidate.  Without a module the update is rolled
\* back and the whole run ends with an error.
MarkCleaned ==
    /\ job.phase = "working"
    /\ \E c \in job.todo :
        /\ IsNext(c) /\ c.keys = {}
        /\ IF c.linked
           THEN /\ row' = [w \in Versions |-> IF w \in MarkedWith(c) THEN Cleaned(w) ELSE row[w]]
                /\ job' = [job EXCEPT !.todo = job.todo \ {c}]
           ELSE /\ job' = IdleJob
                /\ UNCHANGED row
    /\ UNCHANGED <<task, closings, current, objects, late, up, rendering, del,
                   incidents, condemned>>

FinishRun ==
    /\ job.phase = "working" /\ job.todo = {}
    /\ job' = IdleJob
    /\ UNCHANGED <<task, closings, storage, up, rendering, del, incidents, condemned>>

\* A failed call or a crash ends the run; its list is lost.
RunFails ==
    /\ job.phase # "idle"
    /\ job' = IdleJob
    /\ Incident
    /\ UNCHANGED <<task, closings, storage, up, rendering, del, condemned>>

-----------------------------------------------------------------------------
(* The super administrator *)

CurrentRow(t, k) == row[current[t][k]]

\* DeriveLifecycleState on the current version: active, closed_retained and
\* archived rows are the live ones.
CanDelete(t, k) ==
    /\ current[t][k] \in Live
    /\ CurrentRow(t, k).linked

Archive(t, k) ==
    /\ Incident
    /\ CanDelete(t, k) /\ ~CurrentRow(t, k).archived
    /\ row' = [v \in Versions |-> IF v \in Live \cap RowsOf(t, k)
                                  THEN [row[v] EXCEPT !.archived = TRUE] ELSE row[v]]
    /\ UNCHANGED <<task, closings, current, objects, late, up, rendering,
                   job, del, condemned>>

Restore(t, k) ==
    /\ Incident
    /\ CanDelete(t, k) /\ CurrentRow(t, k).archived
    /\ row' = [v \in Versions |-> IF v \in Live \cap RowsOf(t, k)
                                  THEN [row[v] EXCEPT !.archived = FALSE] ELSE row[v]]
    /\ UNCHANGED <<task, closings, current, objects, late, up, rendering,
                   job, del, condemned>>

BeginDelete(t, k) ==
    /\ Incident
    /\ del = IdleDel
    /\ RowsOf(t, k) # {}
    /\ del' = [phase |-> "erasing", task |-> t, kind |-> k, keys |-> Live \cap RowsOf(t, k)]
    /\ UNCHANGED <<task, closings, storage, up, rendering, job, condemned>>

DeleteObject ==
    /\ del.phase = "erasing"
    /\ \E k \in del.keys :
        /\ \A j \in del.keys : k <= j
        /\ objects' = objects \ {k}
        /\ condemned' = condemned \cup {k}
        /\ del' = [del EXCEPT !.keys = del.keys \ {k}]
    /\ UNCHANGED <<task, closings, row, current, late, up, rendering, job, incidents>>

\* The transaction: refused, after the objects are gone, or SoftDelete.
CommitDelete ==
    /\ del.phase = "erasing" /\ del.keys = {}
    /\ row' = [v \in Versions |->
                 IF CanDelete(del.task, del.kind) /\ v \in RowsOf(del.task, del.kind)
                 THEN [row[v] EXCEPT !.life = "deleted"] ELSE row[v]]
    /\ del' = IdleDel
    /\ UNCHANGED <<task, closings, current, objects, late, up, rendering, job,
                   incidents, condemned>>

DeleteFails ==
    /\ del.phase = "erasing"
    /\ del' = IdleDel
    /\ Incident
    /\ UNCHANGED <<task, closings, storage, up, rendering, job, condemned>>

-----------------------------------------------------------------------------

JobStep == StartRun \/ EraseObject \/ MarkCleaned \/ FinishRun

Next ==
    \/ \E u \in Uploads : \/ \E t \in Tasks : BeginUpload(u, t)
                          \/ CommitUpload(u) \/ UploadFails(u)
    \/ \E t \in Tasks : BeginRender(t) \/ CommitRender(t) \/ RenderFails(t)
    \/ Backfill \/ Expire
    \/ \E t \in Tasks : CloseTask(t) \/ Age(t)
    \/ JobStep \/ RunFails
    \/ \E t \in Tasks, k \in Kinds : Archive(t, k) \/ Restore(t, k) \/ BeginDelete(t, k)
    \/ DeleteObject \/ CommitDelete \/ DeleteFails

\* The schedule starts the job again and again and a run goes on by itself.
Spec == Init /\ [][Next]_vars /\ WF_vars(JobStep)

-----------------------------------------------------------------------------
(* Properties *)

\* The values the rows, the lists and the requests take.
TypeOK ==
    /\ task \in [Tasks -> {"open", "closed", "aged"}]
    /\ closings \in Seq(Tasks)
    /\ row \in [Versions -> Row]
    /\ current \in [Tasks -> [Kinds -> Versions \cup {None}]]
    /\ objects \subseteq Versions
    /\ up \in [Uploads -> {IdleUpload} \cup [task : Tasks, prev : Versions \cup {None}]]
    /\ rendering \in [Tasks -> Versions \cup {None}]
    /\ job \in [phase : {"idle", "working"}, todo : SUBSET Candidate]
    /\ del \in {IdleDel} \cup [phase : {"erasing"}, task : Tasks, kind : Kinds,
                               keys : SUBSET Versions]
    /\ incidents \in 0..MaxIncidents
    /\ condemned \subseteq Versions
    /\ late \subseteq Versions

\* Whatever the job's list has become meanwhile, the file a task is working
\* with is not cleaned up: while a task is open, the current version of its
\* uploaded asset has its object and its key, unless a super administrator
\* removes it (cleanup_job.go:76, ListSupersededEligibleForCleanup).
OpenTaskKeepsItsFile ==
    \A t \in Tasks :
        LET v == current[t]["source"]
        IN (task[t] = "open" /\ v # None /\ v \notin condemned /\ row[v].life # "deleted")
              => row[v].life = "live" /\ v \in objects

\* A run that stops between removing an object and marking its row is made
\* good by a later run: an uploaded version that claims a file it has lost is
\* still a candidate, or was taken by a delete request.  MarkCleaned of a newer
\* version, a new upload or a restore in between does not take it off the list.
LostFileIsStillACandidate ==
    \A v \in Live \ objects :
        row[v].kind = "source" => v \in condemned \cup Outlived \cup Superseded

\* No file outlives its row: a cleaned or deleted row gives up its key, so its
\* object must be gone, or nothing will ever name it again.  The exception is a
\* row created while the list of the eraser that marked it was out.
MarkedRowsHaveNoFile ==
    \A v \in objects : row[v].life \in {"cleaned", "deleted"} => v \in late

\* The restore of an asset does not make its cleaned versions look available:
\* auto_cleaned rows stay archived (V1_ASSET_OWNERSHIP.md 7.1).
CleanedIsArchived == \A v \in Versions : row[v].life = "cleaned" => row[v].archived

\* The files of a task that has been closed for 365 days are cleaned up
\* (V1_ASSET_OWNERSHIP.md:17).
ClosedTasksAreCleaned == \A v \in Versions : v \in Outlived ~> v \notin Live

=============================================================================

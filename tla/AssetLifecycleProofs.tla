------------------------ MODULE AssetLifecycleProofs ------------------------
(***************************************************************************)
(* Proofs about AssetLifecycle, for any tasks, uploads and bounds.         *)
(***************************************************************************)
EXTENDS AssetLifecycle, TLAPS, FiniteSetTheorems

-----------------------------------------------------------------------------
(* The inductive invariant *)

\* A row belongs to a task once it exists, and only previews are derived.
RowsAreFiled ==
    \A v \in Versions : /\ row[v].life # "none" => row[v].task \in Tasks
                        /\ row[v].source # None => row[v].kind = "preview"

\* An asset's current version is a row of that asset.
CurrentIsOwn ==
    \A t \in Tasks, k \in Kinds :
        current[t][k] # None => current[t][k] \in RowsOf(t, k)

\* Only rows have objects.
ObjectsHaveRows == \A v \in objects : row[v].life # "none"

\* A row that no open task works with, now or later.
Spent(v) ==
    /\ row[v].life # "none"
    /\ \A t \in Tasks : task[t] = "open" => current[t]["source"] # v

\* The rows a candidate's transaction marks.
Reached(c, w) == w = c.v \/ (c.why = "superseded" /\ row[w].source = c.v)

\* What the run has listed is spent, and the objects of the rows it will mark
\* are on the list or came late.
ListIsSound ==
    /\ job.phase = "idle" => job.todo = {}
    /\ \A c \in job.todo :
        /\ Spent(c.v)
        /\ \A k \in c.keys : Spent(k)
        /\ \A w \in Live \cap objects : Reached(c, w) => w \in c.keys \cup late

\* The same for the rows a delete request will mark.
DeleteIsSound ==
    del.phase = "erasing" =>
        \A v \in RowsOf(del.task, del.kind) \cap objects : v \in del.keys \cup late

IInv ==
    /\ TypeOK
    /\ RowsAreFiled
    /\ CurrentIsOwn
    /\ ObjectsHaveRows
    /\ ListIsSound
    /\ DeleteIsSound
    /\ OpenTaskKeepsItsFile
    /\ MarkedRowsHaveNoFile
    /\ CleanedIsArchived

-----------------------------------------------------------------------------
(* Types *)

LEMMA CountBound ==
    ASSUME NEW S \in SUBSET Versions
    PROVE  Cardinality(S) \in 0..MaxVersions
<1>1. IsFiniteSet(Versions) /\ Cardinality(Versions) = MaxVersions
  BY FS_Interval, AssetAssumption DEF Versions
<1>2. IsFiniteSet(S) /\ Cardinality(S) <= Cardinality(Versions)
  BY <1>1, FS_Subset
<1>3. Cardinality(S) \in Nat
  BY <1>2, FS_CardinalityType
<1> QED BY <1>1, <1>2, <1>3, AssetAssumption

LEMMA CandidatesTyped ==
    ASSUME TypeOK
    PROVE  ClosedCandidates \cup SupersededCandidates \subseteq Candidate
<1>1. ClosedCandidates \subseteq Candidate
  <2> SUFFICES ASSUME NEW v \in Outlived
               PROVE  [v |-> v, keys |-> {v}, linked |-> row[v].linked, why |-> "closed",
                       rank |-> Cardinality({w \in Outlived : ClosedBefore(w, v)})]
                      \in Candidate
    BY DEF ClosedCandidates
  <2>1. {w \in Outlived : ClosedBefore(w, v)} \in SUBSET Versions
    BY DEF Outlived, Live
  <2>2. Cardinality({w \in Outlived : ClosedBefore(w, v)}) \in 0..MaxVersions
    BY <2>1, CountBound
  <2>3. v \in Versions /\ row[v].linked \in BOOLEAN
    BY DEF TypeOK, Row, Outlived, Live
  <2> QED BY <2>2, <2>3 DEF Candidate, Reasons
<1>2. SupersededCandidates \subseteq Candidate
  <2> SUFFICES ASSUME NEW v \in Superseded
               PROVE  [v |-> v, keys |-> {v} \cup DerivedFrom(v), linked |-> row[v].linked,
                       why |-> "superseded", rank |-> row[v].supersededBy] \in Candidate
    BY DEF SupersededCandidates
  <2>1. v \in Versions /\ row[v].linked \in BOOLEAN /\ row[v].supersededBy \in Versions
    BY DEF TypeOK, Row, Superseded, Live
  <2>2. Versions \subseteq 0..MaxVersions
    BY AssetAssumption DEF Versions
  <2>3. {v} \cup DerivedFrom(v) \in SUBSET Versions
    BY <2>1 DEF DerivedFrom, Live
  <2> QED BY <2>1, <2>2, <2>3 DEF Candidate, Reasons
<1> QED BY <1>1, <1>2

\* Two states of a row that the invariant cannot tell apart.
Alike(r, q) == /\ r.task = q.task /\ r.kind = q.kind
               /\ r.source = q.source /\ r.life = q.life

\* What the updates of a row leave of it.
LEMMA RowUpdates ==
    ASSUME NEW r \in Row
    PROVE  /\ \A v \in Versions :
                LET q == [r EXCEPT !.supersededBy = v, !.due = FALSE]
                IN q \in Row /\ Alike(q, r) /\ q.archived = r.archived
           /\ LET q == [r EXCEPT !.due = TRUE]
              IN q \in Row /\ Alike(q, r) /\ q.archived = r.archived
           /\ \A b \in BOOLEAN :
                /\ LET q == [r EXCEPT !.linked = b]
                   IN q \in Row /\ Alike(q, r) /\ q.archived = r.archived
                /\ LET q == [r EXCEPT !.archived = b]
                   IN q \in Row /\ Alike(q, r) /\ q.archived = b
           /\ LET q == [r EXCEPT !.life = "cleaned", !.archived = TRUE]
              IN /\ q \in Row /\ q.life = "cleaned" /\ q.archived = TRUE
                 /\ q.task = r.task /\ q.kind = r.kind /\ q.source = r.source
           /\ LET q == [r EXCEPT !.life = "deleted"]
              IN /\ q \in Row /\ q.life = "deleted" /\ q.archived = r.archived
                 /\ q.task = r.task /\ q.kind = r.kind /\ q.source = r.source
<1>1. PICK a, k, s, w, d, n, h, i :
        /\ a \in Tasks \cup {NoTask} /\ k \in Kinds /\ s \in Versions \cup {None}
        /\ w \in Versions \cup {None} /\ d \in BOOLEAN /\ n \in BOOLEAN
        /\ h \in BOOLEAN /\ i \in Lives
        /\ r = [task |-> a, kind |-> k, source |-> s, supersededBy |-> w, due |-> d,
                linked |-> n, archived |-> h, life |-> i]
  BY DEF Row
<1> QED BY <1>1 DEF Row, Alike, Lives

\* A new row is a row.
LEMMA NewRowTyped ==
    ASSUME NEW t \in Tasks, NEW k \in Kinds, NEW s \in Versions \cup {None}
    PROVE  /\ NewRow(t, k, s) \in Row
           /\ NewRow(t, k, s).task = t /\ NewRow(t, k, s).kind = k
           /\ NewRow(t, k, s).source = s /\ NewRow(t, k, s).life = "live"
           /\ NewRow(t, k, s).supersededBy = None
BY DEF NewRow, NoRow, Row, Lives, Kinds, None

\* The rows after an upload.
LEMMA UploadedRows ==
    ASSUME TypeOK, NEW u \in Uploads, CommitUpload(u)
    PROVE  /\ up[u].task \in Tasks /\ up[u].prev \in Versions \cup {None}
           /\ row' \in [Versions -> Row]
           /\ \E v \in Versions :
                /\ Insert(v, up[u].task, "source")
                /\ row'[v] = NewRow(up[u].task, "source", None)
                /\ \A w \in Versions \ {v} :
                     row'[w] = IF w = up[u].prev /\ w \in Live
                               THEN SupersededRow(w, v) ELSE row[w]
<1>1. up[u].task \in Tasks /\ up[u].prev \in Versions \cup {None}
  BY DEF TypeOK, CommitUpload
<1>2. PICK v \in Versions :
        /\ Insert(v, up[u].task, "source")
        /\ IF up[u].prev \in Live
           THEN row' = [row EXCEPT ![v] = NewRow(up[u].task, "source", None),
                                   ![up[u].prev] = SupersededRow(up[u].prev, v)]
           ELSE row' = [row EXCEPT ![v] = NewRow(up[u].task, "source", None)]
  BY DEF CommitUpload
<1>3. v \notin Live
  BY <1>2 DEF Insert, Free, Live
<1>4. NewRow(up[u].task, "source", None) \in Row
  BY <1>1, NewRowTyped DEF Kinds
<1>5. ASSUME NEW w \in Versions PROVE SupersededRow(w, v) \in Row /\ row[w] \in Row
  BY RowUpdates DEF SupersededRow, TypeOK
<1>6. row \in [Versions -> Row]
  BY DEF TypeOK
<1> HIDE DEF Row, NewRow, SupersededRow, Insert
<1>7. row' \in [Versions -> Row]
  BY <1>2, <1>4, <1>5, <1>6 DEF Live
<1>8. row'[v] = NewRow(up[u].task, "source", None)
  BY <1>2, <1>3, <1>6
<1>9. \A w \in Versions \ {v} :
         row'[w] = IF w = up[u].prev /\ w \in Live THEN SupersededRow(w, v) ELSE row[w]
  BY <1>2, <1>3, <1>6
<1> QED BY <1>1, <1>2, <1>7, <1>8, <1>9

\* A preview's row after its render.
LEMMA RenderedRows ==
    ASSUME TypeOK, NEW t \in Tasks, CommitRender(t)
    PROVE  /\ rendering[t] \in Versions
           /\ row' \in [Versions -> Row]
           /\ \E v \in Versions :
                /\ Insert(v, t, "preview")
                /\ row'[v] = NewRow(t, "preview", rendering[t])
                /\ \A w \in Versions \ {v} : row'[w] = row[w]
<1>1. rendering[t] \in Versions
  BY DEF TypeOK, CommitRender
<1>2. NewRow(t, "preview", rendering[t]) \in Row
  BY <1>1, NewRowTyped DEF Kinds
<1>3. row \in [Versions -> Row]
  BY DEF TypeOK
<1> HIDE DEF Row, NewRow, Insert
<1> QED BY <1>1, <1>2, <1>3 DEF CommitRender

LEMMA InsertTyped ==
    ASSUME TypeOK, NEW v \in Versions, NEW t \in Tasks, NEW k \in Kinds, Insert(v, t, k)
    PROVE  /\ current' \in [Tasks -> [Kinds -> Versions \cup {None}]]
           /\ objects' \subseteq Versions
           /\ late' \subseteq Versions
<1>1. current[t] \in [Kinds -> Versions \cup {None}]
  BY DEF TypeOK
<1>2. [current[t] EXCEPT ![k] = v] \in [Kinds -> Versions \cup {None}]
  BY <1>1
<1> QED BY <1>2 DEF TypeOK, Insert

LEMMA IncidentTyped ==
    ASSUME TypeOK, Incident
    PROVE  incidents' \in 0..MaxIncidents
BY AssetAssumption DEF TypeOK, Incident

\* Every step keeps the types.
LEMMA TypeStep ==
    ASSUME TypeOK, [Next]_vars
    PROVE  TypeOK'
<1> USE DEF storage, erasers
<1>1. ASSUME NEW u \in Uploads, NEW t \in Tasks, BeginUpload(u, t) PROVE TypeOK'
  <2>1. current[t]["source"] \in Versions \cup {None}
    BY DEF TypeOK, Kinds
  <2> QED BY <1>1, <2>1 DEF TypeOK, BeginUpload
<1>2. ASSUME NEW u \in Uploads, CommitUpload(u) PROVE TypeOK'
  <2>1. PICK v \in Versions : Insert(v, up[u].task, "source")
    BY <1>2, UploadedRows
  <2>2. up[u].task \in Tasks /\ row' \in [Versions -> Row] /\ "source" \in Kinds
    BY <1>2, UploadedRows DEF Kinds
  <2>3. /\ current' \in [Tasks -> [Kinds -> Versions \cup {None}]]
        /\ objects' \subseteq Versions /\ late' \subseteq Versions
    BY <2>1, <2>2, InsertTyped
  <2> HIDE DEF Row
  <2> QED BY <1>2, <2>2, <2>3 DEF TypeOK, CommitUpload
<1>3. ASSUME NEW u \in Uploads, UploadFails(u) PROVE TypeOK'
  BY <1>3 DEF TypeOK, UploadFails
<1>4. ASSUME NEW t \in Tasks, BeginRender(t) PROVE TypeOK'
  BY <1>4 DEF TypeOK, BeginRender, Kinds
<1>5. ASSUME NEW t \in Tasks, CommitRender(t) PROVE TypeOK'
  <2>1. PICK v \in Versions : Insert(v, t, "preview")
    BY <1>5, RenderedRows
  <2>2. row' \in [Versions -> Row] /\ "preview" \in Kinds
    BY <1>5, RenderedRows DEF Kinds
  <2>3. /\ current' \in [Tasks -> [Kinds -> Versions \cup {None}]]
        /\ objects' \subseteq Versions /\ late' \subseteq Versions
    BY <2>1, <2>2, InsertTyped
  <2> HIDE DEF Row
  <2> QED BY <1>5, <2>2, <2>3 DEF TypeOK, CommitRender
<1>6. ASSUME NEW t \in Tasks, RenderFails(t) PROVE TypeOK'
  BY <1>6 DEF TypeOK, RenderFails
<1>7. CASE Backfill
  <2>1. \A v \in Versions : [row[v] EXCEPT !.linked = row[v].life # "none"] \in Row
    BY RowUpdates DEF TypeOK
  <2> HIDE DEF Row
  <2> QED BY <1>7, <2>1, IncidentTyped DEF TypeOK, Backfill
<1>8. CASE Expire
  <2>1. \A v \in Versions : [row[v] EXCEPT !.due = TRUE] \in Row
    BY RowUpdates DEF TypeOK
  <2> HIDE DEF Row
  <2> QED BY <1>8, <2>1 DEF TypeOK, Expire
<1>9. ASSUME NEW t \in Tasks, CloseTask(t) PROVE TypeOK'
  BY <1>9 DEF TypeOK, CloseTask
<1>10. ASSUME NEW t \in Tasks, Age(t) PROVE TypeOK'
  BY <1>10 DEF TypeOK, Age
<1>11. CASE StartRun
  BY <1>11, CandidatesTyped DEF TypeOK, StartRun
<1>12. CASE EraseObject
  <2>1. PICK c \in job.todo : \E k \in c.keys :
          /\ objects' = objects \ {k}
          /\ job' = [job EXCEPT !.todo =
                       (job.todo \ {c}) \cup {[c EXCEPT !.keys = c.keys \ {k}]}]
    BY <1>12 DEF EraseObject
  <2>2. c \in Candidate
    BY DEF TypeOK
  <2>3. \A k \in c.keys : [c EXCEPT !.keys = c.keys \ {k}] \in Candidate
    BY <2>2 DEF Candidate
  <2>4. PICK k \in c.keys :
          /\ objects' = objects \ {k}
          /\ job' = [job EXCEPT !.todo =
                       (job.todo \ {c}) \cup {[c EXCEPT !.keys = c.keys \ {k}]}]
    BY <2>1
  <2> HIDE DEF Candidate
  <2>5. (job.todo \ {c}) \cup {[c EXCEPT !.keys = c.keys \ {k}]} \in SUBSET Candidate
    BY <2>3 DEF TypeOK
  <2>6. job' \in [phase : {"idle", "working"}, todo : SUBSET Candidate]
    BY <2>4, <2>5 DEF TypeOK
  <2> QED BY <1>12, <2>4, <2>6 DEF TypeOK, EraseObject
<1>13. CASE MarkCleaned
  <2>1. \A w \in Versions : Cleaned(w) \in Row
    BY RowUpdates DEF TypeOK, Cleaned
  <2> HIDE DEF Row, Candidate, Cleaned
  <2> QED BY <1>13, <2>1 DEF TypeOK, MarkCleaned, IdleJob
<1>14. CASE FinishRun
  BY <1>14 DEF TypeOK, FinishRun, IdleJob
<1>15. CASE RunFails
  BY <1>15, IncidentTyped DEF TypeOK, RunFails, IdleJob
<1>16. ASSUME NEW t \in Tasks, NEW k \in Kinds, Archive(t, k) \/ Restore(t, k) PROVE TypeOK'
  <2>1. \A v \in Versions : /\ [row[v] EXCEPT !.archived = TRUE] \in Row
                            /\ [row[v] EXCEPT !.archived = FALSE] \in Row
    BY RowUpdates DEF TypeOK
  <2>2. row \in [Versions -> Row] /\ incidents' \in 0..MaxIncidents
    BY <1>16, IncidentTyped DEF TypeOK, Archive, Restore
  <2> HIDE DEF Row
  <2>3. row' \in [Versions -> Row]
    BY <1>16, <2>1, <2>2 DEF Archive, Restore
  <2> QED BY <1>16, <2>2, <2>3 DEF TypeOK, Archive, Restore
<1>17. ASSUME NEW t \in Tasks, NEW k \in Kinds, BeginDelete(t, k) PROVE TypeOK'
  <2>1. Live \cap RowsOf(t, k) \subseteq Versions
    BY DEF Live
  <2> QED BY <1>17, <2>1, IncidentTyped DEF TypeOK, BeginDelete
<1>18. CASE DeleteObject
  BY <1>18 DEF TypeOK, DeleteObject, IdleDel
<1>19. CASE CommitDelete
  <2>1. \A v \in Versions : [row[v] EXCEPT !.life = "deleted"] \in Row
    BY RowUpdates DEF TypeOK
  <2> HIDE DEF Row
  <2> QED BY <1>19, <2>1 DEF TypeOK, CommitDelete
<1>20. CASE DeleteFails
  BY <1>20, IncidentTyped DEF TypeOK, DeleteFails
<1>21. CASE UNCHANGED vars
  BY <1>21 DEF TypeOK, vars
<1> QED
  BY <1>1, <1>2, <1>3, <1>4, <1>5, <1>6, <1>7, <1>8, <1>9, <1>10, <1>11, <1>12, <1>13,
     <1>14, <1>15, <1>16, <1>17, <1>18, <1>19, <1>20, <1>21 DEF Next, JobStep

-----------------------------------------------------------------------------
(* The steps *)

\* A step that leaves rows, pointers and objects as they are for the
\* invariant, opens no task, and at most ends a run or a request.
LEMMA QuietStep ==
    ASSUME IInv, TypeOK', CleanedIsArchived',
           \A v \in Versions : Alike(row'[v], row[v]),
           current' = current, objects' = objects, late' = late, condemned' = condemned,
           \A t \in Tasks : task'[t] = "open" => task[t] = "open",
           job' \in {job, IdleJob}, del' \in {del, IdleDel}
    PROVE  IInv'
<1>1. Live' = Live /\ \A t \in Tasks, k \in Kinds : RowsOf(t, k)' = RowsOf(t, k)
  BY DEF Live, RowsOf, Alike
<1>2. \A v \in Versions : Spent(v) => Spent(v)'
  BY DEF Spent, Alike
<1>3. RowsAreFiled'
  BY DEF IInv, RowsAreFiled, Alike
<1>4. CurrentIsOwn'
  BY <1>1 DEF IInv, CurrentIsOwn
<1>5. ObjectsHaveRows'
  BY DEF IInv, TypeOK, ObjectsHaveRows, Alike
<1>6. ListIsSound'
  <2>1. CASE job' = IdleJob
    BY <2>1 DEF ListIsSound, IdleJob
  <2>2. CASE job' = job
    <3>1. \A c \in job.todo : c.v \in Versions /\ c.keys \subseteq Versions
      BY DEF IInv, TypeOK, Candidate
    <3>2. \A c \in job.todo : Spent(c.v)' /\ \A k \in c.keys : Spent(k)'
      BY <1>2, <3>1 DEF IInv, ListIsSound
    <3>3. \A c \in job.todo, w \in Versions : Reached(c, w)' => Reached(c, w)
      BY DEF Reached, Alike
    <3> QED BY <1>1, <2>2, <3>2, <3>3 DEF IInv, ListIsSound, Live
  <2> QED BY <2>1, <2>2
<1>7. DeleteIsSound'
  BY <1>1 DEF IInv, TypeOK, DeleteIsSound, IdleDel
<1>8. OpenTaskKeepsItsFile'
  BY DEF IInv, TypeOK, OpenTaskKeepsItsFile, Alike, Kinds
<1>9. MarkedRowsHaveNoFile'
  BY DEF IInv, TypeOK, MarkedRowsHaveNoFile, Alike
<1> QED BY <1>3, <1>4, <1>5, <1>6, <1>7, <1>8, <1>9 DEF IInv

\* A step that creates a row.
LEMMA InsertStep ==
    ASSUME IInv, TypeOK', CleanedIsArchived',
           NEW t \in Tasks, NEW k \in Kinds, NEW v \in Versions, Insert(v, t, k),
           row'[v].task = t, row'[v].kind = k, row'[v].life = "live",
           row'[v].source # None => k = "preview",
           \A w \in Versions \ {v} : Alike(row'[w], row[w]),
           task' = task, condemned' = condemned, job' = job, del' = del
    PROVE  IInv'
<1>1. row[v].life = "none" /\ v \notin objects
  BY DEF Insert, Free, IInv, ObjectsHaveRows
<1>2. /\ current'[t][k] = v
      /\ \A s \in Tasks, j \in Kinds : <<s, j>> # <<t, k>> => current'[s][j] = current[s][j]
      /\ objects' = objects \cup {v}
      /\ late \subseteq late' /\ (ListIsOut(t, k) => v \in late')
  BY DEF Insert, IInv, TypeOK
<1>3. RowsAreFiled'
  BY DEF IInv, RowsAreFiled, Alike
<1>4. CurrentIsOwn'
  <2> SUFFICES ASSUME NEW s \in Tasks, NEW j \in Kinds, current'[s][j] # None
               PROVE  current'[s][j] \in RowsOf(s, j)'
    BY DEF CurrentIsOwn
  <2>1. CASE <<s, j>> = <<t, k>>
    BY <1>2, <2>1 DEF RowsOf
  <2>2. CASE <<s, j>> # <<t, k>>
    <3>1. current'[s][j] \in RowsOf(s, j)
      BY <1>2, <2>2 DEF IInv, CurrentIsOwn
    <3> QED BY <1>1, <3>1 DEF RowsOf, Alike
  <2> QED BY <2>1, <2>2
<1>5. ObjectsHaveRows'
  BY <1>2 DEF IInv, TypeOK, ObjectsHaveRows, Alike
<1>6. ASSUME NEW w \in Versions, Spent(w) PROVE Spent(w)' /\ w # v
  <2>1. w # v
    BY <1>1, <1>6 DEF Spent
  <2>2. \A s \in Tasks : current'[s]["source"] \in {v, current[s]["source"]}
    BY <1>2 DEF Kinds
  <2> QED BY <1>6, <2>1, <2>2 DEF Spent, Alike
<1>7. ListIsSound'
  <2>1. \A c \in job.todo : c.v \in Versions /\ c.keys \subseteq Versions
    BY DEF IInv, TypeOK, Candidate
  <2>2. \A c \in job.todo : c.v # v /\ Spent(c.v)' /\ \A i \in c.keys : Spent(i)'
    BY <1>6, <2>1 DEF IInv, ListIsSound
  <2> SUFFICES ASSUME NEW c \in job.todo, NEW w \in Live' \cap objects', Reached(c, w)'
               PROVE  w \in c.keys \cup late'
    BY <2>2 DEF ListIsSound, IInv
  <2>3. CASE w = v
    <3>1. row'[v].source = c.v
      BY <2>2, <2>3 DEF Reached
    <3>2. k = "preview" /\ job.phase # "idle"
      BY <2>1, <3>1 DEF IInv, ListIsSound, Versions, None
    <3> QED BY <1>2, <2>3, <3>2 DEF ListIsOut
  <2>4. CASE w # v
    <3>1. w \in Live \cap objects /\ Reached(c, w)
      BY <1>2, <2>4 DEF Live, Reached, Alike
    <3> QED BY <1>2, <3>1 DEF IInv, ListIsSound
  <2> QED BY <2>3, <2>4
<1>8. DeleteIsSound'
  <2> SUFFICES ASSUME del.phase = "erasing",
                      NEW w \in Versions, w \in RowsOf(del.task, del.kind)', w \in objects'
               PROVE  w \in del.keys \cup late'
    BY DEF DeleteIsSound, RowsOf
  <2>1. CASE w = v
    BY <1>2, <2>1 DEF ListIsOut, RowsOf
  <2>2. CASE w # v
    <3>1. w \in RowsOf(del.task, del.kind) \cap objects
      BY <1>2, <2>2 DEF RowsOf, Alike
    <3> QED BY <1>2, <3>1 DEF IInv, DeleteIsSound
  <2> QED BY <2>1, <2>2
<1>9. OpenTaskKeepsItsFile'
  <2> SUFFICES ASSUME NEW s \in Tasks, task[s] = "open", NEW w \in Versions,
                      w = current'[s]["source"], w \notin condemned, row'[w].life # "deleted"
               PROVE  row'[w].life = "live" /\ w \in objects'
    BY DEF OpenTaskKeepsItsFile, TypeOK, Kinds
  <2>1. CASE w = v
    BY <1>2, <2>1
  <2>2. CASE w # v
    <3>1. w = current[s]["source"]
      BY <1>2, <2>2 DEF Kinds
    <3>2. row[w].life = "live" /\ w \in objects
      BY <2>2, <3>1 DEF IInv, OpenTaskKeepsItsFile, Alike, Versions, None
    <3> QED BY <1>2, <2>2, <3>2 DEF Alike
  <2> QED BY <2>1, <2>2
<1>10. MarkedRowsHaveNoFile'
  BY <1>2 DEF IInv, TypeOK, MarkedRowsHaveNoFile, Alike
<1> QED BY <1>3, <1>4, <1>5, <1>7, <1>8, <1>9, <1>10 DEF IInv

\* What the queries list is spent, with the keys that its transaction needs.
LEMMA StartRunStep ==
    ASSUME IInv, TypeOK', StartRun
    PROVE  IInv'
<1> USE DEF storage
<1>1. ASSUME NEW v \in Live, \A t \in Tasks : task[t] = "open" => current[t]["source"] # v
      PROVE  Spent(v)
  BY <1>1 DEF Spent, Live
<1>2. ASSUME NEW p \in Live, row[p].kind = "preview" PROVE Spent(p)
  BY <1>1, <1>2 DEF IInv, CurrentIsOwn, RowsOf, Kinds, Live, Versions, None
<1>3. ASSUME NEW v \in Outlived PROVE Spent(v)
  BY <1>1, <1>3 DEF IInv, CurrentIsOwn, RowsOf, Kinds, Live, Outlived, Versions, None
<1>4. ASSUME NEW v \in Superseded PROVE Spent(v)
  BY <1>1, <1>4 DEF IInv, CurrentIsOwn, RowsOf, Kinds, Live, Superseded, Versions, None
<1>5. ASSUME NEW c \in ClosedCandidates \cup SupersededCandidates
      PROVE  /\ Spent(c.v) /\ \A k \in c.keys : Spent(k)
             /\ \A w \in Live \cap objects : Reached(c, w) => w \in c.keys
  <2>1. CASE c \in ClosedCandidates
    <3>1. PICK v \in Outlived :
            c = [v |-> v, keys |-> {v}, linked |-> row[v].linked, why |-> "closed",
                 rank |-> Cardinality({w \in Outlived : ClosedBefore(w, v)})]
      BY <2>1 DEF ClosedCandidates
    <3>2. c.v = v /\ c.keys = {v} /\ c.why = "closed"
      BY <3>1
    <3> QED BY <1>3, <3>2 DEF Reached
  <2>2. CASE c \in SupersededCandidates
    <3>1. PICK v \in Superseded :
            c.v = v /\ c.keys = {v} \cup DerivedFrom(v) /\ c.why = "superseded"
      BY <2>2 DEF SupersededCandidates
    <3>2. \A p \in DerivedFrom(v) : p \in Live /\ row[p].kind = "preview"
      BY DEF DerivedFrom, IInv, RowsAreFiled, Live, Superseded, Versions, None
    <3> QED BY <1>2, <1>4, <3>1, <3>2 DEF Reached, DerivedFrom
  <2> QED BY <1>5, <2>1, <2>2
<1>6. job'.todo = ClosedCandidates \cup SupersededCandidates /\ job'.phase = "working"
  BY DEF StartRun
<1>7. /\ task' = task /\ row' = row /\ current' = current /\ objects' = objects
      /\ late' = late /\ del' = del /\ condemned' = condemned
  BY DEF StartRun
<1>8. ListIsSound'
  BY <1>5, <1>6, <1>7 DEF ListIsSound, Spent, Reached, Live
<1> QED BY <1>7, <1>8 DEF IInv, RowsAreFiled, CurrentIsOwn, RowsOf, ObjectsHaveRows,
                          DeleteIsSound, OpenTaskKeepsItsFile, MarkedRowsHaveNoFile,
                          CleanedIsArchived

\* The run removes spent objects only, and takes them off its list.
LEMMA EraseObjectStep ==
    ASSUME IInv, TypeOK', EraseObject
    PROVE  IInv'
<1>1. PICK c \in job.todo : \E k \in c.keys :
          /\ objects' = objects \ {k}
          /\ job' = [job EXCEPT !.todo =
                       (job.todo \ {c}) \cup {[c EXCEPT !.keys = c.keys \ {k}]}]
  BY DEF EraseObject
<1>2. PICK k \in c.keys :
          /\ objects' = objects \ {k}
          /\ job' = [job EXCEPT !.todo =
                       (job.todo \ {c}) \cup {[c EXCEPT !.keys = c.keys \ {k}]}]
  BY <1>1
<1>3. c \in Candidate /\ k \in Versions
  BY DEF IInv, TypeOK, Candidate
<1>4. /\ task' = task /\ row' = row /\ current' = current /\ late' = late
      /\ del' = del /\ condemned' = condemned /\ job.phase = "working"
  BY DEF EraseObject
<1>5. Spent(k)
  BY DEF IInv, ListIsSound
<1>6. job'.todo = (job.todo \ {c}) \cup {[c EXCEPT !.keys = c.keys \ {k}]}
      /\ job'.phase = "working"
  BY <1>2, <1>4 DEF IInv, TypeOK
<1>7. ASSUME NEW d \in job'.todo
      PROVE  \E e \in job.todo : /\ d.v = e.v /\ d.why = e.why /\ d.keys \subseteq e.keys
                                 /\ e.keys \subseteq d.keys \cup {k}
  <2>1. CASE d \in job.todo
    BY <2>1
  <2>2. CASE d = [c EXCEPT !.keys = c.keys \ {k}]
    BY <1>3, <2>2 DEF Candidate
  <2> QED BY <1>6, <1>7, <2>1, <2>2
<1>8. ListIsSound'
  <2>1. \A v \in Versions : Spent(v)' = Spent(v)
    BY <1>4 DEF Spent
  <2> SUFFICES ASSUME NEW d \in job'.todo
               PROVE  /\ Spent(d.v)' /\ \A i \in d.keys : Spent(i)'
                      /\ \A w \in Live' \cap objects' : Reached(d, w)' => w \in d.keys \cup late'
    BY <1>6 DEF ListIsSound
  <2>2. PICK e \in job.todo : /\ d.v = e.v /\ d.why = e.why /\ d.keys \subseteq e.keys
                              /\ e.keys \subseteq d.keys \cup {k}
    BY <1>7
  <2>3. e \in Candidate
    BY DEF IInv, TypeOK
  <2>4. /\ Spent(e.v) /\ \A i \in e.keys : Spent(i)
        /\ \A w \in Live \cap objects : Reached(e, w) => w \in e.keys \cup late
    BY DEF IInv, ListIsSound
  <2>5. Spent(d.v)' /\ \A i \in d.keys : Spent(i)'
    BY <2>1, <2>2, <2>3, <2>4 DEF Candidate
  <2>6. \A w \in Live' \cap objects' : Reached(d, w)' => w \in d.keys \cup late'
    BY <1>2, <1>4, <2>2, <2>4 DEF Live, Reached
  <2> QED BY <2>5, <2>6
<1>9. OpenTaskKeepsItsFile'
  BY <1>2, <1>4, <1>5 DEF IInv, OpenTaskKeepsItsFile, Spent
<1> QED BY <1>2, <1>4, <1>8, <1>9
        DEF IInv, RowsAreFiled, CurrentIsOwn, RowsOf, ObjectsHaveRows, DeleteIsSound,
            MarkedRowsHaveNoFile, CleanedIsArchived

\* The rows a candidate's transaction marks are spent, and their objects gone.
LEMMA MarkCleanedStep ==
    ASSUME IInv, TypeOK', MarkCleaned
    PROVE  IInv'
<1>1. PICK c \in job.todo :
        /\ c.keys = {}
        /\ IF c.linked
           THEN /\ row' = [w \in Versions |-> IF w \in MarkedWith(c) THEN Cleaned(w) ELSE row[w]]
                /\ job' = [job EXCEPT !.todo = job.todo \ {c}]
           ELSE /\ job' = IdleJob
                /\ row' = row
  BY DEF MarkCleaned
<1>2. /\ task' = task /\ current' = current /\ objects' = objects /\ late' = late
      /\ del' = del /\ condemned' = condemned /\ job.phase = "working"
  BY DEF MarkCleaned
<1>3. CASE ~c.linked
  <2>1. \A v \in Versions : Alike(row'[v], row[v])
    BY <1>1, <1>3 DEF Alike
  <2>2. CleanedIsArchived' /\ job' = IdleJob
    BY <1>1, <1>3 DEF IInv, CleanedIsArchived
  <2> QED BY <1>2, <2>1, <2>2, QuietStep
<1>4. CASE c.linked
  <2>1. \A w \in Versions :
          /\ row'[w].task = row[w].task /\ row'[w].kind = row[w].kind
          /\ row'[w].source = row[w].source
          /\ w \in MarkedWith(c) => row'[w].life = "cleaned" /\ row'[w].archived
          /\ w \notin MarkedWith(c) => row'[w] = row[w]
    <3>1. \A w \in Versions : row[w] \in Row
      BY DEF IInv, TypeOK
    <3>2. \A w \in Versions : row'[w] = IF w \in MarkedWith(c) THEN Cleaned(w) ELSE row[w]
      BY <1>1, <1>4
    <3>3. \A w \in Versions :
            /\ Cleaned(w).life = "cleaned" /\ Cleaned(w).archived = TRUE
            /\ Cleaned(w).task = row[w].task /\ Cleaned(w).kind = row[w].kind
            /\ Cleaned(w).source = row[w].source
      BY <3>1, RowUpdates DEF Cleaned
    <3> QED BY <3>2, <3>3
  <2>2. \A w \in Versions : row'[w].life \in {row[w].life, "cleaned"}
                            /\ (row'[w].life = "none" <=> row[w].life = "none")
    BY <2>1 DEF MarkedWith, Live
  <2>3. job'.todo = job.todo \ {c} /\ job'.phase = "working"
    BY <1>1, <1>2, <1>4 DEF IInv, TypeOK
  <2>4. c.v \in Versions /\ Spent(c.v)
    BY DEF IInv, TypeOK, Candidate, ListIsSound
  <2>5. ASSUME NEW w \in MarkedWith(c) PROVE w \in objects => w \in late
    BY <1>1, <2>5 DEF IInv, ListIsSound, MarkedWith, Reached
  <2>6. ASSUME NEW w \in MarkedWith(c), NEW t \in Tasks, task[t] = "open"
        PROVE  current[t]["source"] # w
    <3>1. CASE w = c.v
      BY <2>4, <2>6, <3>1 DEF Spent
    <3>2. CASE row[w].source = c.v
      <4>1. w \in Versions /\ row[w].kind = "preview"
        BY <2>4, <3>2 DEF IInv, RowsAreFiled, MarkedWith, Live, Versions, None
      <4> QED BY <4>1 DEF IInv, CurrentIsOwn, RowsOf, Kinds, Versions, None
    <3> QED BY <2>6, <3>1, <3>2 DEF MarkedWith
  <2>7. RowsAreFiled' /\ ObjectsHaveRows'
    <3>1. RowsAreFiled'
      BY <2>1, <2>2 DEF IInv, RowsAreFiled
    <3>2. ObjectsHaveRows'
      BY <1>2, <2>2 DEF IInv, TypeOK, ObjectsHaveRows
    <3> QED BY <3>1, <3>2
  <2>8. CurrentIsOwn'
    BY <1>2, <2>1, <2>2 DEF IInv, CurrentIsOwn, RowsOf
  <2>9. ListIsSound'
    <3>1. \A v \in Versions : Spent(v) => Spent(v)'
      BY <1>2, <2>2 DEF Spent
    <3>2. \A d \in job.todo : d.v \in Versions /\ d.keys \subseteq Versions
      BY DEF IInv, TypeOK, Candidate
    <3>3. \A d \in job.todo : Spent(d.v)' /\ \A i \in d.keys : Spent(i)'
      BY <3>1, <3>2 DEF IInv, ListIsSound
    <3>4. \A w \in Live' : w \in Live
      BY <2>2 DEF Live
    <3>5. \A d \in job.todo, w \in Versions : Reached(d, w)' => Reached(d, w)
      BY <2>1 DEF Reached
    <3> QED BY <1>2, <2>3, <3>3, <3>4, <3>5 DEF IInv, ListIsSound, Live
  <2>10. DeleteIsSound'
    BY <1>2, <2>1, <2>2 DEF IInv, DeleteIsSound, RowsOf
  <2>11. OpenTaskKeepsItsFile'
    <3> SUFFICES ASSUME NEW t \in Tasks, task[t] = "open", NEW v \in Versions,
                        v = current[t]["source"], v \notin condemned, row'[v].life # "deleted"
                 PROVE  row'[v].life = "live" /\ v \in objects
      BY <1>2 DEF OpenTaskKeepsItsFile, IInv, TypeOK, Kinds
    <3>1. row'[v] = row[v]
      BY <2>1, <2>6
    <3> QED BY <3>1 DEF IInv, OpenTaskKeepsItsFile, Versions, None
  <2>12. MarkedRowsHaveNoFile' /\ CleanedIsArchived'
    BY <1>2, <2>1, <2>5 DEF IInv, TypeOK, MarkedRowsHaveNoFile, CleanedIsArchived
  <2> QED BY <2>7, <2>8, <2>9, <2>10, <2>11, <2>12 DEF IInv
<1> QED BY <1>3, <1>4

\* The request lists what it will mark; the objects of dead rows are gone.
LEMMA BeginDeleteStep ==
    ASSUME IInv, TypeOK', NEW t \in Tasks, NEW k \in Kinds, BeginDelete(t, k)
    PROVE  IInv'
<1>1. /\ task' = task /\ row' = row /\ current' = current /\ objects' = objects
      /\ late' = late /\ job' = job /\ condemned' = condemned
      /\ del' = [phase |-> "erasing", task |-> t, kind |-> k, keys |-> Live \cap RowsOf(t, k)]
  BY DEF BeginDelete, storage
<1>2. DeleteIsSound'
  <2>1. \A v \in RowsOf(t, k) \cap objects : v \in Live \/ v \in late
    BY DEF IInv, TypeOK, Row, Lives, MarkedRowsHaveNoFile, RowsOf, Live
  <2> QED BY <1>1, <2>1 DEF DeleteIsSound, RowsOf, Live
<1> QED BY <1>1, <1>2
        DEF IInv, RowsAreFiled, CurrentIsOwn, RowsOf, ObjectsHaveRows, ListIsSound, Spent,
            Reached, Live, OpenTaskKeepsItsFile, MarkedRowsHaveNoFile, CleanedIsArchived

LEMMA DeleteObjectStep ==
    ASSUME IInv, TypeOK', DeleteObject
    PROVE  IInv'
<1>1. PICK k \in del.keys : /\ objects' = objects \ {k}
                            /\ condemned' = condemned \cup {k}
                            /\ del' = [del EXCEPT !.keys = del.keys \ {k}]
  BY DEF DeleteObject
<1>2. /\ task' = task /\ row' = row /\ current' = current
      /\ late' = late /\ job' = job /\ del.phase = "erasing"
  BY DEF DeleteObject
<1>3. del'.keys = del.keys \ {k} /\ del'.task = del.task /\ del'.kind = del.kind
  BY <1>1, <1>2 DEF IInv, TypeOK, IdleDel
<1>4. DeleteIsSound'
  BY <1>1, <1>2, <1>3 DEF IInv, DeleteIsSound, RowsOf
<1>5. ListIsSound'
  BY <1>1, <1>2 DEF IInv, ListIsSound, Spent, Reached, Live
<1> QED BY <1>1, <1>2, <1>4, <1>5
        DEF IInv, RowsAreFiled, CurrentIsOwn, RowsOf, ObjectsHaveRows,
            OpenTaskKeepsItsFile, MarkedRowsHaveNoFile, CleanedIsArchived

LEMMA CommitDeleteStep ==
    ASSUME IInv, TypeOK', CommitDelete
    PROVE  IInv'
<1>1. /\ task' = task /\ current' = current /\ objects' = objects /\ late' = late
      /\ job' = job /\ condemned' = condemned /\ del' = IdleDel
      /\ del.phase = "erasing" /\ del.keys = {}
  BY DEF CommitDelete
<1>2. \A v \in Versions :
        /\ row'[v].task = row[v].task /\ row'[v].kind = row[v].kind
        /\ row'[v].source = row[v].source /\ row'[v].archived = row[v].archived
        /\ \/ row'[v].life = row[v].life
           \/ row'[v].life = "deleted" /\ v \in RowsOf(del.task, del.kind)
  <2>1. \A v \in Versions : row[v] \in Row
    BY DEF IInv, TypeOK
  <2> QED BY <2>1, RowUpdates DEF CommitDelete
<1>3. \A v \in Versions : row'[v].life = "none" <=> row[v].life = "none"
  BY <1>2 DEF RowsOf
<1>4. RowsAreFiled' /\ ObjectsHaveRows'
  <2>1. RowsAreFiled'
    BY <1>2, <1>3 DEF IInv, RowsAreFiled
  <2>2. ObjectsHaveRows'
    BY <1>1, <1>3 DEF IInv, TypeOK, ObjectsHaveRows
  <2> QED BY <2>1, <2>2
<1>5. CurrentIsOwn'
  BY <1>1, <1>2, <1>3 DEF IInv, CurrentIsOwn, RowsOf
<1>6. ListIsSound'
  <2>1. \A v \in Versions : Spent(v) => Spent(v)'
    BY <1>1, <1>3 DEF Spent
  <2>2. \A d \in job.todo : d.v \in Versions /\ d.keys \subseteq Versions
    BY DEF IInv, TypeOK, Candidate
  <2>3. \A d \in job.todo : Spent(d.v)' /\ \A i \in d.keys : Spent(i)'
    BY <2>1, <2>2 DEF IInv, ListIsSound
  <2>4. \A w \in Live' : w \in Live
    BY <1>2 DEF Live
  <2>5. \A d \in job.todo, w \in Versions : Reached(d, w)' => Reached(d, w)
    BY <1>2 DEF Reached
  <2> QED BY <1>1, <2>3, <2>4, <2>5 DEF IInv, ListIsSound, Live
<1>7. DeleteIsSound'
  BY <1>1 DEF DeleteIsSound, IdleDel
<1>8. OpenTaskKeepsItsFile'
  BY <1>1, <1>2 DEF IInv, TypeOK, Kinds, OpenTaskKeepsItsFile
<1>9. MarkedRowsHaveNoFile'
  BY <1>1, <1>2 DEF IInv, TypeOK, MarkedRowsHaveNoFile, DeleteIsSound
<1>10. CleanedIsArchived'
  BY <1>2 DEF IInv, CleanedIsArchived
<1> QED BY <1>4, <1>5, <1>6, <1>7, <1>8, <1>9, <1>10 DEF IInv

\* Every step keeps the invariant.
LEMMA IInvStep ==
    ASSUME IInv, [Next]_vars
    PROVE  IInv'
<1> USE DEF storage, erasers
<1>0. TypeOK' /\ TypeOK
  BY TypeStep DEF IInv
<1>a. ASSUME row' = row PROVE CleanedIsArchived' /\ \A v \in Versions : Alike(row'[v], row[v])
  BY <1>a DEF IInv, CleanedIsArchived, Alike
<1>b. ASSUME NEW v \in Versions PROVE row[v] \in Row
  BY DEF IInv, TypeOK
<1>1. ASSUME NEW u \in Uploads, NEW t \in Tasks, BeginUpload(u, t) PROVE IInv'
  BY <1>0, <1>1, <1>a, QuietStep DEF BeginUpload
<1>2. ASSUME NEW u \in Uploads, CommitUpload(u) PROVE IInv'
  <2>1. up[u].task \in Tasks /\ "source" \in Kinds
    BY <1>0, <1>2, UploadedRows DEF Kinds
  <2>2. PICK v \in Versions :
                /\ Insert(v, up[u].task, "source")
                /\ row'[v] = NewRow(up[u].task, "source", None)
                /\ \A w \in Versions \ {v} :
                     row'[w] = IF w = up[u].prev /\ w \in Live
                               THEN SupersededRow(w, v) ELSE row[w]
    BY <1>0, <1>2, UploadedRows
  <2>3. /\ row'[v].task = up[u].task /\ row'[v].kind = "source" /\ row'[v].life = "live"
        /\ row'[v].source = None
    BY <2>1, <2>2, NewRowTyped
  <2>4. \A w \in Versions \ {v} : /\ Alike(SupersededRow(w, v), row[w])
                                  /\ SupersededRow(w, v).archived = row[w].archived
    BY <1>b DEF SupersededRow, Alike, Row
  <2>5. \A w \in Versions \ {v} : Alike(row'[w], row[w]) /\ row'[w].archived = row[w].archived
    BY <2>2, <2>4 DEF Alike
  <2>6. CleanedIsArchived'
    BY <2>3, <2>5 DEF IInv, CleanedIsArchived, Alike
  <2>7. task' = task /\ condemned' = condemned /\ job' = job /\ del' = del
    BY <1>2 DEF CommitUpload
  <2> HIDE DEF IInv, Insert, Alike, NewRow
  <2> QED BY <1>0, <2>1, <2>2, <2>3, <2>5, <2>6, <2>7, InsertStep
<1>3. ASSUME NEW u \in Uploads, UploadFails(u) PROVE IInv'
  BY <1>0, <1>3, <1>a, QuietStep DEF UploadFails
<1>4. ASSUME NEW t \in Tasks, BeginRender(t) PROVE IInv'
  BY <1>0, <1>4, <1>a, QuietStep DEF BeginRender
<1>5. ASSUME NEW t \in Tasks, CommitRender(t) PROVE IInv'
  <2>1. rendering[t] \in Versions /\ "preview" \in Kinds
    BY <1>0, <1>5, RenderedRows DEF Kinds
  <2>2. PICK v \in Versions :
                /\ Insert(v, t, "preview")
                /\ row'[v] = NewRow(t, "preview", rendering[t])
                /\ \A w \in Versions \ {v} : row'[w] = row[w]
    BY <1>0, <1>5, RenderedRows
  <2>3. row'[v].task = t /\ row'[v].kind = "preview" /\ row'[v].life = "live"
    BY <2>1, <2>2, NewRowTyped
  <2>4. CleanedIsArchived' /\ \A w \in Versions \ {v} : Alike(row'[w], row[w])
    BY <2>2, <2>3 DEF IInv, CleanedIsArchived, Alike
  <2>5. task' = task /\ condemned' = condemned /\ job' = job /\ del' = del
    BY <1>5 DEF CommitRender
  <2> HIDE DEF IInv, Insert, Alike, NewRow
  <2> QED BY <1>0, <2>1, <2>2, <2>3, <2>4, <2>5, InsertStep
<1>6. ASSUME NEW t \in Tasks, RenderFails(t) PROVE IInv'
  BY <1>0, <1>6, <1>a, QuietStep DEF RenderFails
<1>7. CASE Backfill
  <2>1. \A v \in Versions : Alike(row'[v], row[v]) /\ row'[v].archived = row[v].archived
    <3>1. \A v \in Versions : row'[v] = [row[v] EXCEPT !.linked = row[v].life # "none"]
      BY <1>7 DEF Backfill
    <3> QED BY <1>b, <3>1 DEF Alike, Row
  <2>2. CleanedIsArchived'
    BY <2>1 DEF IInv, CleanedIsArchived, Alike
  <2> QED BY <1>0, <1>7, <2>1, <2>2, QuietStep DEF Backfill
<1>8. CASE Expire
  <2>1. PICK v \in Versions : row' = [row EXCEPT ![v] = [row[v] EXCEPT !.due = TRUE]]
    BY <1>8 DEF Expire
  <2>2. \A w \in Versions : Alike(row'[w], row[w]) /\ row'[w].archived = row[w].archived
    <3>1. Alike([row[v] EXCEPT !.due = TRUE], row[v])
          /\ [row[v] EXCEPT !.due = TRUE].archived = row[v].archived
      BY <1>b, RowUpdates
    <3>2. \A w \in Versions : row'[w] = IF w = v THEN [row[v] EXCEPT !.due = TRUE] ELSE row[w]
      BY <1>0, <2>1 DEF TypeOK
    <3> QED BY <3>1, <3>2 DEF Alike
  <2>3. CleanedIsArchived'
    BY <2>2 DEF IInv, CleanedIsArchived, Alike
  <2> QED BY <1>0, <1>8, <2>2, <2>3, QuietStep DEF Expire
<1>9. ASSUME NEW t \in Tasks, CloseTask(t) PROVE IInv'
  <2>1. \A s \in Tasks : task'[s] = "open" => task[s] = "open"
    BY <1>0, <1>9 DEF CloseTask, TypeOK
  <2> QED BY <1>0, <1>9, <1>a, <2>1, QuietStep DEF CloseTask
<1>10. ASSUME NEW t \in Tasks, Age(t) PROVE IInv'
  <2>1. \A s \in Tasks : task'[s] = "open" => task[s] = "open"
    BY <1>0, <1>10 DEF Age, TypeOK
  <2> QED BY <1>0, <1>10, <1>a, <2>1, QuietStep DEF Age
<1>11. CASE StartRun
  BY <1>0, <1>11, StartRunStep
<1>12. CASE EraseObject
  BY <1>0, <1>12, EraseObjectStep
<1>13. CASE MarkCleaned
  BY <1>0, <1>13, MarkCleanedStep
<1>14. CASE FinishRun \/ RunFails
  BY <1>0, <1>14, <1>a, QuietStep DEF FinishRun, RunFails
<1>15. ASSUME NEW t \in Tasks, NEW k \in Kinds, Archive(t, k) \/ Restore(t, k) PROVE IInv'
  <2>1. \A v \in Versions : \E b \in BOOLEAN :
          row'[v] = row[v] \/ (row[v].life = "live" /\ row'[v] = [row[v] EXCEPT !.archived = b])
    BY <1>15 DEF Archive, Restore, Live
  <2>2. \A v \in Versions : Alike(row'[v], row[v])
    BY <1>b, <2>1 DEF Alike, Row
  <2>3. CleanedIsArchived'
    BY <2>1, <2>2 DEF IInv, CleanedIsArchived, Alike
  <2> QED BY <1>0, <1>15, <2>2, <2>3, QuietStep DEF Archive, Restore
<1>16. ASSUME NEW t \in Tasks, NEW k \in Kinds, BeginDelete(t, k) PROVE IInv'
  BY <1>0, <1>16, BeginDeleteStep
<1>17. CASE DeleteObject
  BY <1>0, <1>17, DeleteObjectStep
<1>18. CASE CommitDelete
  BY <1>0, <1>18, CommitDeleteStep
<1>19. CASE DeleteFails
  BY <1>0, <1>19, <1>a, QuietStep DEF DeleteFails
<1>20. CASE UNCHANGED vars
  BY <1>0, <1>20, <1>a, QuietStep DEF vars
<1> QED
  BY <1>1, <1>2, <1>3, <1>4, <1>5, <1>6, <1>7, <1>8, <1>9, <1>10, <1>11, <1>12, <1>13,
     <1>14, <1>15, <1>16, <1>17, <1>18, <1>19, <1>20 DEF Next, JobStep

LEMMA IInvInit ==
    ASSUME Init
    PROVE  IInv
<1>1. \A v \in Versions : row[v] = NoRow
  BY DEF Init
<1>2. NoRow \in Row /\ NoRow.life = "none" /\ NoRow.source = None
  BY DEF NoRow, Row, Lives, Kinds, None
<1>3. TypeOK
  <2>1. row \in [Versions -> Row]
    BY <1>2 DEF Init
  <2> HIDE DEF Row
  <2> QED BY <2>1, AssetAssumption DEF Init, TypeOK, IdleJob, IdleDel, IdleUpload
<1>4. RowsAreFiled /\ CleanedIsArchived
  BY <1>1, <1>2 DEF RowsAreFiled, CleanedIsArchived
<1>5. CurrentIsOwn /\ OpenTaskKeepsItsFile
  BY DEF Init, CurrentIsOwn, OpenTaskKeepsItsFile, Kinds
<1> QED BY <1>3, <1>4, <1>5
        DEF Init, IInv, ObjectsHaveRows, ListIsSound, DeleteIsSound, IdleJob, IdleDel,
            MarkedRowsHaveNoFile

-----------------------------------------------------------------------------
(* Theorems *)

LEMMA Invariance == Spec => []IInv
<1>1. Init => IInv
  BY IInvInit
<1>2. IInv /\ [Next]_vars => IInv'
  BY IInvStep
<1> QED BY <1>1, <1>2, PTL DEF Spec

\* The rows, lists and requests keep their types in every behaviour.
THEOREM TypeCorrect == Spec => []TypeOK
<1>1. IInv => TypeOK
  BY DEF IInv
<1> QED BY <1>1, Invariance, PTL

\* The cleanup job never takes the file an open task works with, whatever
\* happens between its list and its deletes (cleanup_job.go:76).
THEOREM OpenTaskKeepsItsFileHolds == Spec => []OpenTaskKeepsItsFile
<1>1. IInv => OpenTaskKeepsItsFile
  BY DEF IInv
<1> QED BY <1>1, Invariance, PTL

\* A row that gives up its key leaves no object behind, unless it was created
\* while the list of its eraser was out (delete_service.go:30).
THEOREM MarkedRowsHaveNoFileHolds == Spec => []MarkedRowsHaveNoFile
<1>1. IInv => MarkedRowsHaveNoFile
  BY DEF IInv
<1> QED BY <1>1, Invariance, PTL

\* Cleaned versions stay archived through the restore of their asset
\* (restore_service.go:10).
THEOREM CleanedIsArchivedHolds == Spec => []CleanedIsArchived
<1>1. IInv => CleanedIsArchived
  BY DEF IInv
<1> QED BY <1>1, Invariance, PTL

-----------------------------------------------------------------------------
(* Lost files.  A file whose object is gone while its row is still live is  *)
(* found by a later run, because rows fall due in the order in which they   *)
(* were superseded and the run takes them in that order: the row that       *)
(* superseded a lost one is not cleaned before it.                          *)

\* Rows are numbered as they are created.
RowsAreNumbered ==
    \A v, w \in Versions : (row[v].life = "none" /\ row[w].life # "none") => w < v

\* The current version of an uploaded asset is its newest.
CurrentIsNewest ==
    \A t \in Tasks : \A v \in RowsOf(t, "source") :
        current[t]["source"] # None /\ v <= current[t]["source"]

\* A row is superseded by a newer row of the same uploaded asset.
SupersededByNewer ==
    \A v \in Versions :
        row[v].supersededBy # None =>
            /\ row[v].task \in Tasks
            /\ v \in RowsOf(row[v].task, "source")
            /\ row[v].supersededBy \in RowsOf(row[v].task, "source")
            /\ v < row[v].supersededBy

\* What an upload will supersede is a row of its asset that is not yet due.
UploadsAreFresh ==
    \A u \in Uploads :
        up[u].prev # None =>
            up[u].prev \in RowsOf(up[u].task, "source") /\ ~row[up[u].prev].due

\* Rows fall due in the order in which they were superseded.
DueInOrder ==
    \A v \in Versions :
        row[v].due =>
            /\ row[v].supersededBy # None
            /\ \A w \in Versions : SupersededBefore(w, v) => row[w].due

OInv ==
    /\ RowsAreNumbered
    /\ CurrentIsNewest
    /\ SupersededByNewer
    /\ UploadsAreFresh
    /\ DueInOrder

StillEligible(v) == v \in Live => v \in Outlived \cup Superseded

\* What the run has listed stays a candidate while it is live, and what a
\* listed row supersedes is on the list too.
ListStaysEligible ==
    \A c \in job.todo :
        /\ \A k \in c.keys : k = c.v \/ row[k].kind = "preview"
        /\ row[c.v].task \in Tasks
        /\ StillEligible(c.v)
        /\ c.why = "closed" => task[row[c.v].task] = "aged"
        /\ c.why = "superseded" =>
             /\ row[c.v].due /\ c.rank = row[c.v].supersededBy
             /\ \A v \in Live : row[v].supersededBy = c.v =>
                  \/ v \in Outlived
                  \/ \E d \in job.todo : d.why = "superseded" /\ d.v = v

LInv == IInv /\ OInv /\ ListStaysEligible /\ LostFileIsStillACandidate

\* A row that is superseded by the same row as before.
Ordered(v) ==
    /\ row'[v].task = row[v].task /\ row'[v].kind = row[v].kind
    /\ row'[v].supersededBy = row[v].supersededBy
    /\ row'[v].life = "none" <=> row[v].life = "none"

\* What an upload will supersede after the step is what it meant to before.
UploadsStay == \A u \in Uploads : up'[u] \in {up[u], IdleUpload}

LEMMA RowNumbers ==
    ASSUME TypeOK
    PROVE  /\ Versions \subseteq Nat \ {None}
           /\ \A v \in Versions : /\ row[v].supersededBy \in Versions \cup {None}
                                  /\ row[v].due \in BOOLEAN
                                  /\ row[v].task \in Tasks \cup {NoTask}
                                  /\ row[v].kind \in Kinds
BY AssetAssumption DEF TypeOK, Row, Versions, None

\* The order of the rows survives a step that supersedes nothing.
LEMMA OrderQuiet ==
    ASSUME OInv, UploadsStay, current' = current,
           \A v \in Versions : Ordered(v) /\ row'[v].due = row[v].due
    PROVE  OInv'
<1>1. \A t \in Tasks \cup {NoTask}, k \in Kinds : RowsOf(t, k)' = RowsOf(t, k)
  BY DEF RowsOf, Ordered
<1>2. RowsAreNumbered'
  BY DEF OInv, RowsAreNumbered, Ordered
<1>3. CurrentIsNewest'
  BY <1>1 DEF OInv, CurrentIsNewest, Kinds
<1>4. SupersededByNewer'
  BY DEF OInv, SupersededByNewer, RowsOf, Ordered
<1>5. UploadsAreFresh'
  BY DEF OInv, UploadsAreFresh, UploadsStay, IdleUpload, RowsOf, Ordered
<1>6. DueInOrder'
  BY DEF OInv, DueInOrder, SupersededBefore, Ordered
<1> QED BY <1>2, <1>3, <1>4, <1>5, <1>6 DEF OInv

\* What a new row does to the others: at most one row, not yet due, of the
\* same uploaded asset is superseded by it.
Inserted(v, t, k) ==
    /\ Insert(v, t, k)
    /\ row'[v].task = t /\ row'[v].kind = k /\ row'[v].life = "live"
    /\ row'[v].supersededBy = None /\ row'[v].due = FALSE
    /\ \A w \in Versions \ {v} :
         /\ Alike(row'[w], row[w])
         /\ \/ row'[w].supersededBy = row[w].supersededBy /\ row'[w].due = row[w].due
            \/ /\ k = "source" /\ w \in RowsOf(t, k) /\ row[w].due = FALSE
               /\ row'[w].supersededBy = v /\ row'[w].due = FALSE

LEMMA OrderInsert ==
    ASSUME TypeOK, TypeOK', OInv, UploadsStay,
           NEW v \in Versions, NEW t \in Tasks, NEW k \in Kinds, Inserted(v, t, k)
    PROVE  OInv'
<1>1. row[v].life = "none" /\ \A w \in Versions : row[w].life = "none" => v <= w
  BY DEF Inserted, Insert, Free
<1>2. \A w \in Versions : row[w].life # "none" => w < v
  BY <1>1 DEF OInv, RowsAreNumbered
<1>3. /\ current'[t][k] = v
      /\ \A s \in Tasks, j \in Kinds : <<s, j>> # <<t, k>> => current'[s][j] = current[s][j]
  BY DEF Inserted, Insert, TypeOK
<1>4. \A w \in Versions \ {v} : Alike(row'[w], row[w])
  BY DEF Inserted
<1>5. \A w \in Versions, s \in Tasks \cup {NoTask}, j \in Kinds :
         w \in RowsOf(s, j)' <=> w \in RowsOf(s, j) \/ (w = v /\ s = t /\ j = k)
  BY <1>1, <1>4 DEF RowsOf, Alike, Inserted
<1>6. RowsAreNumbered'
  <2> SUFFICES ASSUME NEW x \in Versions, NEW w \in Versions,
                      row'[x].life = "none", row'[w].life # "none"
               PROVE  w < x
    BY DEF RowsAreNumbered
  <2>1. x # v /\ row[x].life = "none"
    BY <1>4 DEF Alike, Inserted
  <2>2. CASE w = v
    BY <1>1, <2>1, <2>2, RowNumbers
  <2>3. CASE w # v
    BY <1>4, <2>1, <2>3 DEF Alike, OInv, RowsAreNumbered
  <2> QED BY <2>2, <2>3
<1>7. CurrentIsNewest'
  <2> SUFFICES ASSUME NEW s \in Tasks, NEW w \in RowsOf(s, "source")'
               PROVE  current'[s]["source"] # None /\ w <= current'[s]["source"]
    BY DEF CurrentIsNewest
  <2>1. w \in Versions /\ "source" \in Kinds
    BY DEF RowsOf, Kinds
  <2>2. CASE s = t /\ k = "source"
    <3>1. w = v \/ w < v
      BY <1>2, <1>4, <2>1 DEF RowsOf, Alike
    <3> QED BY <1>3, <2>1, <2>2, <3>1, RowNumbers
  <2>3. CASE ~(s = t /\ k = "source")
    <3>1. w \in RowsOf(s, "source")
      BY <1>5, <2>1, <2>3
    <3> QED BY <1>3, <2>1, <2>3, <3>1 DEF OInv, CurrentIsNewest
  <2> QED BY <2>2, <2>3
<1>8. SupersededByNewer'
  <2> SUFFICES ASSUME NEW w \in Versions, row'[w].supersededBy # None
               PROVE  /\ row'[w].task \in Tasks
                      /\ w \in RowsOf(row[w].task, "source")'
                      /\ row'[w].supersededBy \in RowsOf(row[w].task, "source")'
                      /\ w < row'[w].supersededBy
    BY DEF SupersededByNewer
  <2>1. w # v /\ row'[w].task = row[w].task /\ "source" \in Kinds
    BY <1>4 DEF Inserted, Alike, Kinds
  <2>2. CASE row'[w].supersededBy = row[w].supersededBy
    <3>1. /\ row[w].task \in Tasks /\ w \in RowsOf(row[w].task, "source")
          /\ row[w].supersededBy \in RowsOf(row[w].task, "source")
          /\ w < row[w].supersededBy
      BY <2>2 DEF OInv, SupersededByNewer
    <3>2. row[w].supersededBy \in Versions
      BY <3>1 DEF RowsOf
    <3> QED BY <1>5, <2>1, <2>2, <3>1, <3>2
  <2>3. CASE row'[w].supersededBy # row[w].supersededBy
    <3>1. k = "source" /\ w \in RowsOf(t, "source") /\ row'[w].supersededBy = v
      BY <2>1, <2>3 DEF Inserted
    <3>2. row[w].task = t /\ w < v
      BY <1>2, <3>1 DEF RowsOf
    <3> QED BY <1>5, <2>1, <3>1, <3>2
  <2> QED BY <2>2, <2>3
<1>9. UploadsAreFresh'
  <2> SUFFICES ASSUME NEW u \in Uploads, up'[u].prev # None
               PROVE  up'[u].prev \in RowsOf(up[u].task, "source")' /\ ~row'[up'[u].prev].due
    BY DEF UploadsAreFresh
  <2>1. up'[u] = up[u]
    BY DEF UploadsStay, IdleUpload
  <2>2. up[u].prev \in RowsOf(up[u].task, "source") /\ ~row[up[u].prev].due
    BY <2>1 DEF OInv, UploadsAreFresh
  <2>3. up[u].prev \in Versions /\ up[u].prev # v
    BY <1>1, <2>2 DEF RowsOf
  <2> QED BY <1>4, <2>1, <2>2, <2>3 DEF Inserted, RowsOf, Alike
<1>10. DueInOrder'
  <2> SUFFICES ASSUME NEW x \in Versions, row'[x].due
               PROVE  /\ row'[x].supersededBy # None
                      /\ \A w \in Versions : SupersededBefore(w, x)' => row'[w].due
    BY DEF DueInOrder
  <2>1. /\ x # v /\ row[x].due /\ row'[x].supersededBy = row[x].supersededBy
        /\ row[x].supersededBy # None
    BY DEF Inserted, OInv, DueInOrder
  <2>2. row[x].supersededBy < v
    <3>1. row[x].supersededBy \in RowsOf(row[x].task, "source")
      BY <2>1 DEF OInv, SupersededByNewer
    <3> QED BY <1>2, <3>1 DEF RowsOf
  <2>3. ASSUME NEW w \in Versions, SupersededBefore(w, x)' PROVE row'[w].due
    <3>1. row'[w].supersededBy # None /\ row'[w].supersededBy < row[x].supersededBy
      BY <2>1, <2>3 DEF SupersededBefore
    <3>2. row'[w].supersededBy # v
      BY <2>1, <2>2, <3>1, RowNumbers
    <3>3. row'[w].supersededBy = row[w].supersededBy /\ row'[w].due = row[w].due
      BY <3>1, <3>2 DEF Inserted
    <3> QED BY <2>1, <3>1, <3>3 DEF OInv, DueInOrder, SupersededBefore
  <2> QED BY <2>1, <2>3
<1> QED BY <1>6, <1>7, <1>8, <1>9, <1>10 DEF OInv

\* A candidate stays one while it is live, unless the row that superseded it
\* is cleaned first.
LEMMA EligibleStays ==
    ASSUME NEW x \in Versions, StillEligible(x), x \in Live' => x \in Live,
           row'[x].task = row[x].task, row'[x].kind = row[x].kind,
           row[x].due => row'[x].due /\ row'[x].supersededBy = row[x].supersededBy,
           \A t \in Tasks : task[t] = "aged" => task'[t] = "aged",
           current[row[x].task][row[x].kind] # x
             => current'[row[x].task][row[x].kind] # x,
           x \in Superseded /\ x \in Live' => row[x].supersededBy \in Live' \/ x \in Outlived
    PROVE  StillEligible(x)'
<1> SUFFICES ASSUME x \in Live' PROVE x \in Outlived' \cup Superseded'
  BY DEF StillEligible
<1>1. CASE x \in Outlived
  BY <1>1 DEF Outlived
<1>2. CASE x \in Superseded /\ x \notin Outlived
  BY <1>2 DEF Superseded
<1> QED BY <1>1, <1>2 DEF StillEligible

\* The files are found again after a step that creates no row and lists
\* nothing, and that takes a candidate off the list only with its row.
LEMMA ListQuiet ==
    ASSUME LInv, TypeOK',
           \A v \in Versions : Ordered(v) /\ (row[v].due => row'[v].due),
           Live' \subseteq Live,
           current' = current,
           \A t \in Tasks : task[t] = "aged" => task'[t] = "aged",
           \A v \in Superseded \cap Live' : row[v].supersededBy \in Live' \/ v \in Outlived,
           condemned \subseteq condemned', objects \subseteq objects' \cup condemned',
           job'.todo \subseteq job.todo,
           \A d \in job.todo \ job'.todo : job'.todo = {} \/ d.v \notin Live'
    PROVE  ListStaysEligible' /\ LostFileIsStillACandidate'
<1>1. ASSUME NEW x \in Versions, StillEligible(x) PROVE StillEligible(x)'
  BY <1>1, EligibleStays DEF Ordered
<1>2. ASSUME NEW v \in Live', v \in Outlived PROVE v \in Outlived'
  BY <1>2 DEF Outlived, Ordered, Live
<1>3. LostFileIsStillACandidate'
  <2> SUFFICES ASSUME NEW v \in Live', v \notin objects', row'[v].kind = "source",
                      v \notin condemned'
               PROVE  StillEligible(v)'
    BY DEF LostFileIsStillACandidate, StillEligible
  <2>1. v \in Live \ objects /\ row[v].kind = "source" /\ v \in Versions
    BY DEF Ordered, Live
  <2> QED BY <1>1, <2>1 DEF LInv, LostFileIsStillACandidate, StillEligible
<1>4. ListStaysEligible'
  <2> SUFFICES ASSUME NEW c \in job'.todo
               PROVE  /\ \A k \in c.keys : k = c.v \/ row'[k].kind = "preview"
                      /\ row'[c.v].task \in Tasks
                      /\ StillEligible(c.v)'
                      /\ c.why = "closed" => task'[row'[c.v].task] = "aged"
                      /\ c.why = "superseded" =>
                           /\ row'[c.v].due /\ c.rank = row'[c.v].supersededBy
                           /\ \A v \in Live' : row'[v].supersededBy = c.v =>
                                \/ v \in Outlived'
                                \/ \E d \in job'.todo : d.why = "superseded" /\ d.v = v
    BY DEF ListStaysEligible
  <2>1. c \in job.todo /\ c.v \in Versions /\ c.keys \subseteq Versions
    BY DEF LInv, IInv, TypeOK, Candidate
  <2>2. /\ \A k \in c.keys : k = c.v \/ row[k].kind = "preview"
        /\ row[c.v].task \in Tasks
        /\ StillEligible(c.v)
        /\ c.why = "closed" => task[row[c.v].task] = "aged"
        /\ c.why = "superseded" => row[c.v].due /\ c.rank = row[c.v].supersededBy
    BY <2>1 DEF LInv, ListStaysEligible
  <2>3. ASSUME c.why = "superseded", NEW v \in Live', row'[v].supersededBy = c.v,
               v \notin Outlived'
        PROVE  \E d \in job'.todo : d.why = "superseded" /\ d.v = v
    <3>1. v \in Live /\ v \in Versions /\ row[v].supersededBy = c.v /\ v \notin Outlived
      BY <1>2, <2>3 DEF Ordered, Live
    <3>2. PICK d \in job.todo : d.why = "superseded" /\ d.v = v
      BY <2>1, <2>3, <3>1 DEF LInv, ListStaysEligible
    <3>3. d \in job'.todo
      BY <2>3, <3>2
    <3> QED BY <3>2, <3>3
  <2>4. \A k \in c.keys : k = c.v \/ row'[k].kind = "preview"
    BY <2>1, <2>2 DEF Ordered
  <2>5. StillEligible(c.v)'
    BY <1>1, <2>1, <2>2
  <2>6. /\ row'[c.v].task = row[c.v].task
        /\ row'[c.v].supersededBy = row[c.v].supersededBy
        /\ row[c.v].due => row'[c.v].due
    BY <2>1 DEF Ordered
  <2> QED BY <2>2, <2>3, <2>4, <2>5, <2>6
<1> QED BY <1>3, <1>4

\* A new row takes nothing off the list of candidates.
LEMMA ListInsert ==
    ASSUME LInv, TypeOK', NEW v \in Versions, NEW t \in Tasks, NEW k \in Kinds,
           Inserted(v, t, k), task' = task, job' = job, condemned' = condemned
    PROVE  ListStaysEligible' /\ LostFileIsStillACandidate'
<1>1. row[v].life = "none" /\ objects' = objects \cup {v}
  BY DEF Inserted, Insert, Free
<1>2. \A s \in Tasks \cup {NoTask}, j \in Kinds : s \in Tasks =>
         current'[s][j] \in {v, current[s][j]}
  BY DEF Inserted, Insert, LInv, IInv, TypeOK
<1>3. \A w \in Versions \ {v} :
         /\ Alike(row'[w], row[w])
         /\ row[w].due => row'[w].supersededBy = row[w].supersededBy /\ row'[w].due
  BY DEF Inserted
<1>4. \A w \in Versions \ {v} : w \in Live' <=> w \in Live
  BY <1>3 DEF Live, Alike
<1>5. ASSUME NEW x \in Versions, x # v, row[x].task \in Tasks, StillEligible(x)
      PROVE  StillEligible(x)'
  <2>1. x \in Superseded => row[x].supersededBy \in Live'
    <3>1. Live \subseteq Live'
      BY <1>1, <1>4 DEF Live
    <3> QED BY <3>1 DEF Superseded
  <2>2. row[x].kind \in Kinds
    BY RowNumbers DEF LInv, IInv
  <2> QED BY <1>2, <1>3, <1>4, <1>5, <2>1, <2>2, EligibleStays DEF Alike
<1>6. ASSUME NEW w \in Live', w # v, w \in Outlived PROVE w \in Outlived'
  BY <1>3, <1>6 DEF Outlived, Alike, Live
<1>7. LostFileIsStillACandidate'
  <2> SUFFICES ASSUME NEW w \in Live', w \notin objects', row'[w].kind = "source",
                      w \notin condemned
               PROVE  StillEligible(w)'
    BY DEF LostFileIsStillACandidate, StillEligible
  <2>1. w \in Versions \ {v} /\ w \in Live \ objects /\ row[w].kind = "source"
    BY <1>1, <1>3, <1>4 DEF Live, Alike
  <2>2. row[w].task \in Tasks
    BY <2>1 DEF LInv, IInv, RowsAreFiled, Live
  <2> QED BY <1>5, <2>1, <2>2 DEF LInv, LostFileIsStillACandidate, StillEligible
<1>8. ListStaysEligible'
  <2> SUFFICES ASSUME NEW c \in job.todo
               PROVE  /\ \A i \in c.keys : i = c.v \/ row'[i].kind = "preview"
                      /\ row'[c.v].task \in Tasks
                      /\ StillEligible(c.v)'
                      /\ c.why = "closed" => task[row'[c.v].task] = "aged"
                      /\ c.why = "superseded" =>
                           /\ row'[c.v].due /\ c.rank = row'[c.v].supersededBy
                           /\ \A w \in Live' : row'[w].supersededBy = c.v =>
                                \/ w \in Outlived'
                                \/ \E d \in job.todo : d.why = "superseded" /\ d.v = w
    BY DEF ListStaysEligible
  <2>1. c.v \in Versions /\ c.keys \subseteq Versions
    BY DEF LInv, IInv, TypeOK, Candidate
  <2>2. c.v # v /\ v \notin c.keys
    BY <1>1, <2>1 DEF LInv, IInv, ListIsSound, Spent
  <2>3. /\ \A i \in c.keys : i = c.v \/ row[i].kind = "preview"
        /\ row[c.v].task \in Tasks
        /\ StillEligible(c.v)
        /\ c.why = "closed" => task[row[c.v].task] = "aged"
        /\ c.why = "superseded" => row[c.v].due /\ c.rank = row[c.v].supersededBy
    BY DEF LInv, ListStaysEligible
  <2>4. ASSUME c.why = "superseded", NEW w \in Live', row'[w].supersededBy = c.v,
               w \notin Outlived'
        PROVE  \E d \in job.todo : d.why = "superseded" /\ d.v = w
    <3>1. w # v /\ w \in Versions
      BY <2>1, <2>4, RowNumbers DEF Inserted, Live, LInv, IInv
    <3>2. w \in Live /\ w \notin Outlived /\ row[w].supersededBy = c.v
      BY <1>4, <1>6, <2>2, <2>4, <3>1 DEF Inserted
    <3> QED BY <2>4, <3>2 DEF LInv, ListStaysEligible
  <2>5. \A i \in c.keys : i = c.v \/ row'[i].kind = "preview"
    BY <1>3, <2>1, <2>2, <2>3 DEF Alike
  <2>6. StillEligible(c.v)'
    BY <1>5, <2>1, <2>2, <2>3
  <2>7. /\ row'[c.v].task = row[c.v].task
        /\ row[c.v].due => row'[c.v].supersededBy = row[c.v].supersededBy /\ row'[c.v].due
    BY <1>3, <2>1, <2>2 DEF Alike
  <2> QED BY <2>3, <2>4, <2>5, <2>6, <2>7
<1> QED BY <1>7, <1>8

\* The queries list together what has been superseded in turn.
LEMMA ListStartRun ==
    ASSUME LInv, TypeOK', StartRun
    PROVE  ListStaysEligible' /\ LostFileIsStillACandidate'
<1>1. /\ row' = row /\ current' = current /\ objects' = objects /\ task' = task
      /\ condemned' = condemned
      /\ job'.todo = ClosedCandidates \cup SupersededCandidates
  BY DEF StartRun, storage
<1>2. Live' = Live /\ Outlived' = Outlived /\ Superseded' = Superseded
  BY <1>1 DEF Live, Outlived, Superseded
<1>3. LostFileIsStillACandidate'
  BY <1>1, <1>2 DEF LInv, LostFileIsStillACandidate
<1>4. \A v \in Outlived : v \in Versions /\ row[v].task \in Tasks
                          /\ task[row[v].task] = "aged"
  BY DEF Outlived, Live
<1>5. ASSUME NEW v \in Superseded
      PROVE  /\ v \in Versions /\ row[v].task \in Tasks /\ row[v].due
             /\ \A p \in DerivedFrom(v) : row[p].kind = "preview"
             /\ \A w \in Live : row[w].supersededBy = v => w \in Superseded
  <2>1. v \in Versions /\ v \in Live /\ row[v].due /\ row[v].supersededBy # None
    BY RowNumbers DEF Superseded, Live, LInv, IInv
  <2>2. row[v].task \in Tasks /\ v < row[v].supersededBy
    BY <2>1 DEF LInv, OInv, SupersededByNewer
  <2>3. \A p \in DerivedFrom(v) : row[p].kind = "preview"
    BY <2>1, RowNumbers DEF DerivedFrom, LInv, IInv, RowsAreFiled, Live
  <2>4. ASSUME NEW w \in Live, row[w].supersededBy = v PROVE w \in Superseded
    <3>1. w \in Versions /\ v # None
      BY <2>1, RowNumbers DEF Live, LInv, IInv
    <3>2. row[w].due
      BY <2>1, <2>2, <2>4, <3>1 DEF LInv, OInv, DueInOrder, SupersededBefore
    <3>3. /\ row[w].task \in Tasks /\ row[w].kind = "source" /\ w < v
          /\ v \in RowsOf(row[w].task, "source")
      BY <2>4, <3>1 DEF LInv, OInv, SupersededByNewer, RowsOf
    <3>4. v <= current[row[w].task]["source"] /\ current[row[w].task]["source"] # None
      BY <3>3 DEF LInv, OInv, CurrentIsNewest
    <3>5. current[row[w].task]["source"] \in Versions
      BY <3>3, <3>4 DEF LInv, IInv, TypeOK, Kinds
    <3>6. w # current[row[w].task]["source"]
      BY <2>1, <3>1, <3>3, <3>4, <3>5, RowNumbers DEF LInv, IInv
    <3> QED BY <2>1, <2>4, <3>2, <3>3, <3>6 DEF Superseded
  <2> QED BY <2>1, <2>2, <2>3, <2>4
<1>6. \A v \in Outlived \cup Superseded : StillEligible(v)
  BY DEF StillEligible
<1>7. ASSUME NEW v \in Superseded
      PROVE  \E d \in SupersededCandidates : d.why = "superseded" /\ d.v = v
  <2> DEFINE d == [v |-> v, keys |-> {v} \cup DerivedFrom(v), linked |-> row[v].linked,
                   why |-> "superseded", rank |-> row[v].supersededBy]
  <2>1. d \in SupersededCandidates
    BY DEF SupersededCandidates
  <2> QED BY <2>1
<1>8. ListStaysEligible'
  <2> SUFFICES ASSUME NEW c \in ClosedCandidates \cup SupersededCandidates
               PROVE  /\ \A k \in c.keys : k = c.v \/ row[k].kind = "preview"
                      /\ row[c.v].task \in Tasks
                      /\ StillEligible(c.v)
                      /\ c.why = "closed" => task[row[c.v].task] = "aged"
                      /\ c.why = "superseded" =>
                           /\ row[c.v].due /\ c.rank = row[c.v].supersededBy
                           /\ \A v \in Live : row[v].supersededBy = c.v =>
                                \E d \in job'.todo : d.why = "superseded" /\ d.v = v
    BY <1>1, <1>2 DEF ListStaysEligible, StillEligible
  <2>1. CASE c \in ClosedCandidates
    <3>1. PICK v \in Outlived :
            c = [v |-> v, keys |-> {v}, linked |-> row[v].linked, why |-> "closed",
                 rank |-> Cardinality({w \in Outlived : ClosedBefore(w, v)})]
      BY <2>1 DEF ClosedCandidates
    <3>2. c.v = v /\ c.keys = {v} /\ c.why = "closed"
      BY <3>1
    <3> QED BY <1>4, <1>6, <3>2
  <2>2. CASE c \in SupersededCandidates
    <3>1. PICK v \in Superseded :
            /\ c.v = v /\ c.keys = {v} \cup DerivedFrom(v) /\ c.why = "superseded"
            /\ c.rank = row[v].supersededBy
      BY <2>2 DEF SupersededCandidates
    <3> QED BY <1>1, <1>5, <1>6, <1>7, <3>1
  <2> QED BY <2>1, <2>2
<1> QED BY <1>3, <1>8

\* The run takes the object of a row that is a candidate.
LEMMA ListEraseObject ==
    ASSUME LInv, TypeOK', EraseObject
    PROVE  ListStaysEligible' /\ LostFileIsStillACandidate'
<1>1. PICK c \in job.todo : \E k \in c.keys :
          /\ objects' = objects \ {k}
          /\ job' = [job EXCEPT !.todo =
                       (job.todo \ {c}) \cup {[c EXCEPT !.keys = c.keys \ {k}]}]
  BY DEF EraseObject
<1>2. PICK k \in c.keys :
          /\ objects' = objects \ {k}
          /\ job' = [job EXCEPT !.todo =
                       (job.todo \ {c}) \cup {[c EXCEPT !.keys = c.keys \ {k}]}]
  BY <1>1
<1>3. c \in Candidate /\ k \in Versions
  BY DEF LInv, IInv, TypeOK, Candidate
<1>4. row' = row /\ current' = current /\ task' = task /\ condemned' = condemned
  BY DEF EraseObject
<1>5. Live' = Live /\ Outlived' = Outlived /\ Superseded' = Superseded
  BY <1>4 DEF Live, Outlived, Superseded
<1> DEFINE e == [c EXCEPT !.keys = c.keys \ {k}]
<1>6. /\ e.v = c.v /\ e.why = c.why /\ e.rank = c.rank /\ e.keys \subseteq c.keys
      /\ job'.todo = (job.todo \ {c}) \cup {e}
  BY <1>2, <1>3 DEF LInv, IInv, TypeOK, Candidate
<1> HIDE DEF e
<1>7. LostFileIsStillACandidate'
  <2> SUFFICES ASSUME NEW v \in Live, v \notin objects', row[v].kind = "source",
                      v \notin condemned
               PROVE  v \in Outlived \cup Superseded
    BY <1>4, <1>5 DEF LostFileIsStillACandidate
  <2>1. CASE v = k
    <3>1. v = c.v
      BY <2>1 DEF LInv, ListStaysEligible
    <3> QED BY <3>1 DEF LInv, ListStaysEligible, StillEligible
  <2>2. CASE v # k
    BY <1>2, <2>2 DEF LInv, LostFileIsStillACandidate
  <2> QED BY <2>1, <2>2
<1>8. ListStaysEligible'
  <2> SUFFICES ASSUME NEW x \in job'.todo
               PROVE  /\ \A i \in x.keys : i = x.v \/ row[i].kind = "preview"
                      /\ row[x.v].task \in Tasks
                      /\ StillEligible(x.v)
                      /\ x.why = "closed" => task[row[x.v].task] = "aged"
                      /\ x.why = "superseded" =>
                           /\ row[x.v].due /\ x.rank = row[x.v].supersededBy
                           /\ \A v \in Live : row[v].supersededBy = x.v =>
                                \/ v \in Outlived
                                \/ \E d \in job'.todo : d.why = "superseded" /\ d.v = v
    BY <1>4, <1>5 DEF ListStaysEligible, StillEligible
  <2>1. PICK y \in job.todo : x.v = y.v /\ x.why = y.why /\ x.rank = y.rank
                              /\ x.keys \subseteq y.keys
    BY <1>6
  <2>2. \A d \in job.todo : \E b \in job'.todo : b.why = d.why /\ b.v = d.v
    BY <1>6
  <2>3. /\ \A i \in y.keys : i = y.v \/ row[i].kind = "preview"
        /\ row[y.v].task \in Tasks
        /\ StillEligible(y.v)
        /\ y.why = "closed" => task[row[y.v].task] = "aged"
        /\ y.why = "superseded" =>
             /\ row[y.v].due /\ y.rank = row[y.v].supersededBy
             /\ \A v \in Live : row[v].supersededBy = y.v =>
                  \/ v \in Outlived
                  \/ \E d \in job.todo : d.why = "superseded" /\ d.v = v
    BY DEF LInv, ListStaysEligible
  <2> QED BY <2>1, <2>2, <2>3
<1> QED BY <1>7, <1>8

\* The row that superseded a listed one is marked after it.
LEMMA ListMarkCleaned ==
    ASSUME LInv, TypeOK', MarkCleaned
    PROVE  OInv' /\ ListStaysEligible' /\ LostFileIsStillACandidate'
<1>1. PICK c \in job.todo :
        /\ IsNext(c)
        /\ IF c.linked
           THEN /\ row' = [w \in Versions |-> IF w \in MarkedWith(c) THEN Cleaned(w) ELSE row[w]]
                /\ job' = [job EXCEPT !.todo = job.todo \ {c}]
           ELSE /\ job' = IdleJob
                /\ row' = row
  BY DEF MarkCleaned
<1>2. /\ task' = task /\ current' = current /\ objects' = objects
      /\ condemned' = condemned /\ up' = up
  BY DEF MarkCleaned
<1>3. CASE ~c.linked
  <2>1. row' = row /\ job'.todo = {}
    BY <1>1, <1>3 DEF IdleJob
  <2>2. \A v \in Versions : Ordered(v) /\ row'[v].due = row[v].due
    BY <2>1 DEF Ordered
  <2>3. Live' = Live /\ \A v \in Superseded : row[v].supersededBy \in Live'
    BY <2>1 DEF Live, Superseded
  <2>4. OInv'
    BY <1>2, <2>2, OrderQuiet DEF LInv, UploadsStay
  <2> QED BY <1>2, <2>1, <2>2, <2>3, <2>4, ListQuiet
<1>4. CASE c.linked
  <2>1. \A w \in Versions : row'[w] = IF w \in MarkedWith(c) THEN Cleaned(w) ELSE row[w]
    BY <1>1, <1>4
  <2>2. ASSUME NEW w \in Versions
        PROVE  /\ Cleaned(w).life = "cleaned"
               /\ Cleaned(w).task = row[w].task /\ Cleaned(w).kind = row[w].kind
               /\ Cleaned(w).supersededBy = row[w].supersededBy
               /\ Cleaned(w).due = row[w].due
    <3>1. row[w] \in Row
      BY DEF LInv, IInv, TypeOK
    <3> QED BY <3>1 DEF Cleaned, Row
  <2>3. \A w \in Versions : Ordered(w) /\ row'[w].due = row[w].due
    BY <2>1, <2>2 DEF Ordered, MarkedWith, Live
  <2>4. Live' = Live \ MarkedWith(c)
    BY <2>1, <2>2 DEF Live
  <2>5. c.v \in Versions /\ job'.todo = job.todo \ {c} /\ c.v \notin Live'
    BY <1>1, <1>4, <2>4 DEF LInv, IInv, TypeOK, Candidate, MarkedWith
  <2>6. ASSUME NEW v \in Superseded \cap Live', row[v].supersededBy \notin Live'
        PROVE  v \in Outlived
    <3> DEFINE s == row[v].supersededBy
    <3>1. v \in Versions /\ v \in Live /\ s \in Live /\ s \in Versions /\ s # None
      BY RowNumbers DEF Superseded, Live, LInv, IInv
    <3>2. row[v].task \in Tasks /\ s \in RowsOf(row[v].task, "source")
      BY <3>1 DEF LInv, OInv, SupersededByNewer
    <3>3. s \in MarkedWith(c)
      BY <2>4, <2>6, <3>1
    <3>4. row[s].source = None /\ row[s].task = row[v].task
      BY <3>2 DEF LInv, IInv, RowsAreFiled, RowsOf
    <3>5. s = c.v
      BY <2>5, <3>3, <3>4, RowNumbers DEF MarkedWith, LInv, IInv
    <3>6. CASE c.why = "closed"
      BY <3>1, <3>2, <3>4, <3>5, <3>6 DEF LInv, ListStaysEligible, Outlived
    <3>7. CASE c.why = "superseded"
      <4>1. row[c.v].due /\ c.rank = row[c.v].supersededBy
        BY <3>7 DEF LInv, ListStaysEligible
      <4>2. c.v < c.rank
        BY <2>5, <4>1 DEF LInv, OInv, DueInOrder, SupersededByNewer
      <4>3. ASSUME NEW d \in job.todo, d.why = "superseded", d.v = v PROVE FALSE
        <5>1. d.rank = c.v
          BY <3>5, <4>3 DEF LInv, ListStaysEligible
        <5>2. c.rank <= d.rank
          BY <1>1, <3>7, <4>3 DEF IsNext
        <5>3. c.rank \in Nat /\ c.v \in Nat
          BY <2>5, <4>1, RowNumbers DEF LInv, IInv, Versions, None
        <5> QED BY <4>2, <5>1, <5>2, <5>3
      <4> QED BY <3>1, <3>5, <3>7, <4>3 DEF LInv, ListStaysEligible
    <3>8. c.why \in {"closed", "superseded"}
      BY DEF LInv, IInv, TypeOK, Candidate, Reasons
    <3> QED BY <3>6, <3>7, <3>8
  <2>7. OInv'
    BY <1>2, <2>3, OrderQuiet DEF LInv, UploadsStay
  <2>8. \A d \in job.todo \ job'.todo : d.v \notin Live'
    BY <2>5
  <2> QED BY <1>2, <2>3, <2>4, <2>5, <2>6, <2>7, <2>8, ListQuiet
<1> QED BY <1>3, <1>4

\* A delete takes all rows of an asset or none.
LEMMA ListCommitDelete ==
    ASSUME LInv, TypeOK', CommitDelete
    PROVE  OInv' /\ ListStaysEligible' /\ LostFileIsStillACandidate'
<1> DEFINE Gone == {v \in Versions : CanDelete(del.task, del.kind) /\ v \in RowsOf(del.task, del.kind)}
<1>1. /\ task' = task /\ current' = current /\ objects' = objects
      /\ condemned' = condemned /\ up' = up /\ job' = job
  BY DEF CommitDelete
<1>2. \A v \in Versions :
        row'[v] = IF v \in Gone THEN [row[v] EXCEPT !.life = "deleted"] ELSE row[v]
  BY DEF CommitDelete
<1>3. \A v \in Versions : row[v] \in Row
  BY DEF LInv, IInv, TypeOK
<1>4. \A v \in Versions : Ordered(v) /\ row'[v].due = row[v].due
  BY <1>2, <1>3 DEF Ordered, Row, RowsOf
<1>5. Live' = Live \ Gone
  BY <1>2, <1>3 DEF Live, Row
<1>6. ASSUME NEW v \in Superseded \cap Live' PROVE row[v].supersededBy \in Live'
  <2>1. /\ v \in Versions /\ row[v].supersededBy \in Live /\ row[v].supersededBy # None
        /\ row[v].life = "live"
    BY RowNumbers DEF Superseded, Live, LInv, IInv
  <2>2. /\ v \in RowsOf(row[v].task, "source")
        /\ row[v].supersededBy \in RowsOf(row[v].task, "source")
    BY <2>1 DEF LInv, OInv, SupersededByNewer
  <2>3. row[v].supersededBy \in Gone => v \in Gone
    BY <2>1, <2>2 DEF RowsOf
  <2> QED BY <1>5, <1>6, <2>1, <2>3
<1>7. OInv'
  BY <1>1, <1>4, OrderQuiet DEF LInv, UploadsStay
<1> QED BY <1>1, <1>4, <1>5, <1>6, <1>7, ListQuiet

\* An upload that starts means to supersede a row that is not due.
LEMMA OrderBeginUpload ==
    ASSUME TypeOK, OInv, NEW u \in Uploads, NEW t \in Tasks, BeginUpload(u, t),
           current[t]["source"] # None => current[t]["source"] \in RowsOf(t, "source")
    PROVE  OInv'
<1>1. /\ row' = row /\ current' = current
      /\ up' = [up EXCEPT ![u] = [task |-> t, prev |-> current[t]["source"]]]
  BY DEF BeginUpload, storage
<1> DEFINE c == current[t]["source"]
<1>2. c # None => ~row[c].due
  <2> SUFFICES ASSUME c # None, row[c].due PROVE FALSE
    OBVIOUS
  <2>1. c \in RowsOf(t, "source") /\ c \in Versions /\ row[c].task = t
    BY DEF RowsOf
  <2>2. row[c].supersededBy \in RowsOf(t, "source") /\ c < row[c].supersededBy
    BY <2>1 DEF OInv, DueInOrder, SupersededByNewer
  <2>3. row[c].supersededBy <= c /\ row[c].supersededBy \in Versions
    BY <2>2 DEF OInv, CurrentIsNewest, RowsOf
  <2> QED BY <2>1, <2>2, <2>3, RowNumbers
<1>3. UploadsAreFresh'
  <2> SUFFICES ASSUME NEW x \in Uploads, up'[x].prev # None
               PROVE  up'[x].prev \in RowsOf(up'[x].task, "source") /\ ~row[up'[x].prev].due
    BY <1>1 DEF UploadsAreFresh, RowsOf
  <2>1. CASE x = u
    BY <1>1, <1>2, <2>1 DEF TypeOK
  <2>2. CASE x # u
    BY <1>1, <2>2 DEF OInv, UploadsAreFresh, TypeOK
  <2> QED BY <2>1, <2>2
<1> QED BY <1>1, <1>3 DEF OInv, RowsAreNumbered, CurrentIsNewest, SupersededByNewer,
                          DueInOrder, SupersededBefore, RowsOf

\* The next superseded row falls due.
LEMMA OrderExpire ==
    ASSUME TypeOK, OInv, Expire
    PROVE  /\ OInv'
           /\ \A w \in Versions : /\ Ordered(w) /\ row'[w].life = row[w].life
                                  /\ row[w].due => row'[w].due
<1>1. PICK v \in Versions :
        /\ row[v].supersededBy # None
        /\ \A w \in Versions : SupersededBefore(w, v) => row[w].due
        /\ row' = [row EXCEPT ![v] = [row[v] EXCEPT !.due = TRUE]]
  BY DEF Expire
<1>2. current' = current /\ up' = up /\ \A u \in Uploads : up[u] = IdleUpload
  BY DEF Expire
<1>3. \A w \in Versions : /\ Ordered(w) /\ row'[w].life = row[w].life
                          /\ row'[w].due <=> w = v \/ row[w].due
  <2>1. \A w \in Versions :
          row'[w] = IF w = v THEN [row[v] EXCEPT !.due = TRUE] ELSE row[w]
    BY <1>1 DEF TypeOK
  <2>2. row[v] \in Row
    BY DEF TypeOK
  <2> QED BY <2>1, <2>2 DEF Row, Ordered
<1>4. UploadsAreFresh'
  BY <1>2 DEF UploadsAreFresh, IdleUpload
<1>5. DueInOrder'
  <2> SUFFICES ASSUME NEW x \in Versions, row'[x].due
               PROVE  /\ row'[x].supersededBy # None
                      /\ \A w \in Versions : SupersededBefore(w, x)' => row'[w].due
    BY DEF DueInOrder
  <2>1. row[x].supersededBy # None
        /\ \A w \in Versions : SupersededBefore(w, x) => row[w].due
    BY <1>1, <1>3 DEF OInv, DueInOrder
  <2> QED BY <1>3, <2>1 DEF SupersededBefore, Ordered
<1>6. RowsAreNumbered'
  BY <1>3 DEF OInv, RowsAreNumbered
<1>7. CurrentIsNewest'
  BY <1>2, <1>3 DEF OInv, CurrentIsNewest, RowsOf, Ordered
<1>8. SupersededByNewer'
  BY <1>3 DEF OInv, SupersededByNewer, RowsOf, Ordered
<1> QED BY <1>3, <1>4, <1>5, <1>6, <1>7, <1>8 DEF OInv

\* Every step keeps the invariant.
LEMMA LInvStep ==
    ASSUME LInv, [Next]_vars
    PROVE  LInv'
<1> USE DEF storage, erasers
<1>0. IInv' /\ TypeOK /\ TypeOK'
  BY IInvStep DEF LInv, IInv
<1>a. ASSUME NEW v \in Versions PROVE row[v] \in Row
  BY <1>0 DEF TypeOK
<1>b. ASSUME \A v \in Versions : /\ Ordered(v) /\ row'[v].life = row[v].life
                                 /\ row[v].due => row'[v].due,
             OInv', current' = current,
             \A t \in Tasks : task[t] = "aged" => task'[t] = "aged",
             condemned \subseteq condemned', objects \subseteq objects' \cup condemned',
             job' \in {job, IdleJob}
      PROVE  LInv'
  <2>1. Live' = Live
    BY <1>b DEF Live
  <2>2. \A v \in Superseded : row[v].supersededBy \in Live
    BY DEF Superseded
  <2>3. job'.todo = job.todo \/ job'.todo = {}
    BY <1>b DEF IdleJob
  <2>4. ListStaysEligible' /\ LostFileIsStillACandidate'
    BY <1>0, <1>b, <2>1, <2>2, <2>3, ListQuiet
  <2> QED BY <1>0, <1>b, <2>4 DEF LInv
<1>c. ASSUME \A v \in Versions : \E l, b \in BOOLEAN :
               \/ row'[v] = row[v] \/ row'[v] = [row[v] EXCEPT !.linked = l]
               \/ row'[v] = [row[v] EXCEPT !.archived = b],
             UploadsStay, current' = current,
             \A t \in Tasks : task[t] = "aged" => task'[t] = "aged",
             condemned \subseteq condemned', objects \subseteq objects' \cup condemned',
             job' \in {job, IdleJob}
      PROVE  LInv'
  <2>1. \A v \in Versions : /\ Ordered(v) /\ row'[v].life = row[v].life
                            /\ row'[v].due = row[v].due
    BY <1>a, <1>c DEF Ordered, Row
  <2>2. OInv'
    BY <1>c, <2>1, OrderQuiet DEF LInv
  <2> QED BY <1>b, <1>c, <2>1, <2>2
<1>1. ASSUME NEW u \in Uploads, NEW t \in Tasks, BeginUpload(u, t) PROVE LInv'
  <2>1. OInv'
    BY <1>0, <1>1, OrderBeginUpload DEF LInv, IInv, CurrentIsOwn, Kinds
  <2>2. /\ row' = row /\ current' = current /\ task' = task /\ objects' = objects
        /\ condemned' = condemned /\ job' = job
    BY <1>1 DEF BeginUpload
  <2> QED BY <1>b, <2>1, <2>2 DEF Ordered
<1>2. ASSUME NEW u \in Uploads, CommitUpload(u) PROVE LInv'
  <2>1. up[u].task \in Tasks /\ "source" \in Kinds
    BY <1>0, <1>2, UploadedRows DEF Kinds
  <2>2. PICK v \in Versions :
                /\ Insert(v, up[u].task, "source")
                /\ row'[v] = NewRow(up[u].task, "source", None)
                /\ \A w \in Versions \ {v} :
                     row'[w] = IF w = up[u].prev /\ w \in Live
                               THEN SupersededRow(w, v) ELSE row[w]
    BY <1>0, <1>2, UploadedRows
  <2>3. /\ row'[v].task = up[u].task /\ row'[v].kind = "source" /\ row'[v].life = "live"
        /\ row'[v].supersededBy = None /\ row'[v].due = FALSE
    <3>1. NewRow(up[u].task, "source", None).due = FALSE
      BY DEF NewRow, NoRow
    <3>2. row'[v].due = FALSE
      BY <2>2, <3>1, Zenon
    <3> QED BY <2>1, <2>2, <3>2, NewRowTyped
  <2>4. ASSUME NEW w \in Versions
        PROVE  /\ Alike(SupersededRow(w, v), row[w])
               /\ SupersededRow(w, v).supersededBy = v
               /\ SupersededRow(w, v).due = FALSE
    BY <1>a DEF SupersededRow, Alike, Row
  <2>5. ASSUME NEW w \in Versions, w = up[u].prev
        PROVE  w \in RowsOf(up[u].task, "source") /\ row[w].due = FALSE
    BY <1>0, <2>5, RowNumbers DEF LInv, OInv, UploadsAreFresh
  <2>6. \A w \in Versions \ {v} :
         /\ Alike(row'[w], row[w])
         /\ \/ row'[w].supersededBy = row[w].supersededBy /\ row'[w].due = row[w].due
            \/ /\ w \in RowsOf(up[u].task, "source") /\ row[w].due = FALSE
               /\ row'[w].supersededBy = v /\ row'[w].due = FALSE
    BY <2>2, <2>4, <2>5 DEF Alike
  <2>7. Inserted(v, up[u].task, "source")
    BY <2>2, <2>3, <2>6 DEF Inserted
  <2>8. /\ UploadsStay /\ task' = task /\ job' = job /\ condemned' = condemned
    BY <1>0, <1>2 DEF CommitUpload, UploadsStay, TypeOK
  <2>9. OInv'
    BY <1>0, <2>1, <2>7, <2>8, OrderInsert DEF LInv
  <2>10. ListStaysEligible' /\ LostFileIsStillACandidate'
    BY <1>0, <2>1, <2>7, <2>8, ListInsert
  <2> QED BY <1>0, <2>9, <2>10 DEF LInv
<1>3. ASSUME NEW u \in Uploads, UploadFails(u) PROVE LInv'
  <2>1. UploadsStay
    BY <1>0, <1>3 DEF UploadFails, UploadsStay, TypeOK
  <2> QED BY <1>3, <1>c, <2>1 DEF UploadFails
<1>4. ASSUME NEW t \in Tasks, BeginRender(t) \/ RenderFails(t) PROVE LInv'
  BY <1>4, <1>c DEF BeginRender, RenderFails, UploadsStay
<1>5. ASSUME NEW t \in Tasks, CommitRender(t) PROVE LInv'
  <2>1. rendering[t] \in Versions /\ "preview" \in Kinds
    BY <1>0, <1>5, RenderedRows DEF Kinds
  <2>2. PICK v \in Versions :
                /\ Insert(v, t, "preview")
                /\ row'[v] = NewRow(t, "preview", rendering[t])
                /\ \A w \in Versions \ {v} : row'[w] = row[w]
    BY <1>0, <1>5, RenderedRows
  <2>3. /\ row'[v].task = t /\ row'[v].kind = "preview" /\ row'[v].life = "live"
        /\ row'[v].supersededBy = None /\ row'[v].due = FALSE
    <3>1. NewRow(t, "preview", rendering[t]).due = FALSE
      BY DEF NewRow, NoRow
    <3>2. row'[v].due = FALSE
      BY <2>2, <3>1, Zenon
    <3> QED BY <2>1, <2>2, <3>2, NewRowTyped
  <2>4. Inserted(v, t, "preview")
    BY <2>2, <2>3 DEF Inserted, Alike
  <2>5. /\ UploadsStay /\ task' = task /\ job' = job /\ condemned' = condemned
    BY <1>5 DEF CommitRender, UploadsStay
  <2>6. OInv'
    BY <1>0, <2>1, <2>4, <2>5, OrderInsert DEF LInv
  <2>7. ListStaysEligible' /\ LostFileIsStillACandidate'
    BY <1>0, <2>1, <2>4, <2>5, ListInsert
  <2> QED BY <1>0, <2>6, <2>7 DEF LInv
<1>6. CASE Backfill
  <2>1. \A v \in Versions : row'[v] = [row[v] EXCEPT !.linked = row[v].life # "none"]
    BY <1>6 DEF Backfill
  <2>2. \A v \in Versions : \E l \in BOOLEAN : row'[v] = [row[v] EXCEPT !.linked = l]
    BY <2>1
  <2> QED BY <1>6, <1>c, <2>2 DEF Backfill, UploadsStay
<1>7. CASE Expire
  BY <1>0, <1>7, <1>b, OrderExpire DEF Expire, LInv
<1>8. ASSUME NEW t \in Tasks, CloseTask(t) \/ Age(t) PROVE LInv'
  <2>1. \A s \in Tasks : task[s] = "aged" => task'[s] = "aged"
    BY <1>0, <1>8 DEF CloseTask, Age, TypeOK
  <2> QED BY <1>8, <1>c, <2>1 DEF CloseTask, Age, UploadsStay
<1>9. CASE StartRun
  <2>1. ListStaysEligible' /\ LostFileIsStillACandidate'
    BY <1>0, <1>9, ListStartRun
  <2>2. OInv'
    BY <1>9, OrderQuiet DEF LInv, StartRun, UploadsStay, Ordered
  <2> QED BY <1>0, <2>1, <2>2 DEF LInv
<1>10. CASE EraseObject
  <2>1. ListStaysEligible' /\ LostFileIsStillACandidate'
    BY <1>0, <1>10, ListEraseObject
  <2>2. OInv'
    BY <1>10, OrderQuiet DEF LInv, EraseObject, UploadsStay, Ordered
  <2> QED BY <1>0, <2>1, <2>2 DEF LInv
<1>11. CASE MarkCleaned
  BY <1>0, <1>11, ListMarkCleaned DEF LInv
<1>12. CASE FinishRun \/ RunFails
  BY <1>12, <1>c DEF FinishRun, RunFails, UploadsStay
<1>13. ASSUME NEW t \in Tasks, NEW k \in Kinds, Archive(t, k) \/ Restore(t, k) PROVE LInv'
  <2>1. \A v \in Versions : \E b \in BOOLEAN :
          row'[v] = row[v] \/ row'[v] = [row[v] EXCEPT !.archived = b]
    BY <1>13 DEF Archive, Restore
  <2> QED BY <1>13, <1>c, <2>1 DEF Archive, Restore, UploadsStay
<1>14. ASSUME NEW t \in Tasks, NEW k \in Kinds, BeginDelete(t, k) PROVE LInv'
  BY <1>14, <1>c DEF BeginDelete, UploadsStay
<1>15. CASE DeleteObject
  <2>1. condemned \subseteq condemned' /\ objects \subseteq objects' \cup condemned'
    BY <1>15 DEF DeleteObject
  <2> QED BY <1>15, <1>c, <2>1 DEF DeleteObject, UploadsStay
<1>16. CASE CommitDelete
  BY <1>0, <1>16, ListCommitDelete DEF LInv
<1>17. CASE DeleteFails
  BY <1>17, <1>c DEF DeleteFails, UploadsStay
<1>18. CASE UNCHANGED vars
  BY <1>18, <1>c DEF vars, UploadsStay
<1> QED
  BY <1>1, <1>2, <1>3, <1>4, <1>5, <1>6, <1>7, <1>8, <1>9, <1>10, <1>11, <1>12, <1>13,
     <1>14, <1>15, <1>16, <1>17, <1>18 DEF Next, JobStep

LEMMA LInvInit ==
    ASSUME Init
    PROVE  LInv
<1>1. \A v \in Versions : /\ row[v].life = "none" /\ row[v].supersededBy = None
                          /\ row[v].due = FALSE
  BY DEF Init, NoRow
<1>2. OInv
  BY <1>1 DEF Init, OInv, RowsAreNumbered, CurrentIsNewest, SupersededByNewer,
              UploadsAreFresh, DueInOrder, RowsOf, IdleUpload
<1>3. ListStaysEligible /\ LostFileIsStillACandidate
  BY <1>1 DEF Init, IdleJob, ListStaysEligible, LostFileIsStillACandidate, Live
<1> QED BY <1>2, <1>3, IInvInit DEF LInv

\* A file that was removed while its row stayed live is still on the list of
\* some later run, or a delete request took it (cleanup_job.go:76,
\* task_asset_flow.go:185).
THEOREM LostFileIsStillACandidateHolds == Spec => []LostFileIsStillACandidate
<1>1. Init => LInv
  BY LInvInit
<1>2. LInv /\ [Next]_vars => LInv'
  BY LInvStep
<1>3. LInv => LostFileIsStillACandidate
  BY DEF LInv
<1> QED BY <1>1, <1>2, <1>3, PTL DEF Spec

=============================================================================

-------------------------- MODULE ProductSyncProofs --------------------------
(***************************************************************************)
(* Proofs about ProductSync for any set of rows, pictures and operations.  *)
(*                                                                         *)
(* The three invariants are not inductive by themselves: a row is marked   *)
(* from what an operation has read and been answered, so the induction     *)
(* needs what every operation under way knows of the ERP (PassOK).  That   *)
(* knowledge survives the steps of others because no push takes a SKU away *)
(* or replaces a picture by none, and because a picture that is replaced   *)
(* under an operation sets overtaken (Mild).  What was taken is spoken of  *)
(* as Held and Shows only, so the proofs are the same with the fallback on *)
(* and off.                                                                *)
(***************************************************************************)
EXTENDS ProductSync, TLAPS

\* What an operation under way knows about the ERP, the rows and overtaken.
PassOK(p, e, w, o) ==
    /\ HeldBy(p) \subseteq DOMAIN p.snap
    /\ \A r \in HeldBy(p) :
         /\ p.snap[r].image = "synced" => Shows(e[r], Pics)
         /\ ~o[r] => p.snap[r].pic = w[r].pic
         /\ ~o[r] /\ p.snap[r].image = "synced" => Shows(e[r], {w[r].pic})
    /\ p.at # NoRecord =>
         /\ p.step = "wholeImage" => Held(e[p.at])
         /\ p.step \in {"base", "wholeBase"} /\ p.result = "ok" => Held(e[p.at])
         /\ p.step \in {"image", "wholeImage"} /\ p.result = "ok" =>
              /\ Shows(e[p.at], Pics)
              /\ ~o[p.at] => Shows(e[p.at], {w[p.at].pic})

\* What holds of a row.
RowOK(r) ==
    /\ row[r].base = "synced" => Held(erp[r])
    /\ row[r].image = "synced" => Shows(erp[r], Pics)
    /\ row[r].image = "synced" /\ ~overtaken[r] => Shows(erp[r], {row[r].pic})
    /\ filing[r] = "filed" => Held(erp[r])

Types ==
    /\ row \in [Records -> Row]
    /\ filing \in [Records -> Filing]
    /\ detail \in Filing
    /\ edited \in [Records -> {"same", "newer", "older"}]
    /\ erp \in [Records -> Product]
    /\ overtaken \in [Records -> BOOLEAN]
    /\ pass \in [Actors -> Pass]

IInv ==
    /\ Types
    /\ \A r \in Records : RowOK(r)
    /\ detail = "filed" => \A r \in Records : Held(erp[r])
    /\ \A a \in Actors : PassOK(pass[a], erp, row, overtaken)

\* A step that keeps what a pass p knows of the row r.
Mild(p, r) ==
    /\ Held(erp[r]) => Held(erp'[r])
    /\ Shows(erp[r], Pics) => Shows(erp'[r], Pics)
    /\ ~overtaken'[r] =>
         /\ ~overtaken[r]
         /\ row'[r].pic = row[r].pic
         /\ Shows(erp[r], {row[r].pic}) => Shows(erp'[r], {row[r].pic})

\* A pass keeps its knowledge through steps that are mild on its rows.
LEMMA MildKeeps ==
    ASSUME NEW p, PassOK(p, erp, row, overtaken),
           \A r \in HeldBy(p) : Mild(p, r)
    PROVE  PassOK(p, erp', row', overtaken')
<1>1. p.at # NoRecord => p.at \in HeldBy(p)
  BY DEF HeldBy
<1> QED
  BY <1>1 DEF PassOK, Mild

\* The idle record is a pass that holds nothing.
LEMMA IdleOK ==
    ASSUME NEW e, NEW w, NEW o
    PROVE  Idle \in Pass /\ HeldBy(Idle) = {} /\ PassOK(Idle, e, w, o)
<1>1. [r \in {} |-> 0] \in [{} -> Snapshot]
  OBVIOUS
<1>2. [r \in {} |-> 0] \in Snapshots
  BY <1>1 DEF Snapshots
<1>3. Idle \in Pass /\ HeldBy(Idle) = {}
  BY <1>2 DEF Idle, Pass, Steps, Results, HeldBy
<1> QED
  BY <1>3 DEF PassOK, Idle

\* UpdateImage keeps the base status and never makes a row synced by itself.
LEMMA UpdateImageFacts ==
    ASSUME NEW old \in Row, NEW pic \in MaybePic, NEW onClose \in BOOLEAN,
           NEW manual \in BOOLEAN, NEW status \in Status
    PROVE  LET new == UpdateImage(old, pic, onClose, manual, status)
           IN  /\ new \in Row /\ new.pic = pic /\ new.base = old.base
               /\ new.image = "synced" => status = "synced"
<1> DEFINE image == IF status = "pending_sync" /\ old.erp \in InFlight THEN old.erp ELSE status
           overall == IF old.erp = "synced" THEN "pending_sync" ELSE old.erp
<1>1. image \in Status /\ (image = "synced" => status = "synced")
  BY DEF Row, InFlight
<1>2. overall \in Status
  BY DEF Row, Status
<1>3. UpdateImage(old, pic, onClose, manual, status) =
        [old EXCEPT !.pic = pic, !.onClose = onClose, !.manual = manual,
                    !.image = image, !.erp = overall]
  BY DEF UpdateImage
<1> QED
  BY <1>1, <1>2, <1>3 DEF Row

\* A claim marks nothing as synced and leaves the picture alone.
LEMMA ClaimedRowFacts ==
    ASSUME NEW old \in Row
    PROVE  LET new == ClaimedRow(old)
           IN  /\ new \in Row /\ new.pic = old.pic
               /\ new.base = "synced" => old.base = "synced"
               /\ new.image = "synced" => old.image = "synced"
<1>1. \A s \in Status : /\ ClaimedPart(old, s) \in Status
                        /\ ClaimedPart(old, s) = "synced" => s = "synced"
  BY DEF ClaimedPart, Status, InFlight
<1> QED
  BY <1>1 DEF ClaimedRow, Row, Status, InFlight

\* A refresh makes a base status synced only for a filed task.
LEMMA RefreshedFacts ==
    ASSUME Types, NEW r \in Records
    PROVE  LET new == Refreshed(r)
           IN  /\ new \in Row /\ new.pic = row[r].pic /\ new.image = row[r].image
               /\ new.base = "synced" => row[r].base = "synced" \/ filing[r] = "filed"
<1> DEFINE v == Projected(filing[r])
<1>1. v = "synced" <=> filing[r] = "filed"
  BY DEF Projected
<1>2. \A s \in Status : \A e :
        /\ RefreshedPart(s, v, e) \in Status
        /\ RefreshedPart(s, v, e) = "synced" => s = "synced" \/ v = "synced"
  BY DEF RefreshedPart, Status, InFlight
<1>3. row[r] \in Row
  BY DEF Types
<1>4. RefreshedPart(row[r].base, v, edited[r]) = "synced" => row[r].base = "synced" \/ filing[r] = "filed"
  BY <1>1, <1>2, <1>3 DEF Row
<1>5. /\ RefreshedPart(row[r].erp, v, edited[r]) \in Status
      /\ RefreshedPart(row[r].base, v, edited[r]) \in Status
  BY <1>2, <1>3 DEF Row
<1> HIDE DEF v
<1>6. \A off \in BOOLEAN :
        LET new == [row[r] EXCEPT !.erp = RefreshedPart(row[r].erp, v, edited[r]),
                                  !.base = RefreshedPart(row[r].base, v, edited[r]),
                                  !.cooling = IF off THEN FALSE ELSE row[r].cooling]
        IN  /\ new \in Row /\ new.pic = row[r].pic /\ new.image = row[r].image
            /\ new.base = RefreshedPart(row[r].base, v, edited[r])
  BY <1>3, <1>5 DEF Row
<1>7. (v = "pending_sync" /\ edited[r] = "newer" /\ "failed" \in {row[r].erp, row[r].base}) \in BOOLEAN
  OBVIOUS
<1> QED
  BY <1>4, <1>6, <1>7 DEF Refreshed, v

\* Queueing marks nothing as synced.
LEMMA QueuedBaseFacts ==
    ASSUME NEW old \in Row
    PROVE  LET new == QueuedBase(old)
           IN  /\ new \in Row /\ new.pic = old.pic /\ new.image = old.image
               /\ new.base = "synced" => old.base = "synced"
<1> DEFINE ready == old.base \in {"pending_sync", "failed"} /\ old.erp \notin InFlight
<1>1. CASE ready
  <2>1. QueuedBase(old) = [old EXCEPT !.erp = "queued", !.base = "queued",
                                      !.old = FALSE, !.cooling = TRUE]
    BY <1>1 DEF QueuedBase
  <2> QED
    BY <2>1 DEF Row, Status, InFlight
<1>2. CASE ~ready
  BY <1>2 DEF QueuedBase
<1> QED
  BY <1>1, <1>2

-----------------------------------------------------------------------------
(* Steps that leave the operations under way alone.                        *)

\* A step keeps the invariant when the rows it writes keep their pictures,
\* gain a synced status only from a filed task, and nothing else changes.
LEMMA RowStep ==
    ASSUME IInv, UNCHANGED <<filing, detail, erp, pass, overtaken>>,
           row' \in [Records -> Row],
           edited' \in [Records -> {"same", "newer", "older"}],
           \A r \in Records :
             /\ row'[r].pic = row[r].pic
             /\ row'[r].image = "synced" => row[r].image = "synced"
             /\ row'[r].base = "synced" => row[r].base = "synced" \/ filing[r] = "filed"
    PROVE  IInv'
<1>1. Types'
  BY DEF IInv, Types
<1>2. \A r \in Records : RowOK(r)'
  BY DEF IInv, RowOK
<1>3. (detail = "filed" => \A r \in Records : Held(erp[r]))'
  BY DEF IInv
<1>4. ASSUME NEW a \in Actors
      PROVE  PassOK(pass[a], erp, row, overtaken)'
  <2>1. HeldBy(pass[a]) \subseteq Records
    BY DEF HeldBy, IInv, Types, Pass
  <2>2. \A r \in HeldBy(pass[a]) : Mild(pass[a], r)
    BY <2>1 DEF Mild
  <2> QED
    BY <2>2, MildKeeps DEF IInv
<1> QED
  BY <1>1, <1>2, <1>3, <1>4 DEF IInv

\* A row write keeps the edited column in its type.
LEMMA OlderType ==
    ASSUME Types, NEW r \in Records
    PROVE  [edited EXCEPT ![r] = Older(r)] \in [Records -> {"same", "newer", "older"}]
BY DEF Types, Older

\* RefreshReadModel copies a synced status only from a filed task.
LEMMA RefreshReadModelStep ==
    ASSUME IInv, RefreshReadModel
    PROVE  IInv'
<1>1. Types
  BY DEF IInv
<1> QED
  BY <1>1, RefreshedFacts, RowStep DEF RefreshReadModel

\* QueuePendingBaseSyncForTask queues, and marks nothing as synced.
LEMMA QueuePendingStep ==
    ASSUME IInv, QueuePendingBaseSyncForTask
    PROVE  IInv'
<1>1. Types
  BY DEF IInv
<1>2. ASSUME NEW r \in Records
      PROVE  LET new == QueuedBase(Refreshed(r))
             IN  /\ new \in Row /\ new.pic = row[r].pic /\ new.image = row[r].image
                 /\ new.base = "synced" => row[r].base = "synced" \/ filing[r] = "filed"
  BY <1>1, RefreshedFacts, QueuedBaseFacts
<1> QED
  BY <1>2, RowStep DEF QueuePendingBaseSyncForTask

\* A request writes queued or cooling_down.
LEMMA RequestSyncStep ==
    ASSUME IInv, NEW r \in Records, NEW scope \in {"all", "base", "image"},
           NEW force \in BOOLEAN, RequestSync(r, scope, force)
    PROVE  IInv'
<1>1. Types /\ row[r] \in Row
  BY DEF IInv, Types
<1> DEFINE status == IF row[r].cooling /\ ~force THEN "cooling_down" ELSE "queued"
           base == IF scope = "image" THEN row[r].base ELSE status
           image == IF scope = "base" THEN row[r].image ELSE status
           new == [row[r] EXCEPT !.erp = status, !.base = base, !.image = image,
                                 !.old = FALSE, !.cooling = TRUE]
<1>2. status \in Status /\ status # "synced"
  BY DEF Status, InFlight
<1>3. /\ base \in Status /\ (base = "synced" => row[r].base = "synced")
      /\ image \in Status /\ (image = "synced" => row[r].image = "synced")
  BY <1>1, <1>2 DEF Row
<1>4. Write(r, new) /\ UNCHANGED <<filing, detail, erp, pass, overtaken>>
  BY DEF RequestSync
<1> HIDE DEF status, base, image
<1>5. /\ new \in Row /\ new.pic = row[r].pic
      /\ new.base = base /\ new.image = image
  BY <1>1, <1>2, <1>3 DEF Row
<1> HIDE DEF new
<1>6. row' = [row EXCEPT ![r] = new] /\ edited' = [edited EXCEPT ![r] = Older(r)]
  BY <1>4 DEF Write
<1>7. row' \in [Records -> Row]
  BY <1>1, <1>5, <1>6 DEF Types
<1>8. \A q \in Records :
        /\ row'[q].pic = row[q].pic
        /\ row'[q].image = "synced" => row[q].image = "synced"
        /\ row'[q].base = "synced" => row[q].base = "synced" \/ filing[q] = "filed"
  BY <1>1, <1>3, <1>5, <1>6 DEF Types
<1> QED
  BY <1>1, <1>4, <1>6, <1>7, <1>8, OlderType, RowStep

\* Time changes no status.
LEMMA TimeStep ==
    ASSUME IInv, NEW r \in Records, CooldownEnds(r) \/ CheckAges(r)
    PROVE  IInv'
<1>1. Types /\ row[r] \in Row
  BY DEF IInv, Types
<1>2. PICK new \in {[row[r] EXCEPT !.cooling = FALSE], [row[r] EXCEPT !.old = TRUE]} :
        row' = [row EXCEPT ![r] = new]
  BY DEF CooldownEnds, CheckAges
<1>3. UNCHANGED <<filing, detail, edited, erp, pass, overtaken>>
  BY DEF CooldownEnds, CheckAges
<1>4. /\ new \in Row /\ new.pic = row[r].pic
      /\ new.base = row[r].base /\ new.image = row[r].image
  BY <1>1, <1>2 DEF Row
<1>5. row' \in [Records -> Row]
  BY <1>1, <1>2, <1>4 DEF Types
<1>6. \A q \in Records :
        /\ row'[q].pic = row[q].pic
        /\ row'[q].image = "synced" => row[q].image = "synced"
        /\ row'[q].base = "synced" => row[q].base = "synced" \/ filing[q] = "filed"
  BY <1>1, <1>2, <1>4 DEF Types
<1>7. edited' \in [Records -> {"same", "newer", "older"}]
  BY <1>1, <1>3 DEF Types
<1> QED
  BY <1>3, <1>5, <1>6, <1>7, RowStep

\* A push takes nothing away, and without an error it is taken, with its
\* picture: by the ERP, or by the products table where the fallback is on.
LEMMA PushedFacts ==
    ASSUME NEW e \in Product, NEW pic \in MaybePic, NEW taker \in Takers,
           NEW failed \in BOOLEAN, MayTake(taker, failed)
    PROVE  LET n == Pushed(e, pic, taker)
           IN  /\ n \in Product
               /\ Held(e) => Held(n)
               /\ ~failed => Held(n)
               /\ Shows(e, Pics) => Shows(n, Pics)
               /\ ~failed /\ pic # NoPic => Shows(n, Pics) /\ Shows(n, {pic})
               /\ \A q \in MaybePic :
                    Shows(e, {q}) /\ pic \in {NoPic, q} => Shows(n, {q})
<1> DEFINE n == Pushed(e, pic, taker)
           holder == IF taker = "nobody" \/ e.holder = "erp" THEN e.holder ELSE taker
           shown == IF taker = "nobody" \/ pic = NoPic THEN e.pic
                    ELSE IF taker = "erp" THEN pic ELSE Dropped
<1>1. n.holder = holder /\ n.pic = shown /\ n = [holder |-> holder, pic |-> shown]
  BY DEF Pushed
<1>2. holder \in Takers /\ shown \in MaybePic \cup {Dropped}
  BY DEF Product
<1>3. n \in Product
  BY <1>1, <1>2 DEF Product
<1>4. Held(e) => Held(n)
  BY <1>1 DEF Held, MayTake, Takers
<1>5. ~failed => Held(n)
  BY <1>1 DEF Held, MayTake, Takers, Product
<1>6. Shows(e, Pics) => Shows(n, Pics)
  BY <1>1 DEF Shows, MayTake, Takers, MaybePic
<1>7. ~failed /\ pic # NoPic => Shows(n, Pics) /\ Shows(n, {pic})
  BY <1>1 DEF Shows, MayTake, Takers, MaybePic
<1>8. \A q \in MaybePic : Shows(e, {q}) /\ pic \in {NoPic, q} => Shows(n, {q})
  BY <1>1 DEF Shows, MayTake, Takers
<1> QED
  BY <1>3, <1>4, <1>5, <1>6, <1>7, <1>8

\* The task's own filing pushes every SKU, or marks nothing as filed.
LEMMA FilingStep ==
    ASSUME IInv, (\E S \in SUBSET Records : TriggerFiling(S)) \/ TaskEdited
    PROVE  IInv'
<1>1. /\ UNCHANGED <<row, pass, overtaken>>
      /\ filing' \in [Records -> Filing] /\ detail' \in Filing
      /\ edited' \in [Records -> {"same", "newer", "older"}]
  BY DEF TriggerFiling, TaskEdited, IInv, Types, Filing
<1>2. /\ erp' \in [Records -> Product]
      /\ \A r \in Records :
           /\ Held(erp[r]) => Held(erp'[r])
           /\ Shows(erp[r], Pics) => Shows(erp'[r], Pics)
           /\ \A q \in MaybePic : Shows(erp[r], {q}) => Shows(erp'[r], {q})
           /\ filing'[r] = "filed" \/ detail' = "filed" => Held(erp'[r])
  <2>1. ASSUME NEW S \in SUBSET Records, TriggerFiling(S)
        PROVE  /\ erp' \in [Records -> Product]
               /\ \A r \in Records :
                    /\ Held(erp[r]) => Held(erp'[r])
                    /\ Shows(erp[r], Pics) => Shows(erp'[r], Pics)
                    /\ \A q \in MaybePic : Shows(erp[r], {q}) => Shows(erp'[r], {q})
                    /\ filing'[r] = "filed" \/ detail' = "filed" => Held(erp'[r])
    <3>1. PICK taker \in [Records -> Takers] :
            /\ \A r \in Records : MayTake(taker[r], r \notin S)
            /\ erp' = [r \in Records |-> Pushed(erp[r], NoPic, taker[r])]
      BY <2>1 DEF TriggerFiling
    <3>2. NoPic \in MaybePic /\ \A r \in Records : erp[r] \in Product /\ taker[r] \in Takers
      BY <3>1 DEF MaybePic, IInv, Types
    <3>3. \A r \in Records :
            LET n == Pushed(erp[r], NoPic, taker[r])
            IN  /\ n \in Product
                /\ Held(erp[r]) => Held(n)
                /\ Shows(erp[r], Pics) => Shows(n, Pics)
                /\ \A q \in MaybePic : Shows(erp[r], {q}) => Shows(n, {q})
                /\ r \in S => Held(n)
      BY <3>1, <3>2, PushedFacts
    <3>4. \A r \in Records : filing'[r] = "filed" => r \in S
      BY <2>1 DEF TriggerFiling
    <3>5. detail' = "filed" => S = Records
      BY <2>1 DEF TriggerFiling
    <3> QED
      BY <3>1, <3>3, <3>4, <3>5
  <2>2. CASE TaskEdited
    BY <2>2 DEF TaskEdited, IInv, Types
  <2> QED
    BY <2>1, <2>2
<1>3. \A r \in Records : row[r].pic \in MaybePic
  BY DEF IInv, Types, Row
<1>4. Types'
  BY <1>1, <1>2 DEF IInv, Types
<1>5. \A r \in Records : RowOK(r)'
  BY <1>1, <1>2, <1>3 DEF IInv, RowOK
<1>6. (detail = "filed" => \A r \in Records : Held(erp[r]))'
  BY <1>2
<1>7. ASSUME NEW a \in Actors
      PROVE  PassOK(pass[a], erp, row, overtaken)'
  <2>1. HeldBy(pass[a]) \subseteq Records
    BY DEF HeldBy, IInv, Types, Pass
  <2>2. \A r \in HeldBy(pass[a]) : Mild(pass[a], r)
    BY <1>1, <1>2, <1>3, <2>1 DEF Mild
  <2> QED
    BY <1>1, <2>2, MildKeeps DEF IInv
<1> QED
  BY <1>4, <1>5, <1>6, <1>7 DEF IInv

-----------------------------------------------------------------------------
(* Steps of one operation.                                                 *)

\* A step of the operation a keeps the invariant when the new row, the new
\* pass of a and the knowledge of the others are in order.
LEMMA PassStep ==
    ASSUME IInv, NEW a \in Actors, NEW P \in Pass,
           pass' = [pass EXCEPT ![a] = P],
           row' \in [Records -> Row], filing' \in [Records -> Filing],
           detail' \in Filing, edited' \in [Records -> {"same", "newer", "older"}],
           erp' \in [Records -> Product],
           overtaken' \in [Records -> BOOLEAN],
           \A r \in Records : RowOK(r)',
           detail' = "filed" => \A r \in Records : Held(erp'[r]),
           PassOK(P, erp', row', overtaken'),
           \A b \in Actors \ {a} : \A r \in HeldBy(pass[b]) : Mild(pass[b], r)
    PROVE  IInv'
<1>1. pass \in [Actors -> Pass]
  BY DEF IInv, Types
<1>2. pass' \in [Actors -> Pass]
  BY <1>1
<1>3. Types'
  BY <1>2 DEF Types
<1>4. ASSUME NEW b \in Actors
      PROVE  PassOK(pass'[b], erp', row', overtaken')
  <2>1. CASE b = a
    BY <1>1, <2>1
  <2>2. CASE b # a
    <3>1. pass'[b] = pass[b]
      BY <1>1, <2>2
    <3>2. PassOK(pass[b], erp, row, overtaken)
      BY DEF IInv
    <3>3. PassOK(pass[b], erp', row', overtaken')
      BY <2>2, <3>2, MildKeeps
    <3> QED
      BY <3>1, <3>3
  <2> QED
    BY <2>1, <2>2
<1> QED
  BY <1>3, <1>4 DEF IInv

\* A step that only moves the operation a on.
LEMMA PassOnly ==
    ASSUME IInv, NEW a \in Actors, NEW P \in Pass,
           pass' = [pass EXCEPT ![a] = P],
           UNCHANGED <<row, filing, detail, edited, erp, overtaken>>,
           PassOK(P, erp, row, overtaken)
    PROVE  IInv'
<1>1. \A b \in Actors : \A r \in HeldBy(pass[b]) : Mild(pass[b], r)
  BY DEF Mild
<1>2. \A r \in Records : RowOK(r)'
  BY DEF IInv, RowOK
<1>3. PassOK(P, erp', row', overtaken')
  OBVIOUS
<1> QED
  BY <1>1, <1>2, <1>3, PassStep DEF IInv, Types

\* A pass between two rows knows what it knew of the rows it has to do.
LEMMA RestOK ==
    ASSUME NEW a, pass[a] \in Pass, NEW S \in SUBSET pass[a].todo,
           NEW e, NEW w, NEW o, S \subseteq DOMAIN pass[a].snap,
           \A r \in S :
             /\ pass[a].snap[r].image = "synced" => Shows(e[r], Pics)
             /\ ~o[r] => pass[a].snap[r].pic = w[r].pic
             /\ ~o[r] /\ pass[a].snap[r].image = "synced" => Shows(e[r], {w[r].pic})
    PROVE  Rest(a, S) \in Pass /\ PassOK(Rest(a, S), e, w, o)
<1> DEFINE f == [r \in S |-> pass[a].snap[r]]
<1>1. pass[a].snap \in Snapshots /\ S \in SUBSET Records
  BY DEF Pass
<1>2. \A r \in S : pass[a].snap[r] \in Snapshot
  BY <1>1 DEF Snapshots
<1>3. f \in [S -> Snapshot]
  BY <1>2
<1>4. f \in Snapshots
  BY <1>1, <1>3 DEF Snapshots
<1>5. DOMAIN f = S /\ \A r \in S : f[r] = pass[a].snap[r]
  OBVIOUS
<1>6. Rest(a, S) = [Idle EXCEPT !.todo = S, !.snap = f]
  BY DEF Rest
<1> HIDE DEF f
<1>7. /\ Rest(a, S) \in Pass /\ Rest(a, S).todo = S /\ Rest(a, S).at = NoRecord
      /\ Rest(a, S).snap = f
  BY <1>1, <1>4, <1>6 DEF Idle, Pass, Steps, Results
<1>8. HeldBy(Rest(a, S)) = S
  BY <1>7 DEF HeldBy
<1> QED
  BY <1>5, <1>7, <1>8 DEF PassOK

\* An operation that is done with a row.
LEMMA DoneOK ==
    ASSUME IInv, NEW a \in Actors, NEW e, NEW w, NEW o, PassOK(pass[a], e, w, o)
    PROVE  Done(a) \in Pass /\ PassOK(Done(a), e, w, o)
<1>1. pass[a] \in Pass
  BY DEF IInv, Types
<1>2. pass[a].todo \subseteq HeldBy(pass[a])
  BY DEF HeldBy
<1>3. /\ pass[a].todo \subseteq DOMAIN pass[a].snap
      /\ \A r \in pass[a].todo :
           /\ pass[a].snap[r].image = "synced" => Shows(e[r], Pics)
           /\ ~o[r] => pass[a].snap[r].pic = w[r].pic
           /\ ~o[r] /\ pass[a].snap[r].image = "synced" => Shows(e[r], {w[r].pic})
  BY <1>2 DEF PassOK
<1> QED
  BY <1>1, <1>3, RestOK DEF Done

\* Turning to the picture forgets the answer of the base call.
LEMMA ContinueOK ==
    ASSUME IInv, NEW a \in Actors, NEW e, NEW w, NEW o, PassOK(pass[a], e, w, o),
           NEW step \in {"image", "wholeImage"},
           pass[a].at # NoRecord,
           step = "wholeImage" => Held(e[pass[a].at])
    PROVE  Continue(a, step) \in Pass /\ PassOK(Continue(a, step), e, w, o)
<1>1. pass[a] \in Pass
  BY DEF IInv, Types
<1>2. /\ Continue(a, step) \in Pass /\ Continue(a, step).todo = pass[a].todo
      /\ Continue(a, step).snap = pass[a].snap /\ Continue(a, step).at = pass[a].at
      /\ Continue(a, step).step = step /\ Continue(a, step).result = "none"
  BY <1>1 DEF Continue, Pass, Results, Steps
<1>3. HeldBy(Continue(a, step)) = HeldBy(pass[a])
  BY <1>2 DEF HeldBy
<1> HIDE DEF Continue
<1> QED
  BY <1>2, <1>3 DEF PassOK

\* What follows the base mark.
LEMMA AfterBaseOK ==
    ASSUME IInv, NEW a \in Actors, NEW e, NEW w, NEW o, PassOK(pass[a], e, w, o),
           pass[a].at # NoRecord
    PROVE  AfterBase(a) \in Pass /\ PassOK(AfterBase(a), e, w, o)
BY DoneOK, ContinueOK DEF AfterBase

\* A process that stops forgets what it has read.
LEMMA StopStep ==
    ASSUME IInv, NEW a \in Actors, Stop(a)
    PROVE  IInv'
BY IdleOK, PassOnly DEF Stop

\* A mark that is not written leaves the row as it was.
LEMMA MarkLostStep ==
    ASSUME IInv, NEW a \in Actors, MarkLost(a)
    PROVE  IInv'
<1>1. PassOK(pass[a], erp, row, overtaken)
  BY DEF IInv
<1> DEFINE P == IF pass[a].step = "base" THEN AfterBase(a) ELSE Done(a)
<1>2. P \in Pass /\ PassOK(P, erp, row, overtaken)
  BY <1>1, AfterBaseOK, DoneOK DEF MarkLost
<1>3. /\ pass' = [pass EXCEPT ![a] = P]
      /\ UNCHANGED <<row, filing, detail, edited, erp, overtaken>>
  BY DEF MarkLost
<1> QED
  BY <1>2, <1>3, PassOnly

\* The picture of a whole push follows a successful base push.
LEMMA ContinueWholeStep ==
    ASSUME IInv, NEW a \in Actors, ContinueWhole(a)
    PROVE  IInv'
<1>1. PassOK(pass[a], erp, row, overtaken)
  BY DEF IInv
<1>2. pass[a].at # NoRecord /\ Held(erp[pass[a].at])
  BY <1>1 DEF ContinueWhole, PassOK
<1>3. /\ Continue(a, "wholeImage") \in Pass
      /\ PassOK(Continue(a, "wholeImage"), erp, row, overtaken)
  BY <1>1, <1>2, ContinueOK
<1> QED
  BY <1>3, PassOnly DEF ContinueWhole

\* The loop turns to a row it has read.
LEMMA NextRecordStep ==
    ASSUME IInv, NEW w \in Workers, NEW r \in Records, NextRecord(w, r)
    PROVE  IInv'
<1> DEFINE P == [pass[w] EXCEPT !.todo = @ \ {r}, !.at = r,
                                !.step = FirstStep(pass[w].snap[r]), !.result = "none"]
<1>1. w \in Actors /\ pass[w] \in Pass /\ r \in pass[w].todo
  BY DEF IInv, Types, Actors, NextRecord
<1>2. PassOK(pass[w], erp, row, overtaken)
  BY <1>1 DEF IInv
<1>3. FirstStep(pass[w].snap[r]) \in Steps \ {"wholeImage"}
  BY DEF FirstStep, Steps
<1>4. /\ P \in Pass /\ P.todo = pass[w].todo \ {r} /\ P.at = r /\ P.result = "none"
      /\ P.step # "wholeImage" /\ P.snap = pass[w].snap
  BY <1>1, <1>3 DEF Pass, Results
<1>5. /\ pass' = [pass EXCEPT ![w] = P]
      /\ UNCHANGED <<row, filing, detail, edited, erp, overtaken>>
  BY DEF NextRecord
<1> HIDE DEF P
<1>6. HeldBy(P) \subseteq HeldBy(pass[w])
  BY <1>1, <1>4 DEF HeldBy
<1>7. PassOK(P, erp, row, overtaken)
  BY <1>2, <1>4, <1>6 DEF PassOK
<1> QED
  BY <1>1, <1>4, <1>5, <1>7, PassOnly

\* A pass that has just read the rows S of the table w.
Fresh(uses, S, w) == [Idle EXCEPT !.todo = S, !.snap = Read(uses, S, w)]

\* What is remembered of a row: its picture, and synced only if it was.
LEMMA SnapFacts ==
    ASSUME NEW uses, NEW old \in Row
    PROVE  /\ Snap(uses, old) \in Snapshot /\ Snap(uses, old).pic = old.pic
           /\ Snap(uses, old).image = "synced" => old.image = "synced"
BY DEF Snap, Snapshot, Row, Status, InFlight

\* The shape of a pass that has just read its rows.
LEMMA FreshFacts ==
    ASSUME NEW uses, NEW S \in SUBSET Records, NEW w \in [Records -> Row]
    PROVE  LET P == Fresh(uses, S, w)
           IN  /\ P \in Pass /\ P.at = NoRecord /\ HeldBy(P) = S /\ DOMAIN P.snap = S
               /\ \A r \in S : /\ P.snap[r].pic = w[r].pic
                               /\ P.snap[r].image = "synced" => w[r].image = "synced"
<1> DEFINE f == [r \in S |-> Snap(uses, w[r])]
           P == Fresh(uses, S, w)
<1>1. \A r \in S : /\ Snap(uses, w[r]) \in Snapshot /\ Snap(uses, w[r]).pic = w[r].pic
                   /\ Snap(uses, w[r]).image = "synced" => w[r].image = "synced"
  BY SnapFacts
<1>2. f \in [S -> Snapshot] /\ DOMAIN f = S
  BY <1>1
<1>3. f \in Snapshots
  BY <1>2 DEF Snapshots
<1>4. \A r \in S : /\ f[r].pic = w[r].pic
                   /\ f[r].image = "synced" => w[r].image = "synced"
  BY <1>1
<1>5. P = [Idle EXCEPT !.todo = S, !.snap = f]
  BY DEF Fresh, Read
<1> HIDE DEF f, P
<1>6. P \in Pass /\ P.todo = S /\ P.at = NoRecord /\ P.snap = f
  BY <1>3, <1>5 DEF Idle, Pass, Steps, Results
<1>7. HeldBy(P) = S
  BY <1>6 DEF HeldBy
<1> QED
  BY <1>2, <1>4, <1>6, <1>7 DEF P

\* A pass knows the rows it has just read.
LEMMA FreshOK ==
    ASSUME NEW uses, NEW S \in SUBSET Records, NEW w \in [Records -> Row], NEW e, NEW o,
           \A r \in S : w[r].image = "synced" =>
             Shows(e[r], Pics) /\ (~o[r] => Shows(e[r], {w[r].pic}))
    PROVE  Fresh(uses, S, w) \in Pass /\ PassOK(Fresh(uses, S, w), e, w, o)
<1> DEFINE P == Fresh(uses, S, w)
<1>1. /\ P \in Pass /\ P.at = NoRecord /\ HeldBy(P) = S /\ DOMAIN P.snap = S
      /\ \A r \in S : /\ P.snap[r].pic = w[r].pic
                      /\ P.snap[r].image = "synced" => w[r].image = "synced"
  BY FreshFacts
<1> HIDE DEF P
<1>2. PassOK(P, e, w, o)
  BY <1>1 DEF PassOK
<1> QED
  BY <1>1, <1>2 DEF P

\* A page reads one row.
LEMMA OpenPageStep ==
    ASSUME IInv, NEW a \in Pages, NEW r \in Records, OpenPage(a, r)
    PROVE  IInv'
<1>1. a \in Actors /\ row \in [Records -> Row]
  BY DEF Actors, IInv, Types
<1> DEFINE P == Fresh({"image", "onClose", "manual"}, {r}, row)
<1>2. P \in Pass /\ PassOK(P, erp, row, overtaken)
  BY <1>1, FreshOK DEF IInv, RowOK
<1>3. pass' = [pass EXCEPT ![a] = P]
  BY DEF OpenPage, Fresh
<1> QED
  BY <1>1, <1>2, <1>3, PassOnly DEF OpenPage

\* A claim or a refresh that reads the rows it has just written.
LEMMA ReadStep ==
    ASSUME IInv, NEW a \in Actors, NEW uses, NEW S \in SUBSET Records,
           pass' = [pass EXCEPT ![a] = Fresh(uses, S, row')],
           UNCHANGED <<filing, detail, erp, overtaken>>,
           row' \in [Records -> Row],
           edited' \in [Records -> {"same", "newer", "older"}],
           \A r \in Records :
             /\ row'[r].pic = row[r].pic
             /\ row'[r].image = "synced" => row[r].image = "synced"
             /\ row'[r].base = "synced" => row[r].base = "synced" \/ filing[r] = "filed"
    PROVE  IInv'
<1>1. \A r \in Records : RowOK(r)'
  BY DEF IInv, RowOK
<1>2. \A b \in Actors : HeldBy(pass[b]) \subseteq Records
  BY DEF HeldBy, IInv, Types, Pass
<1>3. \A b \in Actors : \A r \in HeldBy(pass[b]) : Mild(pass[b], r)
  BY <1>2 DEF Mild
<1>4. \A r \in S : row'[r].image = "synced" =>
        Shows(erp'[r], Pics) /\ (~overtaken'[r] => Shows(erp'[r], {row'[r].pic}))
  BY <1>1 DEF RowOK
<1>5. ASSUME NEW w, w = row', NEW e, e = erp', NEW o, o = overtaken'
      PROVE  Fresh(uses, S, w) \in Pass /\ PassOK(Fresh(uses, S, w), e, w, o)
  <2>1. w \in [Records -> Row]
    BY <1>5
  <2>2. \A r \in S : w[r].image = "synced" =>
          Shows(e[r], Pics) /\ (~o[r] => Shows(e[r], {w[r].pic}))
    BY <1>4, <1>5
  <2> HIDE <1>5
  <2> QED
    BY <2>1, <2>2, FreshOK
<1> QED
  BY <1>1, <1>3, <1>5, PassStep DEF IInv, Types

\* A worker reads the rows it claims.
LEMMA ClaimStep ==
    ASSUME IInv, NEW w \in Workers, ClaimQueuedSyncRecords(w)
    PROVE  IInv'
<1>1. w \in Actors /\ Types
  BY DEF Actors, IInv
<1>2. PICK S \in SUBSET Records :
        LET new == [r \in Records |-> IF r \in S THEN ClaimedRow(row[r]) ELSE row[r]]
        IN  /\ row' = new
            /\ edited' = [r \in Records |-> IF r \in S THEN Older(r) ELSE edited[r]]
            /\ pass' = [pass EXCEPT ![w] =
                 [Idle EXCEPT !.todo = S, !.snap = Read({"base", "image"}, S, new)]]
  BY DEF ClaimQueuedSyncRecords
<1>3. /\ row' \in [Records -> Row]
      /\ \A r \in Records :
           /\ row'[r].pic = row[r].pic
           /\ row'[r].image = "synced" => row[r].image = "synced"
           /\ row'[r].base = "synced" => row[r].base = "synced" \/ filing[r] = "filed"
  BY <1>1, <1>2, ClaimedRowFacts DEF Types
<1>4. edited' \in [Records -> {"same", "newer", "older"}]
  BY <1>1, <1>2 DEF Types, Older
<1>5. pass' = [pass EXCEPT ![w] = Fresh({"base", "image"}, S, row')]
  BY <1>2 DEF Fresh
<1>6. UNCHANGED <<filing, detail, erp, overtaken>>
  BY DEF ClaimQueuedSyncRecords
<1> QED
  BY <1>1, <1>3, <1>4, <1>5, <1>6, ReadStep

\* The push after closing reads the rows it has refreshed.
LEMMA TaskClosedStep ==
    ASSUME IInv, NEW a \in Closers, TaskClosed(a)
    PROVE  IInv'
<1>1. a \in Actors /\ Types
  BY DEF Actors, IInv
<1>2. /\ row' = [r \in Records |-> Refreshed(r)]
      /\ pass' = [pass EXCEPT ![a] = Fresh({"onClose"}, Records, row')]
      /\ edited' = [r \in Records |-> "same"]
      /\ UNCHANGED <<filing, detail, erp, overtaken>>
  BY DEF TaskClosed, Fresh
<1>3. /\ row' \in [Records -> Row]
      /\ \A r \in Records :
           /\ row'[r].pic = row[r].pic
           /\ row'[r].image = "synced" => row[r].image = "synced"
           /\ row'[r].base = "synced" => row[r].base = "synced" \/ filing[r] = "filed"
  BY <1>1, <1>2, RefreshedFacts
<1> QED
  BY <1>1, <1>2, <1>3, ReadStep

-----------------------------------------------------------------------------
(* Steps that replace a picture.                                           *)

\* Writing new to the row r on behalf of own keeps every row in order and is
\* mild on the rows the other operations have read.
LEMMA ChangePicFacts ==
    ASSUME IInv, NEW own, NEW r \in Records, NEW new \in Row, ChangePic(own, r, new),
           UNCHANGED <<filing, detail, erp>>,
           new.base = row[r].base,
           new.image = "synced" => Shows(erp[r], Pics),
           new.image = "synced" /\ ~overtaken'[r] => Shows(erp[r], {new.pic})
    PROVE  /\ row' \in [Records -> Row] /\ overtaken' \in [Records -> BOOLEAN]
           /\ edited' \in [Records -> {"same", "newer", "older"}]
           /\ row'[r] = new
           /\ \A q \in Records : overtaken[q] => overtaken'[q]
           /\ \A q \in Records : RowOK(q)'
           /\ \A b \in Actors \ own : \A q \in HeldBy(pass[b]) : Mild(pass[b], q)
<1>1. Types
  BY DEF IInv
<1> DEFINE over == overtaken[r] \/ Overtakes(own, r, new.pic)
<1>2. /\ row' = [row EXCEPT ![r] = new] /\ edited' = [edited EXCEPT ![r] = Older(r)]
      /\ overtaken' = [overtaken EXCEPT ![r] = over]
  BY DEF ChangePic, Write
<1>3. over \in BOOLEAN
  BY <1>1 DEF Types, Overtakes
<1> HIDE DEF over
<1>4. row' \in [Records -> Row] /\ overtaken' \in [Records -> BOOLEAN] /\ row'[r] = new
  BY <1>1, <1>2, <1>3 DEF Types
<1>5. edited' \in [Records -> {"same", "newer", "older"}]
  BY <1>1, <1>2, OlderType
<1>6. /\ \A q \in Records \ {r} : row'[q] = row[q] /\ overtaken'[q] = overtaken[q]
      /\ overtaken'[r] = over
  BY <1>1, <1>2 DEF Types
<1>7. \A q \in Records : overtaken[q] => overtaken'[q]
  BY <1>6 DEF over
<1>8. \A q \in Records : RowOK(q)'
  <2>1. RowOK(r)'
    BY <1>4 DEF IInv, RowOK
  <2>2. \A q \in Records \ {r} : RowOK(q)'
    BY <1>6 DEF IInv, RowOK
  <2> QED
    BY <2>1, <2>2
<1>9. ASSUME NEW b \in Actors \ own, NEW q \in HeldBy(pass[b])
      PROVE  Mild(pass[b], q)
  <2>1. q \in Records
    BY <1>1 DEF HeldBy, Types, Pass
  <2>2. ~overtaken'[q] => row'[q].pic = row[q].pic
    <3>1. CASE q = r
      <4>1. ~over => new.pic = row[r].pic
        BY <1>9, <3>1 DEF over, Overtakes, Holds
      <4> QED
        BY <1>4, <1>6, <3>1, <4>1
    <3>2. CASE q # r
      BY <1>6, <2>1, <3>2
    <3> QED
      BY <3>1, <3>2
  <2> QED
    BY <1>7, <2>1, <2>2 DEF Mild
<1> QED
  BY <1>4, <1>5, <1>7, <1>8, <1>9

\* A picture chosen by hand is not synced yet.
LEMMA SetManualImageStep ==
    ASSUME IInv, NEW r \in Records, NEW pic \in Pics, NEW manual \in BOOLEAN,
           SetManualImage(r, pic, manual)
    PROVE  IInv'
<1> DEFINE new == UpdateImage(row[r], pic, FALSE, manual, "pending_sync")
<1>1. /\ row[r] \in Row /\ pic \in MaybePic /\ "pending_sync" \in Status
  BY DEF IInv, Types, MaybePic, Status
<1>2. new \in Row /\ new.base = row[r].base /\ new.image # "synced"
  <2>1. \A onClose \in BOOLEAN :
          LET n == UpdateImage(row[r], pic, onClose, manual, "pending_sync")
          IN  n \in Row /\ n.base = row[r].base /\ n.image # "synced"
    BY <1>1, UpdateImageFacts
  <2> QED
    BY <2>1
<1>3. ChangePic({}, r, new) /\ UNCHANGED <<filing, detail, erp, pass>>
  BY DEF SetManualImage
<1> HIDE DEF new
<1>4. /\ row' \in [Records -> Row] /\ overtaken' \in [Records -> BOOLEAN]
      /\ edited' \in [Records -> {"same", "newer", "older"}]
      /\ \A q \in Records : RowOK(q)'
      /\ \A q \in Records : overtaken[q] => overtaken'[q]
  BY <1>2, <1>3, ChangePicFacts
<1>5. \A b \in Actors \ {} : \A q \in HeldBy(pass[b]) : Mild(pass[b], q)
  BY <1>2, <1>3, ChangePicFacts
<1>6. \A b \in Actors : PassOK(pass[b], erp, row, overtaken)'
  BY <1>3, <1>5, MildKeeps DEF IInv
<1>7. Types'
  BY <1>3, <1>4 DEF IInv, Types
<1> QED
  BY <1>3, <1>4, <1>6, <1>7 DEF IInv

\* The patch a page writes is synced only when the page read it as synced,
\* together with the picture it writes.
LEMMA AutoImagePatchFacts ==
    ASSUME NEW old \in Row, NEW snap \in Snapshot, NEW candidate \in MaybePic
    PROVE  LET new == AutoImagePatch(old, snap, candidate)
           IN  /\ new \in Row /\ new.base = old.base
               /\ new.image = "synced" => snap.image = "synced" /\ new.pic = snap.pic
<1> DEFINE status == IF candidate = NoPic THEN "waiting_image" ELSE "pending_sync"
<1>1. snap.pic \in MaybePic /\ snap.image \in Status
  BY DEF Snapshot
<1>2. status \in Status /\ status # "synced"
  BY DEF Status
<1> HIDE DEF status
<1>3. \A onClose, manual \in BOOLEAN :
        LET new == UpdateImage(old, snap.pic, onClose, manual, snap.image)
        IN  /\ new \in Row /\ new.base = old.base /\ new.pic = snap.pic
            /\ new.image = "synced" => snap.image = "synced"
  BY <1>1, UpdateImageFacts
<1>4. \A onClose, manual \in BOOLEAN :
        LET new == UpdateImage(old, candidate, onClose, manual, status)
        IN  /\ new \in Row /\ new.base = old.base /\ new.image # "synced"
  BY <1>2, UpdateImageFacts
<1>5. CASE KeepsPic(snap)
  <2>1. AutoImagePatch(old, snap, candidate) = UpdateImage(old, snap.pic, TRUE, FALSE, snap.image)
    BY <1>5 DEF AutoImagePatch
  <2> QED
    BY <1>3, <2>1
<1>6. CASE ~KeepsPic(snap)
  <2>1. AutoImagePatch(old, snap, candidate) = UpdateImage(old, candidate, FALSE, FALSE, status)
    BY <1>6 DEF AutoImagePatch, status
  <2> QED
    BY <1>4, <2>1
<1> QED
  BY <1>5, <1>6

\* A page writes its patch and ends.
LEMMA PatchStep ==
    ASSUME IInv, NEW a \in Actors, NEW r \in Records, NEW candidate \in MaybePic,
           r \in pass[a].todo,
           ChangePic({a}, r, AutoImagePatch(row[r], pass[a].snap[r], candidate)),
           pass' = [pass EXCEPT ![a] = Idle], UNCHANGED <<filing, detail, erp>>
    PROVE  IInv'
<1> DEFINE new == AutoImagePatch(row[r], pass[a].snap[r], candidate)
<1>1. PassOK(pass[a], erp, row, overtaken) /\ pass[a] \in Pass /\ row[r] \in Row
  BY DEF IInv, Types
<1>2. r \in HeldBy(pass[a]) /\ pass[a].snap[r] \in Snapshot
  <2>1. r \in HeldBy(pass[a]) /\ r \in DOMAIN pass[a].snap
    BY <1>1 DEF HeldBy, PassOK
  <2>2. pass[a].snap \in Snapshots
    BY <1>1 DEF Pass
  <2> QED
    BY <2>1, <2>2 DEF Snapshots
<1>3. /\ new \in Row /\ new.base = row[r].base
      /\ new.image = "synced" =>
           pass[a].snap[r].image = "synced" /\ new.pic = pass[a].snap[r].pic
  BY <1>1, <1>2, AutoImagePatchFacts
<1> HIDE DEF new
<1>4. ChangePic({a}, r, new)
  BY DEF new
<1>5. new.image = "synced" =>
        /\ Shows(erp[r], Pics)
        /\ ~overtaken[r] => Shows(erp[r], {new.pic})
  BY <1>1, <1>2, <1>3 DEF PassOK
<1>6. overtaken[r] => overtaken'[r]
  BY <1>4 DEF ChangePic, IInv, Types
<1>7. /\ row' \in [Records -> Row] /\ overtaken' \in [Records -> BOOLEAN]
      /\ edited' \in [Records -> {"same", "newer", "older"}]
      /\ \A q \in Records : RowOK(q)'
      /\ \A b \in Actors \ {a} : \A q \in HeldBy(pass[b]) : Mild(pass[b], q)
  <2>1. new.image = "synced" => Shows(erp[r], Pics)
    BY <1>5
  <2>2. new.image = "synced" /\ ~overtaken'[r] => Shows(erp[r], {new.pic})
    BY <1>5, <1>6
  <2>3. new \in Row /\ new.base = row[r].base
    BY <1>3
  <2> QED
    BY <1>4, <2>1, <2>2, <2>3, ChangePicFacts
<1>8. Idle \in Pass /\ PassOK(Idle, erp', row', overtaken')
  BY IdleOK
<1> QED
  BY <1>7, <1>8, PassStep DEF IInv, Types

\* ReparseImage and the list write the patch of one row.
LEMMA PageStep ==
    ASSUME IInv, NEW a \in Pages, NEW r \in Records, NEW c \in MaybePic,
           ReparseImage(a, r, c) \/ DecorateRecord(a, r, c)
    PROVE  IInv'
<1>1. a \in Actors
  BY DEF Actors
<1>2. CASE ReparseImage(a, r, c)
  BY <1>1, <1>2, PatchStep DEF ReparseImage
<1>3. CASE DecorateRecord(a, r, c)
  <2>1. CASE UNCHANGED <<row, edited, overtaken>>
    BY <1>1, <1>3, <2>1, IdleOK, PassOnly DEF DecorateRecord
  <2>2. CASE ChangePic({a}, r, AutoImagePatch(row[r], pass[a].snap[r], c))
    BY <1>1, <1>3, <2>2, PatchStep DEF DecorateRecord
  <2> QED
    BY <1>3, <2>1, <2>2 DEF DecorateRecord
<1> QED
  BY <1>2, <1>3

\* The push after closing writes its picture and remembers it.
LEMMA CloseRecordStep ==
    ASSUME IInv, NEW a \in Closers, NEW r \in Records, NEW c \in MaybePic,
           NEW delivery \in BOOLEAN, CloseRecord(a, r, c, delivery)
    PROVE  IInv'
<1> DEFINE p == pass[a]
           pic == IF KeepsPic(p.snap[r]) THEN p.snap[r].pic ELSE c
           onClose == pic # NoPic /\ (KeepsPic(p.snap[r]) \/ delivery)
           status == IF pic = NoPic THEN "waiting_image" ELSE "syncing"
           new == UpdateImage(row[r], pic, onClose, FALSE, status)
           P == IF pic # NoPic
                THEN [p EXCEPT !.todo = @ \ {r}, !.at = r, !.step = "image",
                               !.result = "none", !.snap = Selected(p.snap, r, pic)]
                ELSE Rest(a, p.todo \ {r})
<1>1. /\ a \in Actors /\ p \in Pass /\ row[r] \in Row
      /\ PassOK(p, erp, row, overtaken)
  BY DEF Actors, IInv, Types
<1>2. p.at = NoRecord /\ r \in p.todo
  BY DEF CloseRecord
<1>3. /\ ChangePic({a}, r, new) /\ pass' = [pass EXCEPT ![a] = P]
      /\ UNCHANGED <<filing, detail, erp>>
  BY DEF CloseRecord
<1>4. r \in HeldBy(p) /\ r \in DOMAIN p.snap /\ p.snap \in Snapshots
  BY <1>1, <1>2 DEF HeldBy, PassOK, Pass
<1>5. \A q \in DOMAIN p.snap : p.snap[q] \in Snapshot
  BY <1>4 DEF Snapshots
<1>6. pic \in MaybePic
  BY <1>4, <1>5 DEF Snapshot
<1>7. status \in Status /\ status # "synced" /\ onClose \in BOOLEAN
  BY DEF Status, InFlight
<1> HIDE DEF pic, onClose, status
<1>8. new \in Row /\ new.base = row[r].base /\ new.image # "synced" /\ new.pic = pic
  <2>1. \A manual \in BOOLEAN :
          LET n == UpdateImage(row[r], pic, onClose, manual, status)
          IN  n \in Row /\ n.base = row[r].base /\ n.image # "synced" /\ n.pic = pic
    BY <1>1, <1>6, <1>7, UpdateImageFacts
  <2> QED
    BY <2>1
<1> HIDE DEF new
<1>9. /\ row' \in [Records -> Row] /\ overtaken' \in [Records -> BOOLEAN]
      /\ edited' \in [Records -> {"same", "newer", "older"}]
      /\ row'[r] = new
      /\ \A q \in Records : overtaken[q] => overtaken'[q]
      /\ \A q \in Records : RowOK(q)'
      /\ \A b \in Actors \ {a} : \A q \in HeldBy(pass[b]) : Mild(pass[b], q)
  BY <1>3, <1>8, ChangePicFacts
<1>10. \A q \in Records \ {r} : row'[q] = row[q]
  BY <1>3 DEF ChangePic, Write, IInv, Types
<1>11. P \in Pass /\ PassOK(P, erp', row', overtaken')
  <2>1. p.todo \subseteq HeldBy(p) /\ p.todo \subseteq Records
    BY <1>1 DEF HeldBy, Pass
  <2>2. \A q \in p.todo \ {r} :
          /\ erp'[q] = erp[q] /\ row'[q] = row[q]
          /\ ~overtaken'[q] => ~overtaken[q]
    BY <1>3, <1>9, <1>10, <2>1
  <2>3. \A q \in p.todo \ {r} :
          /\ p.snap[q].image = "synced" => Shows(erp'[q], Pics)
          /\ ~overtaken'[q] => p.snap[q].pic = row'[q].pic
          /\ ~overtaken'[q] /\ p.snap[q].image = "synced" => Shows(erp'[q], {row'[q].pic})
    BY <1>1, <2>1, <2>2 DEF PassOK
  <2>4. CASE pic = NoPic
    <3>1. p.todo \ {r} \subseteq DOMAIN p.snap
      BY <1>1, <2>1 DEF PassOK
    <3>2. Rest(a, p.todo \ {r}) \in Pass /\ PassOK(Rest(a, p.todo \ {r}), erp', row', overtaken')
      BY <1>1, <2>3, <3>1, RestOK
    <3> QED
      BY <2>4, <3>2
  <2>5. CASE pic # NoPic
    <3> DEFINE f == Selected(p.snap, r, pic)
    <3>1. DOMAIN f = DOMAIN p.snap
      BY DEF Selected
    <3>2. /\ f[r].pic = pic /\ f[r].image = "syncing" /\ f[r] \in Snapshot
          /\ \A q \in DOMAIN p.snap \ {r} : f[q] = p.snap[q]
      BY <1>4, <1>5, <1>6 DEF Selected, Snapshot, Status, InFlight
    <3>3. f \in Snapshots
      <4>1. PICK S \in SUBSET Records : p.snap \in [S -> Snapshot]
        BY <1>4 DEF Snapshots
      <4>2. \A q \in S : f[q] \in Snapshot
        BY <1>5, <3>2, <4>1
      <4>3. f = [q \in S |-> f[q]]
        BY <4>1 DEF Selected
      <4>4. f \in [S -> Snapshot]
        BY <4>2, <4>3
      <4> QED
        BY <4>4 DEF Snapshots
    <3> HIDE DEF f
    <3>4. P = [p EXCEPT !.todo = @ \ {r}, !.at = r, !.step = "image",
                        !.result = "none", !.snap = f]
      BY <2>5 DEF f
    <3>5. /\ P \in Pass /\ P.todo = p.todo \ {r} /\ P.at = r /\ P.snap = f
          /\ P.step = "image" /\ P.result = "none"
      BY <1>1, <3>3, <3>4 DEF Pass, Steps, Results
    <3> HIDE DEF P
    <3>6. HeldBy(P) \subseteq HeldBy(p) /\ HeldBy(P) = (p.todo \ {r}) \cup {r}
      BY <1>2, <3>5, NoRecordAssumption DEF HeldBy
    <3>7. \A q \in p.todo \ {r} : f[q] = p.snap[q]
      BY <1>1, <2>1, <3>2 DEF PassOK
    <3>8. \A q \in HeldBy(P) :
            /\ f[q].image = "synced" => Shows(erp'[q], Pics)
            /\ ~overtaken'[q] => f[q].pic = row'[q].pic
            /\ ~overtaken'[q] /\ f[q].image = "synced" => Shows(erp'[q], {row'[q].pic})
      BY <1>8, <1>9, <2>3, <3>2, <3>6, <3>7
    <3>9. HeldBy(P) \subseteq DOMAIN P.snap
      BY <1>1, <3>1, <3>5, <3>6 DEF PassOK
    <3> QED
      BY <3>5, <3>8, <3>9 DEF PassOK
  <2> QED
    BY <2>4, <2>5
<1> QED
  BY <1>1, <1>3, <1>9, <1>11, PassStep DEF IInv, Types

-----------------------------------------------------------------------------
(* Calls and marks.                                                        *)

\* The answer of a call, before its outcome is written.
LEMMA AnswerOK ==
    ASSUME IInv, NEW a \in Actors, NEW e, NEW w, NEW o, PassOK(pass[a], e, w, o),
           NEW result \in Results, pass[a].at # NoRecord,
           result = "ok" => /\ pass[a].step \in {"base", "wholeBase"} => Held(e[pass[a].at])
                            /\ pass[a].step \in {"image", "wholeImage"} =>
                                 /\ Shows(e[pass[a].at], Pics)
                                 /\ ~o[pass[a].at] =>
                                      Shows(e[pass[a].at], {w[pass[a].at].pic})
    PROVE  LET P == [pass[a] EXCEPT !.result = result]
           IN  P \in Pass /\ PassOK(P, e, w, o)
<1> DEFINE P == [pass[a] EXCEPT !.result = result]
<1>1. pass[a] \in Pass
  BY DEF IInv, Types
<1>2. /\ P \in Pass /\ P.todo = pass[a].todo /\ P.at = pass[a].at
      /\ P.snap = pass[a].snap /\ P.step = pass[a].step /\ P.result = result
  BY <1>1 DEF Pass
<1> HIDE DEF P
<1>3. HeldBy(P) = HeldBy(pass[a])
  BY <1>2 DEF HeldBy
<1>4. PassOK(P, e, w, o)
  BY <1>2, <1>3 DEF PassOK
<1> QED
  BY <1>2, <1>4 DEF P

\* A call that pushes base data, or the picture the operation has read.
LEMMA CallStep ==
    ASSUME IInv, NEW a \in Actors, NEW pic \in MaybePic, NEW result \in Results,
           pass[a].at \in Records, Answer(a, result),
           UpsertProduct(pass[a].at, pic, result # "ok"),
           UNCHANGED <<row, filing, detail, edited, overtaken>>,
           pass[a].step \in {"image", "wholeImage"} => pic # NoPic,
           ~overtaken[pass[a].at] => pic \in {NoPic, row[pass[a].at].pic}
    PROVE  IInv'
<1> DEFINE r == pass[a].at
           P == [pass[a] EXCEPT !.result = result]
<1>1. /\ Types /\ PassOK(pass[a], erp, row, overtaken) /\ r # NoRecord
      /\ erp[r] \in Product /\ row[r].pic \in MaybePic
  BY NoRecordAssumption DEF IInv, Types, Row
<1>2. PICK taker \in Takers :
        /\ MayTake(taker, result # "ok")
        /\ erp' = [erp EXCEPT ![r] = Pushed(erp[r], pic, taker)]
  BY DEF UpsertProduct
<1> DEFINE n == Pushed(erp[r], pic, taker)
<1>3. /\ n \in Product
      /\ Held(erp[r]) => Held(n)
      /\ Shows(erp[r], Pics) => Shows(n, Pics)
      /\ \A q \in MaybePic : Shows(erp[r], {q}) /\ pic \in {NoPic, q} => Shows(n, {q})
      /\ result = "ok" => Held(n)
      /\ result = "ok" /\ pic # NoPic => Shows(n, Pics) /\ Shows(n, {pic})
  BY <1>1, <1>2, PushedFacts
<1>4. erp' = [erp EXCEPT ![r] = n]
  BY <1>2
<1> HIDE DEF n
<1>5. /\ erp' \in [Records -> Product] /\ erp'[r] = n
      /\ \A q \in Records \ {r} : erp'[q] = erp[q]
  BY <1>1, <1>3, <1>4 DEF Types
<1>6. \A q \in Records :
        /\ Held(erp[q]) => Held(erp'[q])
        /\ Shows(erp[q], Pics) => Shows(erp'[q], Pics)
        /\ ~overtaken[q] /\ Shows(erp[q], {row[q].pic}) => Shows(erp'[q], {row[q].pic})
  BY <1>1, <1>3, <1>5
<1>7. \A q \in Records : RowOK(q)'
  BY <1>6 DEF IInv, RowOK
<1>8. \A b \in Actors : HeldBy(pass[b]) \subseteq Records
  BY <1>1 DEF HeldBy, Types, Pass
<1>9. \A b \in Actors : \A q \in HeldBy(pass[b]) : Mild(pass[b], q)
  BY <1>6, <1>8 DEF Mild
<1>10. PassOK(pass[a], erp', row', overtaken')
  BY <1>1, <1>9, MildKeeps
<1>11. result = "ok" /\ pass[a].step \in {"image", "wholeImage"} =>
         Shows(erp'[r], Pics) /\ (~overtaken'[r] => Shows(erp'[r], {row'[r].pic}))
  BY <1>3, <1>5
<1>12. P \in Pass /\ PassOK(P, erp', row', overtaken')
  BY <1>1, <1>3, <1>5, <1>10, <1>11, AnswerOK
<1>13. pass' = [pass EXCEPT ![a] = P]
  BY DEF Answer
<1>14. detail' = "filed" => \A q \in Records : Held(erp'[q])
  BY <1>6 DEF IInv
<1> HIDE DEF P
<1> QED
  BY <1>1, <1>5, <1>7, <1>9, <1>12, <1>13, <1>14, PassStep DEF Types

\* The base call.
LEMMA SyncBaseStep ==
    ASSUME IInv, NEW a \in Actors, SyncBase(a)
    PROVE  IInv'
<1>1. /\ pass[a].at \in Records /\ pass[a].step \in {"base", "wholeBase"}
      /\ UNCHANGED <<row, filing, detail, edited, overtaken>>
  BY DEF IInv, Types, SyncBase, Pass
<1>2. PICK result \in {"ok", "failed"} :
        Answer(a, result) /\ UpsertProduct(pass[a].at, NoPic, result # "ok")
  BY DEF SyncBase
<1>3. result \in Results /\ NoPic \in MaybePic
  BY DEF Results, MaybePic
<1> QED
  BY <1>1, <1>2, <1>3, CallStep

\* The picture call pushes what the operation has read, or ends early.
LEMMA SyncImageStep ==
    ASSUME IInv, NEW a \in Actors, SyncImage(a)
    PROVE  IInv'
<1> DEFINE r == pass[a].at
           pic == pass[a].snap[r].pic
<1>1. /\ pass[a] \in Pass /\ PassOK(pass[a], erp, row, overtaken)
      /\ r \in Records /\ pass[a].step \in {"image", "wholeImage"}
      /\ UNCHANGED <<row, filing, detail, edited, overtaken>>
  BY DEF IInv, Types, SyncImage, Pass
<1>2. (~overtaken[r] => pic = row[r].pic) /\ pic \in MaybePic
  <2>1. (~overtaken[r] => pic = row[r].pic) /\ r \in DOMAIN pass[a].snap
    BY <1>1, NoRecordAssumption DEF HeldBy, PassOK
  <2>2. pass[a].snap \in Snapshots
    BY <1>1 DEF Pass
  <2> QED
    BY <2>1, <2>2 DEF Snapshots, Snapshot
<1>3. CASE \E result \in {"noImage", "failed", "retry"} : Answer(a, result) /\ UNCHANGED erp
  <2>1. PICK result \in {"noImage", "failed", "retry"} : Answer(a, result) /\ UNCHANGED erp
    BY <1>3
  <2> DEFINE P == [pass[a] EXCEPT !.result = result]
  <2>2. result \in Results /\ result # "ok"
    BY DEF Results
  <2>3. P \in Pass /\ PassOK(P, erp, row, overtaken)
    BY <1>1, <2>2, NoRecordAssumption, AnswerOK
  <2>4. pass' = [pass EXCEPT ![a] = P]
    BY <2>1 DEF Answer
  <2> QED
    BY <1>1, <2>1, <2>3, <2>4, PassOnly
<1>4. CASE /\ pic # NoPic
           /\ \E result \in {"ok", "failed", "retry"} :
                Answer(a, result) /\ UpsertProduct(r, pic, result # "ok")
  <2>1. PICK result \in {"ok", "failed", "retry"} :
          Answer(a, result) /\ UpsertProduct(r, pic, result # "ok")
    BY <1>4
  <2>2. result \in Results
    BY DEF Results
  <2> HIDE DEF pic
  <2> QED
    BY <1>1, <1>2, <1>4, <2>1, <2>2, CallStep
<1> QED
  BY <1>3, <1>4 DEF SyncImage

\* Writing the outcome new of the operation a to the row it is at.
LEMMA MarkStep ==
    ASSUME IInv, NEW a \in Actors, NEW P \in Pass, NEW new \in Row,
           pass[a].at \in Records, Write(pass[a].at, new),
           pass' = [pass EXCEPT ![a] = P], UNCHANGED <<erp, overtaken>>,
           filing' \in [Records -> Filing], detail' \in Filing,
           \A r \in Records : filing'[r] = "filed" => Held(erp[r]),
           detail' = "filed" => \A r \in Records : Held(erp[r]),
           new.pic = row[pass[a].at].pic,
           new.base = "synced" => Held(erp[pass[a].at]),
           new.image = "synced" =>
             /\ Shows(erp[pass[a].at], Pics)
             /\ ~overtaken[pass[a].at] => Shows(erp[pass[a].at], {new.pic}),
           PassOK(pass[a], erp', row', overtaken') => PassOK(P, erp', row', overtaken')
    PROVE  IInv'
<1> DEFINE r == pass[a].at
<1>1. Types
  BY DEF IInv
<1>2. row' = [row EXCEPT ![r] = new] /\ edited' = [edited EXCEPT ![r] = Older(r)]
  BY DEF Write
<1>3. row' \in [Records -> Row] /\ edited' \in [Records -> {"same", "newer", "older"}]
  BY <1>1, <1>2, OlderType DEF Types
<1>4. row'[r] = new /\ \A q \in Records \ {r} : row'[q] = row[q]
  BY <1>1, <1>2 DEF Types
<1>5. \A q \in Records : row'[q].pic = row[q].pic
  BY <1>4
<1>6. \A q \in Records : RowOK(q)'
  <2> SUFFICES ASSUME NEW q \in Records PROVE RowOK(q)'
    OBVIOUS
  <2>1. CASE q = r
    BY <1>4, <2>1 DEF RowOK
  <2>2. CASE q # r
    BY <1>4, <2>2 DEF IInv, RowOK
  <2> QED
    BY <2>1, <2>2
<1>7. \A b \in Actors : HeldBy(pass[b]) \subseteq Records
  BY <1>1 DEF HeldBy, Types, Pass
<1>8. \A b \in Actors : \A q \in HeldBy(pass[b]) : Mild(pass[b], q)
  BY <1>5, <1>7 DEF Mild
<1>9. PassOK(pass[a], erp', row', overtaken')
  BY <1>8, MildKeeps DEF IInv
<1>10. PassOK(P, erp', row', overtaken')
  BY <1>9
<1> QED
  BY <1>1, <1>3, <1>6, <1>8, <1>10, PassStep DEF Types

\* Stamping a row as checked keeps its picture and its parts.
LEMMA CheckedKeeps ==
    ASSUME NEW old \in Row
    PROVE  /\ Checked(old) \in Row /\ Checked(old).pic = old.pic
           /\ Checked(old).base = old.base /\ Checked(old).image = old.image
BY DEF Checked, Row

\* The base mark and its projection onto the task.
LEMMA MarkBaseStep ==
    ASSUME IInv, NEW a \in Actors, MarkBase(a)
    PROVE  IInv'
<1> DEFINE r == pass[a].at
           result == pass[a].result
           status == IF result = "ok" THEN "synced" ELSE "failed"
           new == [Checked(row[r]) EXCEPT !.erp = status, !.base = status]
<1>1. /\ Types /\ pass[a] \in Pass /\ PassOK(pass[a], erp, row, overtaken)
      /\ r \in Records /\ r # NoRecord /\ pass[a].step = "base" /\ RowOK(r)
  BY DEF IInv, Types, MarkBase, Pass
<1>2. /\ Write(r, new) /\ pass' = [pass EXCEPT ![a] = AfterBase(a)]
      /\ UNCHANGED <<erp, overtaken>>
      /\ filing' = IF result = "ok" THEN [filing EXCEPT ![r] = "filed"] ELSE filing
      /\ detail' = IF result = "ok" THEN FiledDetail ELSE detail
  BY DEF MarkBase
<1>3. result = "ok" => Held(erp[r])
  BY <1>1 DEF PassOK
<1>4. status \in Status /\ (status = "synced" => result = "ok")
  BY DEF Status
<1>5. row[r] \in Row
  BY <1>1 DEF Types
<1> HIDE DEF status, result
<1>6. /\ new \in Row /\ new.pic = row[r].pic /\ new.base = status
      /\ new.image = row[r].image
  BY <1>4, <1>5, CheckedKeeps DEF Row
<1> HIDE DEF new
<1>7. row' = [row EXCEPT ![r] = new]
  BY <1>2 DEF Write
<1>8. \A q \in Records : row'[q].base = "synced" => Held(erp[q])
  BY <1>1, <1>3, <1>4, <1>6, <1>7 DEF IInv, Types, RowOK
<1>9. filing' \in [Records -> Filing] /\ detail' \in Filing
  BY <1>1, <1>2 DEF Types, Filing, FiledDetail
<1>10. \A q \in Records : filing'[q] = "filed" => Held(erp[q])
  BY <1>1, <1>2, <1>3 DEF IInv, Types, RowOK
<1>11. detail' = "filed" => \A q \in Records : Held(erp[q])
  BY <1>2, <1>8 DEF FiledDetail, IInv
<1>12. AfterBase(a) \in Pass
  BY <1>1, AfterBaseOK
<1>13. PassOK(pass[a], erp', row', overtaken') => PassOK(AfterBase(a), erp', row', overtaken')
  BY <1>1, AfterBaseOK
<1>14. new.image = "synced" =>
         /\ Shows(erp[r], Pics)
         /\ ~overtaken[r] => Shows(erp[r], {new.pic})
  BY <1>1, <1>6 DEF RowOK
<1>15. new.base = "synced" => Held(erp[r])
  BY <1>3, <1>4, <1>6
<1> QED
  BY <1>1, <1>2, <1>6, <1>9, <1>10, <1>11, <1>12, <1>13, <1>14, <1>15, MarkStep

\* The picture mark.
LEMMA MarkImageStep ==
    ASSUME IInv, NEW a \in Actors, MarkImage(a)
    PROVE  IInv'
<1> DEFINE r == pass[a].at
           status == Outcome(pass[a].result)
           new == [Checked(row[r]) EXCEPT !.erp = status, !.image = status]
<1>1. /\ Types /\ pass[a] \in Pass /\ PassOK(pass[a], erp, row, overtaken)
      /\ r \in Records /\ r # NoRecord /\ pass[a].step = "image" /\ RowOK(r)
  BY DEF IInv, Types, MarkImage, Pass
<1>2. /\ Write(r, new) /\ pass' = [pass EXCEPT ![a] = Done(a)]
      /\ UNCHANGED <<filing, detail, erp, overtaken>>
  BY DEF MarkImage
<1>3. status \in Status /\ (status = "synced" => pass[a].result = "ok")
  BY DEF Outcome, Status, InFlight
<1>4. row[r] \in Row
  BY <1>1 DEF Types
<1> HIDE DEF status
<1>5. /\ new \in Row /\ new.pic = row[r].pic /\ new.base = row[r].base
      /\ new.image = status
  BY <1>3, <1>4, CheckedKeeps DEF Row
<1> HIDE DEF new
<1>6. new.image = "synced" =>
        /\ Shows(erp[r], Pics)
        /\ ~overtaken[r] => Shows(erp[r], {new.pic})
  BY <1>1, <1>3, <1>5 DEF PassOK
<1>7. new.base = "synced" => Held(erp[r])
  BY <1>1, <1>5 DEF RowOK
<1>8. Done(a) \in Pass
  BY <1>1, DoneOK
<1>9. PassOK(pass[a], erp', row', overtaken') => PassOK(Done(a), erp', row', overtaken')
  BY DoneOK
<1>10. /\ filing' \in [Records -> Filing] /\ detail' \in Filing
       /\ \A q \in Records : filing'[q] = "filed" => Held(erp[q])
       /\ detail' = "filed" => \A q \in Records : Held(erp[q])
  BY <1>1, <1>2 DEF IInv, Types, RowOK
<1> QED
  BY <1>1, <1>2, <1>5, <1>6, <1>7, <1>8, <1>9, <1>10, MarkStep

\* The mark of a whole push.
LEMMA MarkWholeStep ==
    ASSUME IInv, NEW a \in Actors, MarkWhole(a)
    PROVE  IInv'
<1> DEFINE r == pass[a].at
           result == pass[a].result
           withPic == pass[a].snap[r].pic # NoPic
           part == IF result = "ok" THEN "synced" ELSE "failed"
           image == IF result = "ok" /\ ~withPic THEN "waiting_image" ELSE part
           new == [Checked(row[r]) EXCEPT !.erp = part, !.base = part, !.image = image]
<1>1. /\ Types /\ pass[a] \in Pass /\ PassOK(pass[a], erp, row, overtaken)
      /\ r \in Records /\ r # NoRecord /\ RowOK(r)
      /\ \/ pass[a].step = "wholeImage"
         \/ pass[a].step = "wholeBase" /\ ~(result = "ok" /\ withPic)
  BY DEF IInv, Types, MarkWhole, Pass
<1>2. /\ Write(r, new) /\ pass' = [pass EXCEPT ![a] = Done(a)]
      /\ UNCHANGED <<filing, detail, erp, overtaken>>
  BY DEF MarkWhole
<1>3. /\ part \in Status /\ image \in Status
      /\ part = "synced" => result = "ok"
      /\ image = "synced" => result = "ok" /\ pass[a].step = "wholeImage"
  BY <1>1 DEF Status
<1>4. row[r] \in Row
  BY <1>1 DEF Types
<1> HIDE DEF part, image
<1>5. /\ new \in Row /\ new.pic = row[r].pic /\ new.base = part /\ new.image = image
  BY <1>3, <1>4, CheckedKeeps DEF Row
<1> HIDE DEF new
<1>6. new.image = "synced" =>
        /\ Shows(erp[r], Pics)
        /\ ~overtaken[r] => Shows(erp[r], {new.pic})
  BY <1>1, <1>3, <1>5 DEF PassOK
<1>7. new.base = "synced" => Held(erp[r])
  BY <1>1, <1>3, <1>5 DEF PassOK
<1>8. Done(a) \in Pass
  BY <1>1, DoneOK
<1>9. PassOK(pass[a], erp', row', overtaken') => PassOK(Done(a), erp', row', overtaken')
  BY DoneOK
<1>10. /\ filing' \in [Records -> Filing] /\ detail' \in Filing
       /\ \A q \in Records : filing'[q] = "filed" => Held(erp[q])
       /\ detail' = "filed" => \A q \in Records : Held(erp[q])
  BY <1>1, <1>2 DEF IInv, Types, RowOK
<1> QED
  BY <1>1, <1>2, <1>5, <1>6, <1>7, <1>8, <1>9, <1>10, MarkStep

-----------------------------------------------------------------------------
(* The theorems.                                                           *)

\* The initial rows are pending.
LEMMA InitInv == Init => IInv
<1> SUFFICES ASSUME Init PROVE IInv
  OBVIOUS
<1>1. Types
  <2>1. pass \in [Actors -> Pass]
    BY IdleOK DEF Init
  <2>2. row \in [Records -> Row]
    BY DEF Init, Row, Status, InFlight, MaybePic
  <2>3. erp \in [Records -> Product]
    BY DEF Init, MaybePic, Product, Takers
  <2> QED
    BY <2>1, <2>2, <2>3 DEF Init, Types, Filing
<1>2. \A a \in Actors : PassOK(pass[a], erp, row, overtaken)
  BY IdleOK DEF Init
<1>3. \A r \in Records : RowOK(r)
  BY DEF Init, RowOK
<1> QED
  BY <1>1, <1>2, <1>3 DEF IInv, Init

\* Every action keeps the invariant.
LEMMA NextInv == IInv /\ [Next]_vars => IInv'
<1> SUFFICES ASSUME IInv, [Next]_vars PROVE IInv'
  OBVIOUS
<1>1. CASE Request
  BY <1>1, RefreshReadModelStep, QueuePendingStep, RequestSyncStep, SetManualImageStep,
     OpenPageStep, TaskClosedStep, FilingStep DEF Request
<1>2. CASE Step
  BY <1>2, PageStep, CloseRecordStep, ClaimStep, NextRecordStep, SyncBaseStep,
     SyncImageStep, ContinueWholeStep, MarkBaseStep, MarkImageStep, MarkWholeStep,
     MarkLostStep, StopStep, TimeStep DEF Step, WorkerStep, Push, Mark
<1>3. CASE UNCHANGED vars
  <2>1. Types' /\ (\A r \in Records : RowOK(r)')
    BY <1>3 DEF vars, IInv, Types, RowOK
  <2>2. \A a \in Actors : PassOK(pass[a], erp, row, overtaken)'
    BY <1>3 DEF vars, IInv
  <2> QED
    BY <1>3, <2>1, <2>2 DEF vars, IInv
<1> QED
  BY <1>1, <1>2, <1>3 DEF Next

\* The inductive invariant.
LEMMA Inductive == Spec => []IInv
BY InitInv, NextInv, PTL DEF Spec

Bounded == requests \in 0..MaxRequests

\* Every reachable state has its declared shape, for any rows, pictures and
\* operations, and an operation has read every row it still has to do.
THEOREM TypeCorrect == Spec => []TypeOK
<1>1. Init => Bounded
  BY MaxRequestsAssumption DEF Init, Bounded
<1>2. Bounded /\ [Next]_vars => Bounded'
  BY MaxRequestsAssumption DEF Next, vars, Bounded
<1>3. IInv /\ Bounded => TypeOK
  BY DEF IInv, Types, TypeOK, PassOK, Holds, Bounded
<1> QED
  BY <1>1, <1>2, <1>3, Inductive, PTL DEF Spec

\* A synced status stands for something the ERP took or, where the fallback
\* is on, the products table in its stead, for any rows and operations.
THEOREM SyncedWasTakenHolds == Spec => []SyncedWasTaken
<1>1. IInv => SyncedWasTaken
  BY DEF IInv, RowOK, SyncedWasTaken
<1> QED
  BY <1>1, Inductive, PTL

\* A filed SKU, and every SKU of a filed task, was taken in the same sense:
\* with the fallback off, the ERP has it.
THEOREM FiledWasTakenHolds == Spec => []FiledWasTaken
<1>1. IInv => FiledWasTaken
  BY DEF IInv, RowOK, FiledWasTaken
<1> QED
  BY <1>1, Inductive, PTL

\* A row is synced with another picture than the ERP took last only after an
\* operation was overtaken, or where the products table answered the push.
THEOREM SyncedPicIsCurrentHolds == Spec => []SyncedPicIsCurrent
<1>1. IInv => SyncedPicIsCurrent
  BY DEF IInv, RowOK, SyncedPicIsCurrent
<1> QED
  BY <1>1, Inductive, PTL
=============================================================================

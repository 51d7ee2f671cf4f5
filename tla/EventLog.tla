------------------------------ MODULE EventLog ------------------------------
(***************************************************************************)
(* event_logs: transactions number their events per SKU under a row lock   *)
(* on sku_sequences (repo/mysql/db.go, repo/mysql/event.go, workers/       *)
(* sql_helpers.go); the EventDispatcher tails the table by (created_at,    *)
(* id) and publishes to one Redis channel per SKU; SyncStatus serves the   *)
(* clients that saw a gap.                                                 *)
(*                                                                         *)
(* created_at is a DATETIME, so several events share a tick; id is a       *)
(* random UUID, so its order has nothing to do with the sequence.          *)
(***************************************************************************)
EXTENDS Naturals, Sequences, FiniteSets

CONSTANTS
  SKUs,        \* the SKUs
  Writers,     \* concurrent transactions that append events
  Ids,         \* UUIDs, as positive numbers (their order is the id order)
  MaxTime,     \* bound on the clock, in seconds
  BatchLimit,  \* LIMIT of the dispatcher's query (100 in the code)
  MaxFaults,   \* bound on rollbacks, failed publishes and crashes
  NoSKU        \* a writer without a transaction

ASSUME EventLogAssumption ==
  /\ Ids \subseteq Nat \ {0}
  /\ MaxTime \in Nat \ {0}
  /\ BatchLimit \in Nat \ {0}
  /\ MaxFaults \in Nat
  /\ NoSKU \notin SKUs

VARIABLES
  clock,    \* NOW() in whole seconds
  lastSeq,  \* committed sku_sequences.last_sequence
  log,      \* committed rows of event_logs
  tx,       \* each writer's open transaction
  cursor,   \* event_dispatcher:cursor in Redis
  todo,     \* rows of the dispatcher's batch still to be published
  upto,     \* the (created_at, id) the batch ends at; Origin between passes
  channel,  \* sequence numbers published on ws:sku:<id>, in order
  sync,     \* a SyncStatus request: what it has read so far
  faults

vars == <<clock, lastSeq, log, tx, cursor, todo, upto, channel, sync, faults>>

Row == [sku : SKUs, seq : Nat, at : 1..MaxTime, id : Ids]

Origin == [at |-> 0, id |-> 0]

NoTx == [sku |-> NoSKU, next |-> 0, rows |-> {}]

NoSync == [sku |-> NoSKU, since |-> 0, events |-> {}, latest |-> 0]

Init ==
  /\ clock = 1
  /\ lastSeq = [s \in SKUs |-> 0]
  /\ log = {}
  /\ tx = [w \in Writers |-> NoTx]
  /\ cursor = Origin
  /\ todo = {}
  /\ upto = Origin
  /\ channel = [s \in SKUs |-> <<>>]
  /\ sync = NoSync
  /\ faults = 0

-----------------------------------------------------------------------------
(* Writers *)

UsedIds == {r.id : r \in log} \cup {r.id : r \in UNION {tx[w].rows : w \in Writers}}

\* nextSequence holds the FOR UPDATE lock of the SKU's counter until the
\* transaction ends.
Locked(w, s) == \E v \in Writers \ {w} : tx[v].sku = s

\* The transaction's view of last_sequence.
LastSequence(w, s) == IF tx[w].sku = s THEN tx[w].next ELSE lastSeq[s]

\* Mutant: the counter is read without FOR UPDATE.
AppendUnlocked(w, s, i) ==
  /\ tx[w].sku \in {NoSKU, s}
  /\ i \notin UsedIds
  /\ tx' = [tx EXCEPT ![w] =
              [sku  |-> s,
               next |-> LastSequence(w, s) + 1,
               rows |-> tx[w].rows \cup
                        {[sku |-> s, seq |-> LastSequence(w, s) + 1,
                          at |-> clock, id |-> i]}]]
  /\ UNCHANGED <<clock, lastSeq, log, cursor, todo, upto, channel, sync, faults>>

\* Mutant: created_at is rounded up to the next second.
AppendRoundedUp(w, s, i) ==
  /\ tx[w].sku \in {NoSKU, s}
  /\ ~Locked(w, s)
  /\ i \notin UsedIds
  /\ tx' = [tx EXCEPT ![w] =
              [sku  |-> s,
               next |-> LastSequence(w, s) + 1,
               rows |-> tx[w].rows \cup
                        {[sku |-> s, seq |-> LastSequence(w, s) + 1,
                          at |-> clock + 1, id |-> i]}]]
  /\ UNCHANGED <<clock, lastSeq, log, cursor, todo, upto, channel, sync, faults>>

\* EventRepoImpl.Append / workerAppendEvent inside the caller's transaction.
AppendEvent(w, s, i) ==
  /\ tx[w].sku \in {NoSKU, s}
  /\ ~Locked(w, s)
  /\ i \notin UsedIds
  /\ tx' = [tx EXCEPT ![w] =
              [sku  |-> s,
               next |-> LastSequence(w, s) + 1,
               rows |-> tx[w].rows \cup
                        {[sku |-> s, seq |-> LastSequence(w, s) + 1,
                          at |-> clock, id |-> i]}]]
  /\ UNCHANGED <<clock, lastSeq, log, cursor, todo, upto, channel, sync, faults>>

Commit(w) ==
  /\ tx[w].sku # NoSKU
  /\ log' = log \cup tx[w].rows
  /\ lastSeq' = [lastSeq EXCEPT ![tx[w].sku] = tx[w].next]
  /\ tx' = [tx EXCEPT ![w] = NoTx]
  /\ UNCHANGED <<clock, cursor, todo, upto, channel, sync, faults>>

\* Mutant: the counter survives a rollback, as an AUTO_INCREMENT would.
RollbackKeepsCounter(w) ==
  /\ faults < MaxFaults
  /\ tx[w].sku # NoSKU
  /\ lastSeq' = [lastSeq EXCEPT ![tx[w].sku] = tx[w].next]
  /\ tx' = [tx EXCEPT ![w] = NoTx]
  /\ faults' = faults + 1
  /\ UNCHANGED <<clock, log, cursor, todo, upto, channel, sync>>

\* RunInTx: the business write fails, the events vanish with it.
Rollback(w) ==
  /\ faults < MaxFaults
  /\ tx[w].sku # NoSKU
  /\ tx' = [tx EXCEPT ![w] = NoTx]
  /\ faults' = faults + 1
  /\ UNCHANGED <<clock, lastSeq, log, cursor, todo, upto, channel, sync>>

-----------------------------------------------------------------------------
(* EventDispatcher.dispatch *)

Before(p, q) == p.at < q.at \/ (p.at = q.at /\ p.id < q.id)

\* Mutant: the query sees the rows of open transactions (READ UNCOMMITTED).
UndispatchedDirty ==
  {r \in log \cup UNION {tx[w].rows : w \in Writers} : Before(cursor, r)}

\* Mutant: the query leaves out the id, WHERE created_at > cursor.
UndispatchedBySecond == {r \in log : cursor.at < r.at}

\* WHERE created_at > cursor OR (created_at = cursor AND id > cursor_id)
\* ORDER BY created_at, id LIMIT BatchLimit
Undispatched == {r \in log : Before(cursor, r)}

Batch ==
  {r \in Undispatched : Cardinality({q \in Undispatched : Before(q, r)}) < BatchLimit}

\* The row a batch ends at.
IsLast(r, S) == r \in S /\ \A q \in S \ {r} : Before(q, r)

\* Mutant: the cursor is saved as soon as the batch is read.
DispatchSavesFirst ==
  /\ upto = Origin
  /\ todo' = Batch
  /\ \E r \in Batch : IsLast(r, Batch) /\ upto' = [at |-> r.at, id |-> r.id]
  /\ cursor' = upto'
  /\ UNCHANGED <<clock, lastSeq, log, tx, channel, sync, faults>>

Dispatch ==
  /\ upto = Origin
  /\ todo' = Batch
  /\ \E r \in Batch : IsLast(r, Batch) /\ upto' = [at |-> r.at, id |-> r.id]
  /\ UNCHANGED <<clock, lastSeq, log, tx, cursor, channel, sync, faults>>

Publish ==
  \E r \in todo :
    /\ \A q \in todo \ {r} : Before(r, q)
    /\ channel' = [channel EXCEPT ![r.sku] = Append(@, r.seq)]
    /\ todo' = todo \ {r}
    /\ UNCHANGED <<clock, lastSeq, log, tx, cursor, upto, sync, faults>>

SaveCursor ==
  /\ upto # Origin
  /\ todo = {}
  /\ cursor' = upto
  /\ upto' = Origin
  /\ UNCHANGED <<clock, lastSeq, log, tx, todo, channel, sync, faults>>

\* A publish or the cursor's SET fails, or the process dies: the pass ends and
\* the next one starts from the saved cursor.
DispatchFails ==
  /\ faults < MaxFaults
  /\ upto # Origin
  /\ todo' = {}
  /\ upto' = Origin
  /\ faults' = faults + 1
  /\ UNCHANGED <<clock, lastSeq, log, tx, cursor, channel, sync>>

DispatcherStep == Dispatch \/ Publish \/ SaveCursor

-----------------------------------------------------------------------------
(* skuService.SyncStatus: ListSince and GetLatestSequence are two reads *)

SequencesOf(s) == {r.seq : r \in {q \in log : q.sku = s}}

ListSince(s, since) ==
  /\ sync = NoSync
  /\ sync' = [sku |-> s, since |-> since,
              events |-> {n \in SequencesOf(s) : n > since}, latest |-> 0]
  /\ UNCHANGED <<clock, lastSeq, log, tx, cursor, todo, upto, channel, faults>>

GetLatestSequence ==
  /\ sync.sku # NoSKU
  /\ sync.latest = 0
  /\ \E n \in SequencesOf(sync.sku) :
       /\ \A m \in SequencesOf(sync.sku) : m <= n
       /\ sync' = [sync EXCEPT !.latest = n]
  /\ UNCHANGED <<clock, lastSeq, log, tx, cursor, todo, upto, channel, faults>>

\* The response reaches the client and the request is over.
SyncReturns ==
  /\ sync.sku # NoSKU
  /\ sync.latest # 0 \/ SequencesOf(sync.sku) = {}
  /\ sync' = NoSync
  /\ UNCHANGED <<clock, lastSeq, log, tx, cursor, todo, upto, channel, faults>>

-----------------------------------------------------------------------------
Tick ==
  /\ clock < MaxTime
  /\ clock' = clock + 1
  /\ UNCHANGED <<lastSeq, log, tx, cursor, todo, upto, channel, sync, faults>>

Next ==
  \/ \E w \in Writers, s \in SKUs, i \in Ids : AppendEvent(w, s, i)
  \/ \E w \in Writers : Commit(w) \/ Rollback(w)
  \/ DispatcherStep
  \/ DispatchFails
  \/ \E s \in SKUs, since \in {0} \cup UNION {SequencesOf(t) : t \in SKUs} : ListSince(s, since)
  \/ GetLatestSequence
  \/ SyncReturns
  \/ Tick

Spec == Init /\ [][Next]_vars

\* The dispatcher's ticker fires for as long as the process lives, and is
\* started again with it.
FairSpec == Spec /\ WF_vars(DispatcherStep)

-----------------------------------------------------------------------------
(* Properties *)

\* Every variable keeps the shape the tables, the Redis cursor and the response
\* of SyncStatus give it.
TypeOK ==
  /\ clock \in 1..MaxTime
  /\ lastSeq \in [SKUs -> Nat]
  /\ log \subseteq Row
  /\ tx \in [Writers -> [sku : SKUs \cup {NoSKU}, next : Nat, rows : SUBSET Row]]
  /\ cursor \in [at : 0..MaxTime, id : Ids \cup {0}]
  /\ todo \subseteq Row
  /\ upto \in [at : 0..MaxTime, id : Ids \cup {0}]
  /\ channel \in [SKUs -> Seq(Nat)]
  /\ sync \in [sku : SKUs \cup {NoSKU}, since : Nat, events : SUBSET Nat, latest : Nat]
  /\ faults \in 0..MaxFaults

\* What gap detection rests on: the committed events of a SKU are numbered
\* 1..last_sequence without a hole and without a duplicate, whatever concurrent
\* transactions append, commit or roll back (UNIQUE(sku_id, sequence) is never
\* the one to catch them).
SequencesAreDense ==
  /\ \A s \in SKUs : SequencesOf(s) = 1..lastSeq[s]
  /\ \A p, q \in log : (p.sku = q.sku /\ p.seq = q.seq) => p = q

\* The lock makes created_at follow the sequence within a SKU: a later event
\* never carries an earlier second.
TimeFollowsSequence ==
  \A p, q \in log : (p.sku = q.sku /\ p.seq < q.seq) => p.at <= q.at

\* A SyncStatus answer has no hole after the client's sequence, and never
\* reports a latest_sequence behind the events it carries.
RecoveryHasNoHole ==
  /\ \A n \in sync.events : \A m \in (sync.since + 1)..n : m \in sync.events
  /\ sync.latest # 0 => \A n \in sync.events : n <= sync.latest

\* The row that carries number n of SKU s.
Entry(s, n) == CHOOSE r \in log : r.sku = s /\ r.seq = n

Stream == [s \in SKUs |-> [n \in 1..lastSeq[s] |-> Entry(s, n)]]

\* The transactions, their locks and rollbacks, the dispatcher's passes and the two
\* reads of SyncStatus come to one append-only stream per SKU: a committed event
\* is never changed, moved or overtaken, nothing is published before its
\* transaction commits, and a recovery answer is a section of the stream.
StreamSpec == INSTANCE EventStream WITH stream <- Stream, answer <- sync

ImplementsEventStream == StreamSpec!Spec

\* How far the dispatcher has read.
Reached == IF upto = Origin THEN cursor ELSE upto

IsPublished(r) == \E k \in DOMAIN channel[r.sku] : channel[r.sku][k] = r.seq

OnItsWay(r) == Before(Reached, r) \/ r \in todo \/ IsPublished(r)

\* What is left of "events reach the websocket clients" when transactions commit
\* in another order than their events were created: an event is missed only if
\* its transaction commits after the dispatcher has read past its created_at.
\* No batch limit, failing pass or restart loses another one.
EventsAreMissedOnlyLate ==
  [][\A r \in log' :
       ~OnItsWay(r)' => \/ r \in log /\ ~OnItsWay(r)
                        \/ r \notin log /\ ~Before(Reached, r)]_vars

\* What is left of "in chronological order": as long as no pass fails, an event
\* is published once, and two events of a SKU change places only within one
\* second.
PublishedInOrder ==
  \A s \in SKUs : \A k, l \in DOMAIN channel[s] : k < l =>
    LET p == Entry(s, channel[s][k])
        q == Entry(s, channel[s][l])
    IN  Before(p, q) /\ (q.seq < p.seq => q.at = p.at)

\* An event the dispatcher read is published, even when passes fail or the
\* process restarts half-way: the cursor moves only after the whole batch.
ReadEventsArePublished ==
  \A s \in SKUs, n \in 1..Cardinality(Ids) :
    (\E r \in todo : r.sku = s /\ r.seq = n)
      ~> (\E k \in DOMAIN channel[s] : channel[s][k] = n)
=============================================================================

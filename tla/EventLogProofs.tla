--------------------------- MODULE EventLogProofs ---------------------------
(* Proofs about EventLog, for every number of SKUs, writers and events. *)
EXTENDS EventLog, FiniteSetTheorems, TLAPS

-----------------------------------------------------------------------------
(* Types *)

\* The state the server starts in has the declared shape.
LEMMA InitTypeOK == Init => TypeOK
  BY EventLogAssumption
     DEF Init, TypeOK, NoTx, NoSync, Origin, Row

\* The row an append adds is a row of event_logs, and so is everything a
\* transaction buffers.
LEMMA AppendTypeOK ==
  ASSUME TypeOK, NEW w \in Writers, NEW s \in SKUs, NEW i \in Ids, AppendEvent(w, s, i)
  PROVE  TypeOK'
  <1>1. LastSequence(w, s) \in Nat
    BY DEF TypeOK, LastSequence
  <1> DEFINE row == [sku |-> s, seq |-> LastSequence(w, s) + 1, at |-> clock, id |-> i]
  <1>2. row \in Row
    BY <1>1 DEF TypeOK, Row
  <1>3. tx[w].rows \in SUBSET Row
    BY DEF TypeOK
  <1> DEFINE new == [sku |-> s, next |-> LastSequence(w, s) + 1, rows |-> tx[w].rows \cup {row}]
  <1>4. new \in [sku : SKUs \cup {NoSKU}, next : Nat, rows : SUBSET Row]
    BY <1>1, <1>2, <1>3
  <1>5. tx' = [tx EXCEPT ![w] = new]
    BY DEF AppendEvent
  <1> HIDE DEF new
  <1>6. tx' \in [Writers -> [sku : SKUs \cup {NoSKU}, next : Nat, rows : SUBSET Row]]
    BY <1>4, <1>5 DEF TypeOK
  <1> QED
    BY <1>6 DEF TypeOK, AppendEvent

\* Every step of a writer, the dispatcher, a recovery request or the clock
\* keeps the declared shape.
LEMMA NextTypeOK == TypeOK /\ [Next]_vars => TypeOK'
  <1> SUFFICES ASSUME TypeOK, [Next]_vars PROVE TypeOK'
    OBVIOUS
  <1> USE EventLogAssumption
  <1>1. ASSUME NEW w \in Writers, NEW s \in SKUs, NEW i \in Ids, AppendEvent(w, s, i)
        PROVE  TypeOK'
    BY <1>1, AppendTypeOK
  <1>2. ASSUME NEW w \in Writers, Commit(w)
        PROVE  TypeOK'
    <2>1. tx[w].sku \in SKUs /\ tx[w].next \in Nat /\ tx[w].rows \subseteq Row
      BY <1>2 DEF TypeOK, Commit
    <2>2. NoTx \in [sku : SKUs \cup {NoSKU}, next : Nat, rows : SUBSET Row]
      BY DEF NoTx
    <2> QED
      BY <1>2, <2>1, <2>2 DEF TypeOK, Commit
  <1>3. ASSUME NEW w \in Writers, Rollback(w)
        PROVE  TypeOK'
    <2>1. NoTx \in [sku : SKUs \cup {NoSKU}, next : Nat, rows : SUBSET Row]
      BY DEF NoTx
    <2> QED
      BY <1>3, <2>1 DEF TypeOK, Rollback
  <1>4. CASE Dispatch
    <2>1. Batch \subseteq Row
      BY DEF TypeOK, Batch, Undispatched
    <2>2. upto' \in [at : 0..MaxTime, id : Ids \cup {0}]
      BY <1>4, <2>1 DEF Dispatch, Row
    <2> QED
      BY <1>4, <2>1, <2>2 DEF TypeOK, Dispatch
  <1>5. CASE Publish
    <2>1. PICK r \in todo : /\ channel' = [channel EXCEPT ![r.sku] = Append(@, r.seq)]
                            /\ todo' = todo \ {r}
                            /\ UNCHANGED <<clock, lastSeq, log, tx, cursor, upto, sync, faults>>
      BY <1>5 DEF Publish
    <2>2. r.sku \in SKUs /\ r.seq \in Nat
      BY DEF TypeOK, Row
    <2>3. Append(channel[r.sku], r.seq) \in Seq(Nat)
      BY <2>2 DEF TypeOK
    <2> QED
      BY <2>1, <2>2, <2>3 DEF TypeOK
  <1>6. CASE SaveCursor
    BY <1>6 DEF TypeOK, SaveCursor, Origin
  <1>7. CASE DispatchFails
    BY <1>7 DEF TypeOK, DispatchFails, Origin
  <1>8. ASSUME NEW s \in SKUs, NEW since \in {0} \cup UNION {SequencesOf(t) : t \in SKUs},
               ListSince(s, since)
        PROVE  TypeOK'
    <2>1. \A t \in SKUs : SequencesOf(t) \subseteq Nat
      BY DEF TypeOK, SequencesOf, Row
    <2>2. since \in Nat
      BY <2>1
    <2> QED
      BY <1>8, <2>1, <2>2 DEF TypeOK, ListSince
  <1>9. CASE GetLatestSequence
    <2>1. SequencesOf(sync.sku) \subseteq Nat
      BY DEF TypeOK, SequencesOf, Row
    <2> QED
      BY <1>9, <2>1 DEF TypeOK, GetLatestSequence
  <1>10. CASE SyncReturns
    BY <1>10 DEF TypeOK, SyncReturns, NoSync
  <1>11. CASE Tick
    BY <1>11 DEF TypeOK, Tick
  <1>12. CASE UNCHANGED vars
    BY <1>12 DEF TypeOK, vars
  <1> QED
    BY <1>1, <1>2, <1>3, <1>4, <1>5, <1>6, <1>7, <1>8, <1>9, <1>10, <1>11, <1>12
       DEF Next, DispatcherStep

\* Every reachable state has the declared shape.
THEOREM TypeCorrect == Spec => []TypeOK
  BY InitTypeOK, NextTypeOK, PTL DEF Spec

-----------------------------------------------------------------------------
(* The numbering *)

\* The committed rows of each SKU carry 1..last_sequence, once each, none later
\* than now and in the order of their numbers.
LogIsSound ==
  /\ \A r \in log : r.seq \in 1..lastSeq[r.sku] /\ r.at <= clock
  /\ \A s \in SKUs : \A n \in 1..lastSeq[s] : \E r \in log : r.sku = s /\ r.seq = n
  /\ \A p, q \in log : (p.sku = q.sku /\ p.seq = q.seq) => p = q
  /\ \A p, q \in log : (p.sku = q.sku /\ p.seq < q.seq) => p.at <= q.at

\* The rows a transaction buffers continue the committed numbering of its SKU,
\* whose counter no other transaction holds.
RowsContinue(s, t) ==
  /\ t.next \in Nat /\ t.next >= lastSeq[s]
  /\ \A r \in t.rows : /\ r.sku = s
                       /\ r.seq \in (lastSeq[s] + 1)..t.next
                       /\ r.at <= clock
  /\ \A n \in (lastSeq[s] + 1)..t.next : \E r \in t.rows : r.seq = n
  /\ \A p, q \in t.rows : p.seq = q.seq => p = q
  /\ \A p, q \in t.rows : p.seq < q.seq => p.at <= q.at
  /\ \A p \in log, q \in t.rows : p.sku = s => p.at <= q.at

TxIsSound ==
  \A w \in Writers :
    /\ tx[w].sku = NoSKU => tx[w] = NoTx
    /\ tx[w].sku # NoSKU => /\ \A v \in Writers \ {w} : tx[v].sku # tx[w].sku
                            /\ RowsContinue(tx[w].sku, tx[w])

NumberingInv == LogIsSound /\ TxIsSound

\* The invariant holds of empty tables.
LEMMA InitNumbering == Init => NumberingInv
  BY EventLogAssumption DEF Init, NumberingInv, LogIsSound, TxIsSound, NoTx

\* It only speaks of the clock, the counters, the table and the transactions.
LEMMA NumberingFrame ==
  ASSUME NumberingInv, UNCHANGED <<clock, lastSeq, log, tx>>
  PROVE  NumberingInv'
  <1>1. LogIsSound'
    BY DEF NumberingInv, LogIsSound
  <1>2. \A s, t : RowsContinue(s, t) => RowsContinue(s, t)'
    BY DEF RowsContinue
  <1>3. \A w \in Writers : RowsContinue(tx[w].sku, tx[w]) => RowsContinue(tx[w].sku, tx[w])'
    BY <1>2
  <1>4. TxIsSound'
    BY <1>3 DEF NumberingInv, TxIsSound, NoTx
  <1> QED
    BY <1>1, <1>4 DEF NumberingInv

\* An append under the counter's lock continues the numbering.
LEMMA AppendNumbering ==
  ASSUME TypeOK, NumberingInv,
         NEW w \in Writers, NEW s \in SKUs, NEW i \in Ids, AppendEvent(w, s, i)
  PROVE  NumberingInv'
  <1> DEFINE last == LastSequence(w, s)
             row  == [sku |-> s, seq |-> last + 1, at |-> clock, id |-> i]
             new  == [sku |-> s, next |-> last + 1, rows |-> tx[w].rows \cup {row}]
  <1>1. /\ tx' = [tx EXCEPT ![w] = new]
        /\ UNCHANGED <<clock, lastSeq, log>>
        /\ tx[w].sku \in {NoSKU, s}
        /\ \A v \in Writers \ {w} : tx[v].sku # s
    BY DEF AppendEvent, Locked
  <1>2. /\ s # NoSKU
        /\ clock \in Nat /\ lastSeq[s] \in Nat
        /\ \A r \in tx[w].rows : r.seq \in Nat /\ r.at \in Nat
        /\ \A r \in log : r.seq \in Nat /\ r.at \in Nat
    BY EventLogAssumption DEF TypeOK, Row
  <1>3. RowsContinue(s, [sku |-> s, next |-> last, rows |-> tx[w].rows])
    <2>1. CASE tx[w].sku = NoSKU
      <3>1. tx[w].rows = {} /\ last = lastSeq[s]
        BY <2>1, <1>2 DEF NumberingInv, TxIsSound, NoTx, LastSequence
      <3> QED
        BY <3>1, <1>2 DEF RowsContinue
    <2>2. CASE tx[w].sku = s
      <3>1. last = tx[w].next /\ RowsContinue(s, tx[w])
        BY <2>2, <1>2 DEF NumberingInv, TxIsSound, LastSequence
      <3> QED
        BY <3>1 DEF RowsContinue
    <2> QED
      BY <2>1, <2>2, <1>1
  <1>4. last \in Nat
    BY <1>3 DEF RowsContinue
  <1>5. RowsContinue(s, new)
    <2> HIDE DEF last
    <2> USE <1>2, <1>4
    <2>1. /\ last >= lastSeq[s]
          /\ \A r \in tx[w].rows : /\ r.sku = s
                                   /\ r.seq \in (lastSeq[s] + 1)..last
                                   /\ r.at <= clock
          /\ \A n \in (lastSeq[s] + 1)..last : \E r \in tx[w].rows : r.seq = n
          /\ \A p, q \in tx[w].rows : p.seq = q.seq => p = q
          /\ \A p, q \in tx[w].rows : p.seq < q.seq => p.at <= q.at
          /\ \A p \in log, q \in tx[w].rows : p.sku = s => p.at <= q.at
      BY <1>3 DEF RowsContinue
    <2>2. /\ row.sku = s /\ row.seq = last + 1 /\ row.at = clock
          /\ new.next = last + 1 /\ new.rows = tx[w].rows \cup {row}
      OBVIOUS
    <2> HIDE DEF row, new
    <2>3. \A r \in new.rows : r.sku = s /\ r.seq \in (lastSeq[s] + 1)..new.next /\ r.at <= clock
      BY <2>1, <2>2
    <2>4. \A n \in (lastSeq[s] + 1)..new.next : \E r \in new.rows : r.seq = n
      <3> SUFFICES ASSUME NEW n \in (lastSeq[s] + 1)..new.next
                   PROVE  \E r \in new.rows : r.seq = n
        OBVIOUS
      <3>1. CASE n = last + 1
        BY <3>1, <2>2
      <3>2. CASE n # last + 1
        <4>1. n \in (lastSeq[s] + 1)..last
          BY <3>2, <2>2
        <4> QED
          BY <4>1, <2>1, <2>2
      <3> QED
        BY <3>1, <3>2
    <2>5. \A p, q \in new.rows : p.seq = q.seq => p = q
      BY <2>1, <2>2
    <2>6. \A p, q \in new.rows : p.seq < q.seq => p.at <= q.at
      BY <2>1, <2>2
    <2>7. \A p \in log, q \in new.rows : p.sku = s => p.at <= q.at
      <3>1. \A p \in log : p.at <= clock
        BY DEF NumberingInv, LogIsSound
      <3> QED
        BY <3>1, <2>1, <2>2
    <2> QED
      BY <2>1, <2>2, <2>3, <2>4, <2>5, <2>6, <2>7 DEF RowsContinue
  <1>6. LogIsSound'
    BY <1>1 DEF NumberingInv, LogIsSound
  <1>7. TxIsSound'
    <2>1. tx'[w] = new /\ \A v \in Writers \ {w} : tx'[v] = tx[v]
      BY <1>1 DEF TypeOK
    <2>2. new.sku = s
      OBVIOUS
    <2>3. \A k, t : RowsContinue(k, t) => RowsContinue(k, t)'
      BY <1>1 DEF RowsContinue
    <2>4. RowsContinue(tx[w].sku, tx[w])'
      BY <2>3, <1>5, <2>1, <2>2
    <2> HIDE DEF new
    <2>5. ASSUME NEW v \in Writers \ {w}, tx[v].sku # NoSKU
          PROVE  /\ \A u \in Writers \ {v} : tx'[u].sku # tx'[v].sku
                 /\ RowsContinue(tx[v].sku, tx[v])'
      <3>1. RowsContinue(tx[v].sku, tx[v]) /\ \A u \in Writers \ {v} : tx[u].sku # tx[v].sku
        BY <2>5 DEF NumberingInv, TxIsSound
      <3>2. RowsContinue(tx[v].sku, tx[v])'
        BY <3>1, <2>1, <2>3
      <3> QED
        BY <3>1, <3>2, <2>1, <2>2, <1>1
    <2>6. ASSUME NEW v \in Writers \ {w}, tx[v].sku = NoSKU
          PROVE  tx'[v] = NoTx
      BY <2>6, <2>1 DEF NumberingInv, TxIsSound
    <2>7. \A u \in Writers \ {w} : tx'[u].sku # tx'[w].sku
      BY <2>1, <2>2, <1>1
    <2> QED
      BY <2>1, <2>2, <2>4, <2>5, <2>6, <2>7, <1>2 DEF TxIsSound, NoTx
  <1> QED
    BY <1>6, <1>7 DEF NumberingInv

\* A commit appends the buffered rows to the committed ones; the lock keeps the
\* other transactions on other SKUs.
LEMMA CommitNumbering ==
  ASSUME TypeOK, NumberingInv, NEW w \in Writers, Commit(w)
  PROVE  NumberingInv'
  <1>1. PICK s \in SKUs : s = tx[w].sku
    BY DEF TypeOK, Commit
  <1>2. PICK t : t = tx[w]
    OBVIOUS
  <1>3. /\ t.sku = s
        /\ log' = log \cup t.rows
        /\ lastSeq' = [lastSeq EXCEPT ![s] = t.next]
        /\ tx' = [tx EXCEPT ![w] = NoTx]
        /\ clock' = clock
    BY <1>1, <1>2 DEF Commit
  <1>4. s # NoSKU /\ lastSeq[s] \in Nat /\ clock \in Nat /\ t.next \in Nat
    BY <1>2, EventLogAssumption DEF TypeOK
  <1>5. /\ RowsContinue(s, t)
        /\ \A v \in Writers \ {w} : tx[v].sku # s
    BY <1>1, <1>2, <1>4 DEF NumberingInv, TxIsSound
  <1>6. /\ \A r \in log : r.sku \in SKUs /\ r.seq \in Nat /\ r.at \in Nat
        /\ \A r \in t.rows : r.sku \in SKUs /\ r.seq \in Nat /\ r.at \in Nat
    BY <1>2 DEF TypeOK, Row
  <1>7. /\ lastSeq' \in [SKUs -> Nat]
        /\ lastSeq'[s] = t.next
        /\ \A k \in SKUs \ {s} : lastSeq'[k] = lastSeq[k]
        /\ t.next >= lastSeq[s]
    BY <1>3, <1>4, <1>5 DEF TypeOK, RowsContinue
  <1>8. /\ \A r \in log : r.seq \in 1..lastSeq[r.sku] /\ r.at <= clock
        /\ \A k \in SKUs : \A n \in 1..lastSeq[k] : \E r \in log : r.sku = k /\ r.seq = n
        /\ \A p, q \in log : (p.sku = q.sku /\ p.seq = q.seq) => p = q
        /\ \A p, q \in log : (p.sku = q.sku /\ p.seq < q.seq) => p.at <= q.at
    BY DEF NumberingInv, LogIsSound
  <1>9. /\ \A r \in t.rows : /\ r.sku = s
                             /\ r.seq \in (lastSeq[s] + 1)..t.next
                             /\ r.at <= clock
        /\ \A n \in (lastSeq[s] + 1)..t.next : \E r \in t.rows : r.seq = n
        /\ \A p, q \in t.rows : p.seq = q.seq => p = q
        /\ \A p, q \in t.rows : p.seq < q.seq => p.at <= q.at
        /\ \A p \in log, q \in t.rows : p.sku = s => p.at <= q.at
    BY <1>5 DEF RowsContinue
  <1>10. \A p \in log, q \in t.rows : p.sku = s => p.seq < q.seq
    BY <1>8, <1>9, <1>4, <1>6
  <1>11. LogIsSound'
    <2>1. \A r \in log' : r.seq \in 1..lastSeq'[r.sku] /\ r.at <= clock'
      <3>1. \A r \in log : r.seq \in 1..lastSeq'[r.sku] /\ r.at <= clock
        <4> SUFFICES ASSUME NEW r \in log PROVE r.seq \in 1..lastSeq'[r.sku] /\ r.at <= clock
          OBVIOUS
        <4>1. r.seq \in 1..lastSeq[r.sku] /\ r.at <= clock /\ r.sku \in SKUs
          BY <1>8, <1>6
        <4>2. CASE r.sku = s
          BY <4>1, <4>2, <1>7, <1>4
        <4>3. CASE r.sku # s
          BY <4>1, <4>3, <1>7
        <4> QED
          BY <4>2, <4>3
      <3>2. \A r \in t.rows : r.seq \in 1..lastSeq'[r.sku] /\ r.at <= clock
        BY <1>9, <1>7, <1>4
      <3> QED
        BY <3>1, <3>2, <1>3
    <2>2. \A k \in SKUs : \A n \in 1..lastSeq'[k] : \E r \in log' : r.sku = k /\ r.seq = n
      <3> SUFFICES ASSUME NEW k \in SKUs, NEW n \in 1..lastSeq'[k]
                   PROVE  \E r \in log' : r.sku = k /\ r.seq = n
        OBVIOUS
      <3>1. CASE k = s /\ n > lastSeq[s]
        <4>1. n \in (lastSeq[s] + 1)..t.next
          BY <3>1, <1>4, <1>7
        <4> QED
          BY <4>1, <3>1, <1>9, <1>3
      <3>2. CASE ~(k = s /\ n > lastSeq[s])
        <4>1. n \in 1..lastSeq[k]
          BY <3>2, <1>4, <1>7
        <4> QED
          BY <4>1, <1>8, <1>3
      <3> QED
        BY <3>1, <3>2
    <2>3. \A p, q \in log' : (p.sku = q.sku /\ p.seq = q.seq) => p = q
      BY <1>8, <1>9, <1>10, <1>3, <1>6
    <2>4. \A p, q \in log' : (p.sku = q.sku /\ p.seq < q.seq) => p.at <= q.at
      BY <1>8, <1>9, <1>10, <1>3, <1>6
    <2> QED
      BY <2>1, <2>2, <2>3, <2>4 DEF LogIsSound
  <1>12. TxIsSound'
    <2>1. tx'[w] = NoTx /\ \A v \in Writers \ {w} : tx'[v] = tx[v]
      BY <1>3 DEF TypeOK
    <2>2. ASSUME NEW v \in Writers \ {w}, tx[v].sku # NoSKU
          PROVE  RowsContinue(tx[v].sku, tx[v])'
      <3>1. PICK k \in SKUs : k = tx[v].sku
        BY <2>2 DEF TypeOK
      <3>2. PICK u : u = tx[v]
        OBVIOUS
      <3>3. k # s /\ RowsContinue(k, u)
        BY <3>1, <3>2, <2>2, <1>5 DEF NumberingInv, TxIsSound
      <3>4. lastSeq'[k] = lastSeq[k] /\ clock' = clock
        BY <3>3, <1>7, <1>3
      <3>5. \A p \in log', q \in u.rows : p.sku = k => p.at <= q.at
        BY <3>3, <1>3, <1>9 DEF RowsContinue
      <3>6. RowsContinue(k, u)'
        BY <3>3, <3>4, <3>5 DEF RowsContinue
      <3> QED
        BY <3>6, <3>1, <3>2, <2>1
    <2>3. NoTx.sku = NoSKU
      BY DEF NoTx
    <2>4. ASSUME NEW v \in Writers \ {w}
          PROVE  /\ tx'[v].sku = NoSKU => tx'[v] = NoTx
                 /\ tx'[v].sku # NoSKU => \A u \in Writers \ {v} : tx'[u].sku # tx'[v].sku
      BY <2>1, <2>3 DEF NumberingInv, TxIsSound
    <2> QED
      BY <2>1, <2>2, <2>3, <2>4 DEF TxIsSound, NoTx
  <1> QED
    BY <1>11, <1>12 DEF NumberingInv

\* A rollback forgets the buffered rows and the uncommitted counter with them.
LEMMA RollbackNumbering ==
  ASSUME TypeOK, NumberingInv, NEW w \in Writers, Rollback(w)
  PROVE  NumberingInv'
  <1>1. /\ UNCHANGED <<clock, lastSeq, log>>
        /\ tx'[w] = NoTx /\ \A v \in Writers \ {w} : tx'[v] = tx[v]
    BY DEF Rollback, TypeOK
  <1>2. LogIsSound'
    BY <1>1 DEF NumberingInv, LogIsSound
  <1>3. \A k, t : RowsContinue(k, t) => RowsContinue(k, t)'
    BY <1>1 DEF RowsContinue
  <1>4. NoTx.sku = NoSKU
    BY DEF NoTx
  <1>5. ASSUME NEW v \in Writers \ {w}
        PROVE  /\ tx'[v].sku = NoSKU => tx'[v] = NoTx
               /\ tx'[v].sku # NoSKU => \A u \in Writers \ {v} : tx'[u].sku # tx'[v].sku
               /\ tx'[v].sku # NoSKU => RowsContinue(tx[v].sku, tx[v])'
    BY <1>1, <1>3, <1>4 DEF NumberingInv, TxIsSound
  <1>6. TxIsSound'
    BY <1>1, <1>4, <1>5 DEF TxIsSound, NoTx
  <1> QED
    BY <1>2, <1>6 DEF NumberingInv

\* Time passes: what was not later than now still is not.
LEMMA TickNumbering ==
  ASSUME TypeOK, NumberingInv, Tick
  PROVE  NumberingInv'
  <1>1. UNCHANGED <<lastSeq, log, tx>> /\ clock' = clock + 1 /\ clock \in Nat
    BY EventLogAssumption DEF Tick, TypeOK
  <1>2. \A r \in Row : r.at \in Nat
    BY EventLogAssumption DEF Row
  <1>3. LogIsSound'
    BY <1>1, <1>2 DEF NumberingInv, LogIsSound, TypeOK
  <1>4. \A k : \A t \in [sku : SKUs \cup {NoSKU}, next : Nat, rows : SUBSET Row] :
          RowsContinue(k, t) => RowsContinue(k, t)'
    BY <1>1, <1>2 DEF RowsContinue
  <1>5. \A w \in Writers : RowsContinue(tx[w].sku, tx[w]) => RowsContinue(tx[w].sku, tx[w])'
    BY <1>1, <1>4 DEF TypeOK
  <1>6. TxIsSound'
    BY <1>1, <1>5 DEF NumberingInv, TxIsSound, NoTx
  <1> QED
    BY <1>3, <1>6 DEF NumberingInv

\* Only the writers and the clock touch what the invariant speaks of.
LEMMA NextNumbering == TypeOK /\ NumberingInv /\ [Next]_vars => NumberingInv'
  <1> SUFFICES ASSUME TypeOK, NumberingInv, [Next]_vars PROVE NumberingInv'
    OBVIOUS
  <1>1. ASSUME NEW w \in Writers, NEW s \in SKUs, NEW i \in Ids, AppendEvent(w, s, i)
        PROVE  NumberingInv'
    BY <1>1, AppendNumbering
  <1>2. ASSUME NEW w \in Writers, Commit(w) PROVE NumberingInv'
    BY <1>2, CommitNumbering
  <1>3. ASSUME NEW w \in Writers, Rollback(w) PROVE NumberingInv'
    BY <1>3, RollbackNumbering
  <1>4. CASE Tick
    BY <1>4, TickNumbering
  <1>5. CASE DispatcherStep \/ DispatchFails
    BY <1>5, NumberingFrame DEF DispatcherStep, Dispatch, Publish, SaveCursor, DispatchFails
  <1>6. ASSUME NEW s \in SKUs, NEW since \in {0} \cup UNION {SequencesOf(t) : t \in SKUs},
               ListSince(s, since)
        PROVE  NumberingInv'
    BY <1>6, NumberingFrame DEF ListSince
  <1>7. CASE GetLatestSequence \/ SyncReturns
    BY <1>7, NumberingFrame DEF GetLatestSequence, SyncReturns
  <1>8. CASE UNCHANGED vars
    BY <1>8, NumberingFrame DEF vars
  <1> QED
    BY <1>1, <1>2, <1>3, <1>4, <1>5, <1>6, <1>7, <1>8 DEF Next

\* The invariant says what gap detection needs.
LEMMA NumberingIsDense == TypeOK /\ NumberingInv => SequencesAreDense /\ TimeFollowsSequence
  <1> SUFFICES ASSUME TypeOK, NumberingInv PROVE SequencesAreDense /\ TimeFollowsSequence
    OBVIOUS
  <1>1. ASSUME NEW s \in SKUs PROVE SequencesOf(s) = 1..lastSeq[s]
    <2>1. SequencesOf(s) \subseteq 1..lastSeq[s]
      BY DEF NumberingInv, LogIsSound, SequencesOf
    <2>2. 1..lastSeq[s] \subseteq SequencesOf(s)
      BY DEF NumberingInv, LogIsSound, SequencesOf
    <2> QED
      BY <2>1, <2>2
  <1> QED
    BY <1>1 DEF NumberingInv, LogIsSound, SequencesAreDense, TimeFollowsSequence

\* Whatever transactions interleave, commit or roll back, the committed events
\* of a SKU are numbered 1..last_sequence without a hole or a duplicate.
THEOREM SequencesAreDenseHolds == Spec => []SequencesAreDense
  <1>1. Init => TypeOK /\ NumberingInv
    BY InitTypeOK, InitNumbering
  <1>2. TypeOK /\ NumberingInv /\ [Next]_vars => (TypeOK /\ NumberingInv)'
    BY NextTypeOK, NextNumbering
  <1> QED
    BY <1>1, <1>2, NumberingIsDense, PTL DEF Spec

\* created_at follows the sequence within a SKU.
THEOREM TimeFollowsSequenceHolds == Spec => []TimeFollowsSequence
  <1>1. Init => TypeOK /\ NumberingInv
    BY InitTypeOK, InitNumbering
  <1>2. TypeOK /\ NumberingInv /\ [Next]_vars => (TypeOK /\ NumberingInv)'
    BY NextTypeOK, NextNumbering
  <1> QED
    BY <1>1, <1>2, NumberingIsDense, PTL DEF Spec

-----------------------------------------------------------------------------
(* Gap recovery *)

\* What ListSince has read is committed, so the latest sequence read after it
\* cannot lie behind.
SyncIsSound ==
  /\ sync.sku = NoSKU => sync = NoSync
  /\ sync.sku # NoSKU => \A n \in sync.events : n \in 1..lastSeq[sync.sku]
  /\ RecoveryHasNoHole

\* No request, nothing read.
LEMMA InitSync == Init => SyncIsSound
  BY EventLogAssumption DEF Init, SyncIsSound, RecoveryHasNoHole, NoSync

\* Steps that leave the request alone can only move the counters forward.
LEMMA SyncFrame ==
  ASSUME TypeOK, SyncIsSound, sync' = sync,
         \A s \in SKUs : lastSeq'[s] \in Nat /\ lastSeq'[s] >= lastSeq[s]
  PROVE  SyncIsSound'
  <1>1. RecoveryHasNoHole'
    BY DEF SyncIsSound, RecoveryHasNoHole
  <1>2. sync.sku # NoSKU => \A n \in sync.events : n \in 1..lastSeq'[sync.sku]
    <2> SUFFICES ASSUME sync.sku # NoSKU, NEW n \in sync.events
                 PROVE  n \in 1..lastSeq'[sync.sku]
      OBVIOUS
    <2>1. n \in 1..lastSeq[sync.sku] /\ sync.sku \in SKUs
      BY DEF SyncIsSound, TypeOK
    <2>2. lastSeq[sync.sku] \in Nat
      BY <2>1 DEF TypeOK
    <2> QED
      BY <2>1, <2>2
  <1> QED
    BY <1>1, <1>2 DEF SyncIsSound, NoSync

\* The two reads of a recovery request, and the commits between them, keep it.
LEMMA NextSync == TypeOK /\ NumberingInv /\ SyncIsSound /\ [Next]_vars => SyncIsSound'
  <1> SUFFICES ASSUME TypeOK, NumberingInv, SyncIsSound, [Next]_vars PROVE SyncIsSound'
    OBVIOUS
  <1>1. \A s \in SKUs : lastSeq[s] \in Nat /\ SequencesOf(s) = 1..lastSeq[s]
    BY NumberingIsDense DEF TypeOK, SequencesAreDense
  <1>2. ASSUME NEW w \in Writers, Commit(w) PROVE SyncIsSound'
    <2>1. tx[w].sku \in SKUs /\ RowsContinue(tx[w].sku, tx[w])
      BY <1>2 DEF Commit, TypeOK, NumberingInv, TxIsSound
    <2>2. tx[w].next \in Nat /\ tx[w].next >= lastSeq[tx[w].sku]
      BY <2>1 DEF RowsContinue
    <2>3. \A s \in SKUs : lastSeq'[s] \in Nat /\ lastSeq'[s] >= lastSeq[s]
      BY <1>2, <2>1, <2>2, <1>1 DEF Commit, TypeOK
    <2> QED
      BY <1>2, <2>3, SyncFrame DEF Commit
  <1>3. ASSUME UNCHANGED <<lastSeq, sync>> PROVE SyncIsSound'
    BY <1>3, <1>1, SyncFrame
  <1>4. ASSUME NEW s \in SKUs, NEW since \in {0} \cup UNION {SequencesOf(t) : t \in SKUs},
               ListSince(s, since)
        PROVE  SyncIsSound'
    <2>1. since \in Nat
      BY <1>1
    <2>2. /\ sync' = [sku |-> s, since |-> since, latest |-> 0,
                      events |-> {n \in 1..lastSeq[s] : n > since}]
          /\ lastSeq' = lastSeq
      BY <1>4, <1>1 DEF ListSince
    <2>3. /\ sync'.sku = s /\ sync'.since = since /\ sync'.latest = 0
          /\ \A n : n \in sync'.events <=> n \in 1..lastSeq[s] /\ n > since
      BY <2>2
    <2>4. \A n \in sync'.events : \A m \in (since + 1)..n : m \in sync'.events
      BY <2>1, <2>3, <1>1
    <2>5. s # NoSKU
      BY EventLogAssumption
    <2> QED
      BY <2>2, <2>3, <2>4, <2>5 DEF SyncIsSound, RecoveryHasNoHole
  <1>5. CASE GetLatestSequence
    <2>1. PICK k \in SKUs : k = sync.sku
      BY <1>5 DEF GetLatestSequence, TypeOK
    <2>2. PICK n \in 1..lastSeq[k] : /\ \A m \in 1..lastSeq[k] : m <= n
                                     /\ sync' = [sync EXCEPT !.latest = n]
      BY <1>5, <1>1, <2>1 DEF GetLatestSequence
    <2>3. /\ sync'.sku = k /\ sync'.since = sync.since
          /\ sync'.events = sync.events /\ sync'.latest = n
      BY <2>1, <2>2 DEF TypeOK
    <2>4. lastSeq' = lastSeq /\ k # NoSKU
      BY <1>5, EventLogAssumption DEF GetLatestSequence
    <2>5. \A m \in sync.events : m \in 1..lastSeq[k]
      BY <2>1, <2>4 DEF SyncIsSound
    <2>6. \A m \in sync.events : m <= n
      BY <2>2, <2>5
    <2> QED
      BY <2>3, <2>4, <2>5, <2>6 DEF SyncIsSound, RecoveryHasNoHole
  <1>6. CASE SyncReturns
    BY <1>6 DEF SyncReturns, SyncIsSound, RecoveryHasNoHole, NoSync
  <1>7. ASSUME NEW w \in Writers, NEW s \in SKUs, NEW i \in Ids, AppendEvent(w, s, i)
        PROVE  SyncIsSound'
    BY <1>7, <1>3 DEF AppendEvent
  <1>8. ASSUME NEW w \in Writers, Rollback(w) PROVE SyncIsSound'
    BY <1>8, <1>3 DEF Rollback
  <1>9. CASE DispatcherStep \/ DispatchFails \/ Tick
    BY <1>9, <1>3 DEF DispatcherStep, Dispatch, Publish, SaveCursor, DispatchFails, Tick
  <1>10. CASE UNCHANGED vars
    BY <1>10, <1>3 DEF vars
  <1> QED
    BY <1>2, <1>4, <1>5, <1>6, <1>7, <1>8, <1>9, <1>10 DEF Next

\* A SyncStatus answer has no hole and its latest_sequence covers its events,
\* although the two are read by separate queries while writers commit.
THEOREM RecoveryHasNoHoleHolds == Spec => []RecoveryHasNoHole
  <1>1. Init => TypeOK /\ NumberingInv /\ SyncIsSound
    BY InitTypeOK, InitNumbering, InitSync
  <1>2. TypeOK /\ NumberingInv /\ SyncIsSound /\ [Next]_vars
          => (TypeOK /\ NumberingInv /\ SyncIsSound)'
    BY NextTypeOK, NextNumbering, NextSync
  <1>3. SyncIsSound => RecoveryHasNoHole
    BY DEF SyncIsSound
  <1> QED
    BY <1>1, <1>2, <1>3, PTL DEF Spec

-----------------------------------------------------------------------------
(* The refinement of EventStream *)

\* What the dispatcher holds is committed.
TodoIsCommitted == todo \subseteq log

StreamInv == TypeOK /\ NumberingInv /\ TodoIsCommitted

\* A number in use names one row, the CHOOSE of Entry is that row.
LEMMA EntryIsTheRow ==
  ASSUME NumberingInv, NEW s \in SKUs, NEW n \in 1..lastSeq[s]
  PROVE  /\ Entry(s, n) \in log
         /\ Entry(s, n).sku = s
         /\ Entry(s, n).seq = n
         /\ \A r \in log : r.sku = s /\ r.seq = n => r = Entry(s, n)
  <1>1. \E r \in log : r.sku = s /\ r.seq = n
    BY DEF NumberingInv, LogIsSound
  <1>2. Entry(s, n) \in log /\ Entry(s, n).sku = s /\ Entry(s, n).seq = n
    BY <1>1 DEF Entry
  <1> QED
    BY <1>2 DEF NumberingInv, LogIsSound

\* It is the same row for as long as the table only grows.
LEMMA EntryStays ==
  ASSUME NumberingInv, NumberingInv', log \subseteq log',
         NEW s \in SKUs, NEW n \in 1..lastSeq[s]
  PROVE  Entry(s, n)' = Entry(s, n)
  <1>1. Entry(s, n) \in log /\ Entry(s, n).sku = s /\ Entry(s, n).seq = n
    BY EntryIsTheRow
  <1>2. \E r \in log' : r.sku = s /\ r.seq = n
    BY <1>1
  <1>3. Entry(s, n)' \in log' /\ Entry(s, n)'.sku = s /\ Entry(s, n)'.seq = n
    BY <1>2 DEF Entry
  <1>4. \A p, q \in log' : (p.sku = q.sku /\ p.seq = q.seq) => p = q
    BY DEF NumberingInv, LogIsSound
  <1> QED
    BY <1>1, <1>3, <1>4

\* The stream of a SKU is as long as its counter says.
LEMMA StreamShape ==
  ASSUME TypeOK, NEW s \in SKUs
  PROVE  /\ Stream[s] = [n \in 1..lastSeq[s] |-> Entry(s, n)]
         /\ Len(Stream[s]) = lastSeq[s]
         /\ lastSeq[s] \in Nat
         /\ \A n \in 1..lastSeq[s] : Stream[s][n] = Entry(s, n)
  <1>1. lastSeq[s] \in Nat
    BY DEF TypeOK
  <1>2. Stream[s] = [n \in 1..lastSeq[s] |-> Entry(s, n)]
    BY DEF Stream
  <1> QED
    BY <1>1, <1>2

\* Nothing is dispatched that is not committed, and nothing committed is taken
\* back.
LEMMA NextTodo == TodoIsCommitted /\ [Next]_vars => TodoIsCommitted'
  <1> SUFFICES ASSUME TodoIsCommitted, [Next]_vars PROVE TodoIsCommitted'
    OBVIOUS
  <1> USE DEF TodoIsCommitted
  <1>1. CASE Dispatch
    BY <1>1 DEF Dispatch, Batch, Undispatched
  <1>2. CASE Publish
    BY <1>2 DEF Publish
  <1>3. CASE SaveCursor \/ DispatchFails
    BY <1>3 DEF SaveCursor, DispatchFails
  <1>4. ASSUME NEW w \in Writers, Commit(w) PROVE TodoIsCommitted'
    BY <1>4 DEF Commit
  <1>5. ASSUME UNCHANGED <<log, todo>> PROVE TodoIsCommitted'
    BY <1>5
  <1>6. ASSUME NEW w \in Writers, NEW s \in SKUs, NEW i \in Ids, AppendEvent(w, s, i)
        PROVE  UNCHANGED <<log, todo>>
    BY <1>6 DEF AppendEvent
  <1>7. ASSUME NEW w \in Writers, Rollback(w) PROVE UNCHANGED <<log, todo>>
    BY <1>7 DEF Rollback
  <1>8. ASSUME NEW s \in SKUs, NEW since \in {0} \cup UNION {SequencesOf(t) : t \in SKUs},
               ListSince(s, since)
        PROVE  UNCHANGED <<log, todo>>
    BY <1>8 DEF ListSince
  <1>9. CASE GetLatestSequence \/ SyncReturns \/ Tick \/ UNCHANGED vars
    BY <1>9 DEF GetLatestSequence, SyncReturns, Tick, vars
  <1> QED
    BY <1>1, <1>2, <1>3, <1>4, <1>5, <1>6, <1>7, <1>8, <1>9 DEF Next, DispatcherStep

\* The stream is a function of the counters and the table alone.
LEMMA StreamFrame ==
  ASSUME UNCHANGED <<lastSeq, log>>
  PROVE  Stream' = Stream
  BY DEF Stream, Entry

\* A commit extends the stream of one SKU at its end, or changes nothing.
LEMMA CommitExtends ==
  ASSUME StreamInv, StreamInv', NEW w \in Writers, Commit(w)
  PROVE  StreamSpec!Extend(tx[w].sku) \/ UNCHANGED <<Stream, channel, sync>>
  <1>1. PICK s \in SKUs : s = tx[w].sku
    BY DEF StreamInv, TypeOK, Commit
  <1>2. /\ log \subseteq log'
        /\ lastSeq' = [lastSeq EXCEPT ![s] = tx[w].next]
        /\ lastSeq[s] \in Nat
        /\ UNCHANGED <<channel, sync>>
    BY <1>1 DEF Commit, StreamInv, TypeOK
  <1>3. RowsContinue(s, tx[w])
    BY <1>1 DEF StreamInv, NumberingInv, TxIsSound, Commit
  <1>4. tx[w].next \in Nat /\ tx[w].next >= lastSeq[s]
    BY <1>3 DEF RowsContinue
  <1>5. lastSeq'[s] = tx[w].next /\ \A t \in SKUs \ {s} : lastSeq'[t] = lastSeq[t]
    BY <1>2 DEF StreamInv, TypeOK
  <1>6. \A t \in SKUs : lastSeq[t] \in Nat /\ lastSeq'[t] \in Nat /\ lastSeq'[t] >= lastSeq[t]
    <2>1. \A t \in SKUs : lastSeq[t] \in Nat
      BY DEF StreamInv, TypeOK
    <2> QED
      BY <2>1, <1>4, <1>5
  <1>7. \A t \in SKUs : \A n \in 1..lastSeq[t] : Entry(t, n)' = Entry(t, n)
    BY <1>2, EntryStays DEF StreamInv
  <1>8. ASSUME NEW t \in SKUs, lastSeq'[t] = lastSeq[t]
        PROVE  Stream'[t] = Stream[t]
    BY <1>7, <1>8 DEF Stream
  <1>9. CASE tx[w].next = lastSeq[s]
    <2>1. \A t \in SKUs : Stream'[t] = Stream[t]
      BY <1>5, <1>8, <1>9
    <2>2. Stream' = Stream
      BY <2>1 DEF Stream
    <2> QED
      BY <2>2, <1>2
  <1>10. CASE tx[w].next > lastSeq[s]
    <2>1. Len(Stream[s]) = lastSeq[s] /\ \A n \in 1..lastSeq[s] : Stream[s][n] = Entry(s, n)
      BY StreamShape DEF StreamInv
    <2>2. /\ Len(Stream'[s]) = lastSeq'[s]
          /\ \A n \in 1..lastSeq'[s] : Stream'[s][n] = Entry(s, n)'
      BY <1>6 DEF Stream
    <2>3. \A n \in 1..lastSeq'[s] :
            Entry(s, n)' \in log' /\ Entry(s, n)'.sku = s /\ Entry(s, n)'.seq = n
      BY DEF StreamInv, NumberingInv, LogIsSound, Entry
    <2>4. \A m, n \in 1..lastSeq'[s] : m < n => Entry(s, m)'.at <= Entry(s, n)'.at
      BY <2>3 DEF StreamInv, NumberingInv, LogIsSound
    <2>5. Len(Stream'[s]) > Len(Stream[s])
      BY <2>1, <2>2, <1>5, <1>10
    <2>6. \A n \in 1..Len(Stream[s]) : Stream'[s][n] = Stream[s][n]
      BY <2>1, <2>2, <1>6, <1>7
    <2>7. \A m, n \in 1..Len(Stream'[s]) : m < n => Stream'[s][m].at <= Stream'[s][n].at
      BY <2>2, <2>4
    <2>8. \A t \in SKUs \ {s} : Stream'[t] = Stream[t]
      BY <1>5, <1>8
    <2> QED
      BY <1>1, <1>2, <2>5, <2>6, <2>7, <2>8 DEF StreamSpec!Extend
  <1> QED
    BY <1>4, <1>2, <1>9, <1>10

\* What is published is a committed number of its SKU.
LEMMA PublishAnnounces ==
  ASSUME StreamInv, Publish
  PROVE  \E s \in SKUs : StreamSpec!Announce(s)
  <1>1. PICK r \in todo : /\ channel' = [channel EXCEPT ![r.sku] = Append(@, r.seq)]
                          /\ UNCHANGED <<lastSeq, log, sync>>
    BY DEF Publish
  <1>2. r \in log /\ r.sku \in SKUs
    BY DEF StreamInv, TodoIsCommitted, TypeOK, Row
  <1>3. r.seq \in 1..lastSeq[r.sku]
    BY <1>2 DEF StreamInv, NumberingInv, LogIsSound
  <1>4. r.seq \in 1..Len(Stream[r.sku])
    BY <1>2, <1>3, StreamShape DEF StreamInv
  <1>5. UNCHANGED <<Stream, sync>>
    BY <1>1, StreamFrame
  <1> QED
    BY <1>1, <1>2, <1>4, <1>5 DEF StreamSpec!Announce

\* The two queries of a recovery request read the stream.
LEMMA SyncReads ==
  ASSUME StreamInv, NEW s \in SKUs,
         NEW since \in {0} \cup UNION {SequencesOf(t) : t \in SKUs}, ListSince(s, since)
  PROVE  StreamSpec!ReadEvents(s)
  <1>1. SequencesOf(s) = 1..lastSeq[s] /\ Len(Stream[s]) = lastSeq[s] /\ lastSeq[s] \in Nat
    BY NumberingIsDense, StreamShape DEF StreamInv, SequencesAreDense
  <1>2. since \in Nat
    BY DEF StreamInv, TypeOK, SequencesOf, Row
  <1>3. {n \in SequencesOf(s) : n > since} = (since + 1)..Len(Stream[s])
    BY <1>1, <1>2
  <1>4. /\ sync = NoSync
        /\ sync' = [sku |-> s, since |-> since, events |-> (since + 1)..Len(Stream[s]), latest |-> 0]
        /\ UNCHANGED <<lastSeq, log, channel>>
    BY <1>3 DEF ListSince
  <1>5. sync'.since = since
    BY <1>4
  <1>6. UNCHANGED <<Stream, channel>>
    BY <1>4, StreamFrame
  <1> QED
    BY <1>2, <1>4, <1>5, <1>6 DEF StreamSpec!ReadEvents, StreamSpec!NoAnswer, NoSync

LEMMA LatestReads ==
  ASSUME StreamInv, GetLatestSequence
  PROVE  StreamSpec!ReadLatest
  <1>1. PICK s \in SKUs : s = sync.sku
    BY DEF StreamInv, TypeOK, GetLatestSequence
  <1>2. SequencesOf(s) = 1..lastSeq[s] /\ Len(Stream[s]) = lastSeq[s] /\ lastSeq[s] \in Nat
    BY NumberingIsDense, StreamShape DEF StreamInv, SequencesAreDense
  <1>3. PICK n \in 1..lastSeq[s] : /\ \A m \in 1..lastSeq[s] : m <= n
                                   /\ sync' = [sync EXCEPT !.latest = n]
    BY <1>1, <1>2 DEF GetLatestSequence
  <1>4. n = Len(Stream[s])
    BY <1>2, <1>3
  <1>5. UNCHANGED <<Stream, channel>>
    BY StreamFrame DEF GetLatestSequence
  <1> QED
    BY <1>1, <1>3, <1>4, <1>5 DEF StreamSpec!ReadLatest, GetLatestSequence

\* Every step is one of the promised ones or changes nothing a client sees.
LEMMA StreamSimulation ==
  StreamInv /\ StreamInv' /\ [Next]_vars => [StreamSpec!Next]_(StreamSpec!streamVars)
  <1> SUFFICES ASSUME StreamInv, StreamInv', [Next]_vars
               PROVE  StreamSpec!Next \/ UNCHANGED <<Stream, channel, sync>>
    BY DEF StreamSpec!streamVars
  <1>1. ASSUME NEW w \in Writers, Commit(w)
        PROVE  StreamSpec!Next \/ UNCHANGED <<Stream, channel, sync>>
    <2>1. tx[w].sku \in SKUs
      BY <1>1 DEF StreamInv, TypeOK, Commit
    <2> QED
      BY <1>1, <2>1, CommitExtends DEF StreamSpec!Next
  <1>2. CASE Publish
    BY <1>2, PublishAnnounces DEF StreamSpec!Next
  <1>3. ASSUME NEW s \in SKUs, NEW since \in {0} \cup UNION {SequencesOf(t) : t \in SKUs},
               ListSince(s, since)
        PROVE  StreamSpec!Next
    BY <1>3, SyncReads DEF StreamSpec!Next
  <1>4. CASE GetLatestSequence
    BY <1>4, LatestReads DEF StreamSpec!Next
  <1>5. CASE SyncReturns
    BY <1>5, StreamFrame
       DEF SyncReturns, StreamSpec!Next, StreamSpec!Reply, StreamSpec!NoAnswer, NoSync
  <1>6. ASSUME UNCHANGED <<lastSeq, log, channel, sync>>
        PROVE  UNCHANGED <<Stream, channel, sync>>
    BY <1>6, StreamFrame
  <1>7. ASSUME NEW w \in Writers, NEW s \in SKUs, NEW i \in Ids, AppendEvent(w, s, i)
        PROVE  UNCHANGED <<lastSeq, log, channel, sync>>
    BY <1>7 DEF AppendEvent
  <1>8. ASSUME NEW w \in Writers, Rollback(w)
        PROVE  UNCHANGED <<lastSeq, log, channel, sync>>
    BY <1>8 DEF Rollback
  <1>9. ASSUME Dispatch \/ SaveCursor \/ DispatchFails \/ Tick \/ UNCHANGED vars
        PROVE  UNCHANGED <<lastSeq, log, channel, sync>>
    BY <1>9 DEF Dispatch, SaveCursor, DispatchFails, Tick, vars
  <1> QED
    BY <1>1, <1>2, <1>3, <1>4, <1>5, <1>6, <1>7, <1>8, <1>9 DEF Next, DispatcherStep

\* The tables start empty, as the stream does.
LEMMA StreamInit == Init => StreamSpec!Init
  <1> SUFFICES ASSUME Init PROVE StreamSpec!Init
    OBVIOUS
  <1>1. \A s \in SKUs : lastSeq[s] = 0 /\ 1..lastSeq[s] = {}
    BY DEF Init
  <1>2. \A s \in SKUs : [n \in 1..lastSeq[s] |-> Entry(s, n)] = <<>>
    BY <1>1
  <1>3. Stream = [s \in SKUs |-> <<>>]
    BY <1>2 DEF Stream
  <1> QED
    BY <1>3 DEF Init, StreamSpec!Init, StreamSpec!NoAnswer, NoSync

\* Transactions under a row lock, rollbacks, dispatcher passes that fail half-way and
\* recovery requests made of two queries come to one append-only stream per SKU:
\* a committed event keeps its place for ever, only committed events are
\* published, and a recovery answer is everything the client missed.
THEOREM EventStreamIsImplemented == Spec => ImplementsEventStream
  <1>1. Init => StreamInv
    BY InitTypeOK, InitNumbering DEF StreamInv, TodoIsCommitted, Init
  <1>2. StreamInv /\ [Next]_vars => StreamInv'
    BY NextTypeOK, NextNumbering, NextTodo DEF StreamInv
  <1> QED
    BY <1>1, <1>2, StreamInit, StreamSimulation, PTL
       DEF Spec, ImplementsEventStream, StreamSpec!Spec

-----------------------------------------------------------------------------
(* What the dispatcher misses *)

\* A pass under way ends behind its cursor, and only it has rows to publish, all
\* of them behind the cursor as well.
PassIsAhead ==
  /\ upto = Origin => todo = {}
  /\ upto # Origin => Before(cursor, upto)
  /\ \A r \in todo : Before(cursor, r) /\ ~Before(upto, r)

TablesAreFinite == IsFiniteSet(log) /\ \A w \in Writers : IsFiniteSet(tx[w].rows)

\* Positions are pairs of numbers.
LEMMA Positions ==
  ASSUME TypeOK
  PROVE  /\ cursor.at \in Nat /\ cursor.id \in Nat
         /\ upto.at \in Nat /\ upto.id \in Nat
         /\ \A r \in Row : r.at \in Nat \ {0} /\ r.id \in Nat
         /\ log \subseteq Row /\ todo \subseteq Row
  <1>1. \A n \in 0..MaxTime : n \in Nat
    BY EventLogAssumption
  <1>2. \A i \in Ids \cup {0} : i \in Nat
    BY EventLogAssumption
  <1>3. /\ cursor.at \in 0..MaxTime /\ cursor.id \in Ids \cup {0}
        /\ upto.at \in 0..MaxTime /\ upto.id \in Ids \cup {0}
    BY DEF TypeOK
  <1>4. \A r \in Row : r.at \in 1..MaxTime /\ r.id \in Ids
    BY DEF Row
  <1>5. \A n \in 1..MaxTime : n \in Nat \ {0}
    BY EventLogAssumption
  <1> QED
    BY <1>1, <1>2, <1>3, <1>4, <1>5 DEF TypeOK

\* A batch has every row between the cursor and its own end: LIMIT cuts the
\* list, it never thins it out.
LEMMA BatchIsContiguous ==
  ASSUME TypeOK, IsFiniteSet(log), NEW u \in Batch, NEW r \in Undispatched, ~Before(u, r)
  PROVE  r \in Batch
  <1> DEFINE Earlier(x) == {q \in Undispatched : Before(q, x)}
  <1>1. Undispatched \in SUBSET log /\ Undispatched \subseteq Row
    BY DEF Undispatched, TypeOK
  <1>2. IsFiniteSet(Undispatched)
    BY <1>1, FS_Subset
  <1>3. Earlier(r) \subseteq Earlier(u)
    <2> SUFFICES ASSUME NEW q \in Undispatched, Before(q, r) PROVE Before(q, u)
      OBVIOUS
    <2>1. u \in Row /\ r \in Row /\ q \in Row
      BY <1>1 DEF Batch
    <2> QED
      BY <2>1, Positions DEF Before
  <1>4. IsFiniteSet(Earlier(u)) /\ IsFiniteSet(Earlier(r))
    <2>1. Earlier(u) \in SUBSET Undispatched /\ Earlier(r) \in SUBSET Undispatched
      OBVIOUS
    <2> QED
      BY <2>1, <1>2, FS_Subset
  <1>5. Cardinality(Earlier(r)) <= Cardinality(Earlier(u))
    <2> HIDE DEF Earlier
    <2> QED
      BY <1>3, <1>4, FS_Subset
  <1>6. Cardinality(Earlier(u)) < BatchLimit
    BY DEF Batch
  <1>7. Cardinality(Earlier(r)) \in Nat /\ Cardinality(Earlier(u)) \in Nat /\ BatchLimit \in Nat
    BY <1>4, FS_CardinalityType, EventLogAssumption
  <1>8. Cardinality(Earlier(r)) < BatchLimit
    <2> HIDE DEF Earlier
    <2> QED
      BY <1>5, <1>6, <1>7
  <1> QED
    BY <1>8 DEF Batch

\* The tables hold what finitely many appends have put there.
LEMMA NextFinite == TablesAreFinite /\ TypeOK /\ [Next]_vars => TablesAreFinite'
  <1> SUFFICES ASSUME TablesAreFinite, TypeOK, [Next]_vars PROVE TablesAreFinite'
    OBVIOUS
  <1>1. ASSUME NEW w \in Writers, NEW s \in SKUs, NEW i \in Ids, AppendEvent(w, s, i)
        PROVE  TablesAreFinite'
    <2> DEFINE row == [sku |-> s, seq |-> LastSequence(w, s) + 1, at |-> clock, id |-> i]
    <2>1. /\ log' = log
          /\ \A v \in Writers \ {w} : tx'[v] = tx[v]
          /\ tx'[w].rows = tx[w].rows \cup {row}
      BY <1>1 DEF AppendEvent, TypeOK
    <2>2. IsFiniteSet(tx[w].rows \cup {row})
      BY FS_AddElement DEF TablesAreFinite
    <2> QED
      BY <2>1, <2>2 DEF TablesAreFinite
  <1>2. ASSUME NEW w \in Writers, Commit(w) PROVE TablesAreFinite'
    <2>1. /\ log' = log \cup tx[w].rows
          /\ \A v \in Writers \ {w} : tx'[v] = tx[v]
          /\ tx'[w].rows = {}
      BY <1>2 DEF Commit, TypeOK, NoTx
    <2>2. IsFiniteSet(log \cup tx[w].rows) /\ IsFiniteSet({})
      BY FS_Union, FS_EmptySet DEF TablesAreFinite
    <2> QED
      BY <2>1, <2>2 DEF TablesAreFinite
  <1>3. ASSUME NEW w \in Writers, Rollback(w) PROVE TablesAreFinite'
    <2>1. /\ log' = log
          /\ \A v \in Writers \ {w} : tx'[v] = tx[v]
          /\ tx'[w].rows = {}
      BY <1>3 DEF Rollback, TypeOK, NoTx
    <2> QED
      BY <2>1, FS_EmptySet DEF TablesAreFinite
  <1>4. ASSUME UNCHANGED <<log, tx>> PROVE TablesAreFinite'
    BY <1>4 DEF TablesAreFinite
  <1>5. ASSUME NEW s \in SKUs, NEW since \in {0} \cup UNION {SequencesOf(t) : t \in SKUs},
               ListSince(s, since)
        PROVE  UNCHANGED <<log, tx>>
    BY <1>5 DEF ListSince
  <1>6. CASE DispatcherStep \/ DispatchFails \/ GetLatestSequence \/ SyncReturns \/ Tick
    BY <1>6, <1>4
       DEF DispatcherStep, Dispatch, Publish, SaveCursor, DispatchFails, GetLatestSequence,
           SyncReturns, Tick
  <1>7. CASE UNCHANGED vars
    BY <1>7, <1>4 DEF vars
  <1> QED
    BY <1>1, <1>2, <1>3, <1>4, <1>5, <1>6, <1>7 DEF Next

\* What a new pass has read, and how it is placed.
LEMMA DispatchReads ==
  ASSUME TypeOK, PassIsAhead, Dispatch
  PROVE  /\ upto = Origin /\ upto' # Origin /\ todo = {}
         /\ todo' = Batch /\ cursor' = cursor
         /\ \A r \in Batch : r \in log /\ Before(cursor, r) /\ ~Before(upto', r)
         /\ Before(cursor, upto')
         /\ \E u \in Batch : upto' = [at |-> u.at, id |-> u.id]
  <1>1. PICK u \in Batch : IsLast(u, Batch) /\ upto' = [at |-> u.at, id |-> u.id]
    BY DEF Dispatch
  <1>2. \A r \in Batch : r \in log /\ r \in Row /\ Before(cursor, r)
    BY Positions DEF Batch, Undispatched
  <1>3. upto'.at = u.at /\ upto'.id = u.id
    BY <1>1
  <1>4. \A r \in Batch : ~Before(upto', r)
    BY <1>1, <1>2, <1>3, Positions DEF IsLast, Before
  <1>5. Before(cursor, upto')
    BY <1>2, <1>3 DEF Before
  <1>6. upto' # Origin
    BY <1>2, <1>3, Positions DEF Origin
  <1> QED
    BY <1>1, <1>2, <1>4, <1>5, <1>6 DEF Dispatch, PassIsAhead

\* Only the dispatcher's steps move its cursor, its batch and its end.
LEMMA OthersLeavePass ==
  ASSUME [Next]_vars
  PROVE  \/ DispatcherStep \/ DispatchFails
         \/ UNCHANGED <<cursor, todo, upto, channel>>
  <1>1. ASSUME NEW w \in Writers, NEW s \in SKUs, NEW i \in Ids, AppendEvent(w, s, i)
        PROVE  UNCHANGED <<cursor, todo, upto, channel>>
    BY <1>1 DEF AppendEvent
  <1>2. ASSUME NEW w \in Writers, Commit(w) \/ Rollback(w)
        PROVE  UNCHANGED <<cursor, todo, upto, channel>>
    BY <1>2 DEF Commit, Rollback
  <1>3. ASSUME NEW s \in SKUs, NEW since \in {0} \cup UNION {SequencesOf(t) : t \in SKUs},
               ListSince(s, since)
        PROVE  UNCHANGED <<cursor, todo, upto, channel>>
    BY <1>3 DEF ListSince
  <1>4. ASSUME GetLatestSequence \/ SyncReturns \/ Tick \/ UNCHANGED vars
        PROVE  UNCHANGED <<cursor, todo, upto, channel>>
    BY <1>4 DEF GetLatestSequence, SyncReturns, Tick, vars
  <1> QED
    BY <1>1, <1>2, <1>3, <1>4 DEF Next

LEMMA NextPass == TypeOK /\ PassIsAhead /\ [Next]_vars => PassIsAhead'
  <1> SUFFICES ASSUME TypeOK, PassIsAhead, [Next]_vars PROVE PassIsAhead'
    OBVIOUS
  <1>1. CASE Dispatch
    BY <1>1, DispatchReads DEF PassIsAhead
  <1>2. CASE Publish
    <2>1. UNCHANGED <<cursor, upto>> /\ todo' \subseteq todo /\ todo # {}
      BY <1>2 DEF Publish
    <2> QED
      BY <2>1 DEF PassIsAhead
  <1>3. CASE SaveCursor \/ DispatchFails
    BY <1>3 DEF SaveCursor, DispatchFails, PassIsAhead
  <1>4. CASE UNCHANGED <<cursor, todo, upto, channel>>
    BY <1>4 DEF PassIsAhead
  <1> QED
    BY <1>1, <1>2, <1>3, <1>4, OthersLeavePass DEF DispatcherStep

DispatchInv == TypeOK /\ TablesAreFinite /\ PassIsAhead

LEMMA InitDispatch == Init => DispatchInv
  <1> SUFFICES ASSUME Init PROVE DispatchInv
    OBVIOUS
  <1>1. log = {} /\ todo = {} /\ upto = Origin /\ \A w \in Writers : tx[w].rows = {}
    BY DEF Init, NoTx
  <1>2. TablesAreFinite
    BY <1>1, FS_EmptySet DEF TablesAreFinite
  <1>3. PassIsAhead
    BY <1>1 DEF PassIsAhead
  <1> QED
    BY <1>2, <1>3, InitTypeOK DEF DispatchInv

LEMMA NextDispatch == DispatchInv /\ [Next]_vars => DispatchInv'
  BY NextTypeOK, NextFinite, NextPass DEF DispatchInv

\* Publishing adds one message at the end of a channel.
LEMMA AppendKeeps ==
  ASSUME NEW c \in Seq(Nat), NEW n \in Nat
  PROVE  /\ Append(c, n) \in Seq(Nat)
         /\ DOMAIN c = 1..Len(c) /\ Len(c) \in Nat
         /\ DOMAIN Append(c, n) = 1..(Len(c) + 1)
         /\ Append(c, n)[Len(c) + 1] = n
         /\ \A i \in 1..Len(c) : Append(c, n)[i] = c[i]
  OBVIOUS

\* A pass that begins, moves on, ends or fails leaves every row on its way; what
\* is published stays so.
LEMMA NothingIsDropped ==
  ASSUME DispatchInv, DispatcherStep \/ DispatchFails, NEW r \in log, OnItsWay(r)
  PROVE  OnItsWay(r)'
  <1> USE DEF DispatchInv
  <1>0. /\ r \in Row /\ r.sku \in SKUs /\ r.at \in Nat \ {0} /\ r.id \in Nat
        /\ cursor.at \in Nat /\ cursor.id \in Nat /\ upto.at \in Nat /\ upto.id \in Nat
    BY Positions DEF Row
  <1>1. CASE Dispatch
    <2>1. PICK u \in Batch : upto' = [at |-> u.at, id |-> u.id]
      BY <1>1, DispatchReads
    <2>2. /\ upto = Origin /\ todo = {} /\ upto' # Origin
          /\ todo' = Batch /\ channel' = channel
      BY <1>1, DispatchReads DEF Dispatch
    <2>3. CASE IsPublished(r)
      BY <2>2, <2>3 DEF OnItsWay, IsPublished
    <2>4. CASE Before(u, r)
      <3>1. Before(upto', r)
        BY <2>1, <2>4 DEF Before
      <3> QED
        BY <3>1, <2>2 DEF OnItsWay, Reached
    <2>5. CASE ~IsPublished(r) /\ ~Before(u, r)
      <3>1. Before(cursor, r)
        BY <2>2, <2>5 DEF OnItsWay, Reached
      <3>2. r \in Undispatched
        BY <3>1 DEF Undispatched
      <3>3. r \in todo'
        BY <3>2, <2>2, <2>5, BatchIsContiguous DEF TablesAreFinite
      <3> QED
        BY <3>3 DEF OnItsWay
    <2> QED
      BY <2>3, <2>4, <2>5
  <1>2. CASE Publish
    <2>1. PICK p \in todo : /\ channel' = [channel EXCEPT ![p.sku] = Append(@, p.seq)]
                            /\ todo' = todo \ {p}
                            /\ UNCHANGED <<cursor, upto>>
      BY <1>2 DEF Publish
    <2>2. p.sku \in SKUs /\ p.seq \in Nat
      BY DEF TypeOK, Row
    <2>3. channel[r.sku] \in Seq(Nat) /\ channel[p.sku] \in Seq(Nat)
      BY <1>0, <2>2 DEF TypeOK
    <2>4. /\ channel' \in [SKUs -> Seq(Nat)]
          /\ channel'[p.sku] = Append(channel[p.sku], p.seq)
          /\ \A s \in SKUs \ {p.sku} : channel'[s] = channel[s]
      BY <2>1, <2>2, <2>3 DEF TypeOK
    <2>5. /\ DOMAIN channel[p.sku] = 1..Len(channel[p.sku]) /\ Len(channel[p.sku]) \in Nat
          /\ DOMAIN channel'[p.sku] = 1..(Len(channel[p.sku]) + 1)
          /\ channel'[p.sku][Len(channel[p.sku]) + 1] = p.seq
          /\ \A i \in 1..Len(channel[p.sku]) : channel'[p.sku][i] = channel[p.sku][i]
      BY <2>2, <2>3, <2>4, AppendKeeps
    <2>6. CASE IsPublished(r)
      <3>1. PICK k \in DOMAIN channel[r.sku] : channel[r.sku][k] = r.seq
        BY <2>6 DEF IsPublished
      <3>2. k \in DOMAIN channel'[r.sku] /\ channel'[r.sku][k] = r.seq
        <4>1. CASE r.sku = p.sku
          <5>1. k \in 1..Len(channel[p.sku]) /\ channel[p.sku][k] = r.seq
            BY <2>5, <3>1, <4>1
          <5> QED
            BY <2>5, <4>1, <5>1
        <4>2. CASE r.sku # p.sku
          BY <1>0, <2>4, <3>1, <4>2
        <4> QED
          BY <4>1, <4>2
      <3> QED
        BY <3>2 DEF OnItsWay, IsPublished
    <2>7. CASE r = p
      <3>1. Len(channel[p.sku]) + 1 \in DOMAIN channel'[p.sku]
        BY <2>5
      <3> QED
        BY <2>5, <2>7, <3>1 DEF OnItsWay, IsPublished
    <2>8. CASE r # p /\ ~IsPublished(r)
      BY <2>1, <2>8 DEF OnItsWay, Reached
    <2> QED
      BY <2>6, <2>7, <2>8
  <1>3. CASE SaveCursor
    <2>1. Reached' = Reached /\ todo = {} /\ channel' = channel
      BY <1>3 DEF SaveCursor, Reached
    <2> QED
      BY <2>1 DEF OnItsWay, IsPublished
  <1>4. CASE DispatchFails
    <2>1. /\ upto # Origin /\ upto' = Origin /\ cursor' = cursor /\ channel' = channel
      BY <1>4 DEF DispatchFails
    <2>2. Before(upto, r) \/ r \in todo => Before(cursor, r)
      BY <1>0, <2>1 DEF PassIsAhead, Before
    <2>3. CASE IsPublished(r)
      BY <2>1, <2>3 DEF OnItsWay, IsPublished
    <2>4. CASE ~IsPublished(r)
      <3>1. Before(cursor, r)
        BY <2>1, <2>2, <2>4 DEF OnItsWay, Reached
      <3> QED
        BY <2>1, <3>1 DEF OnItsWay, Reached
    <2> QED
      BY <2>3, <2>4
  <1> QED
    BY <1>1, <1>2, <1>3, <1>4 DEF DispatcherStep

\* Whatever the order in which transactions commit, however often a pass fails
\* and whatever the batch limit, the clients of a SKU miss an event on their
\* channel only if its transaction committed behind the position the dispatcher
\* had reached.
THEOREM OnlyLateEventsAreMissed == Spec => EventsAreMissedOnlyLate
  <1> DEFINE Missed == \A r \in log' :
               ~OnItsWay(r)' => \/ r \in log /\ ~OnItsWay(r)
                                \/ r \notin log /\ ~Before(Reached, r)
  <1>1. DispatchInv /\ [Next]_vars => [Missed]_vars
    <2> SUFFICES ASSUME DispatchInv, [Next]_vars, NEW r \in log', ~OnItsWay(r)'
                 PROVE  \/ r \in log /\ ~OnItsWay(r)
                        \/ r \notin log /\ ~Before(Reached, r)
      OBVIOUS
    <2>1. CASE DispatcherStep \/ DispatchFails
      <3>1. log' = log
        BY <2>1 DEF DispatcherStep, Dispatch, Publish, SaveCursor, DispatchFails
      <3> QED
        BY <2>1, <3>1, NothingIsDropped
    <2>2. CASE UNCHANGED <<cursor, todo, upto, channel>>
      <3>1. OnItsWay(r)' <=> OnItsWay(r)
        BY <2>2 DEF OnItsWay, Reached, IsPublished
      <3> QED
        BY <3>1 DEF OnItsWay
    <2> QED
      BY <2>1, <2>2, OthersLeavePass
  <1> QED
    BY <1>1, InitDispatch, NextDispatch, PTL DEF Spec, EventsAreMissedOnlyLate

-----------------------------------------------------------------------------
(* The order on the channels *)

\* Everything published is committed, lies at or before the position reached and
\* before what is still to be published, in the cursor's order.
ChannelsAreSorted ==
  \A s \in SKUs : \A k \in DOMAIN channel[s] :
    /\ channel[s][k] \in 1..lastSeq[s]
    /\ ~Before(Reached, Entry(s, channel[s][k]))
    /\ \A r \in todo : Before(Entry(s, channel[s][k]), r)
    /\ \A l \in DOMAIN channel[s] :
         k < l => Before(Entry(s, channel[s][k]), Entry(s, channel[s][l]))

OrderInv == StreamInv /\ DispatchInv /\ ChannelsAreSorted

\* Entries are rows, with positions to compare.
LEMMA EntryPositions ==
  ASSUME StreamInv, NEW s \in SKUs, NEW n \in 1..lastSeq[s]
  PROVE  Entry(s, n) \in Row /\ Entry(s, n).at \in Nat /\ Entry(s, n).id \in Nat
  BY EntryIsTheRow, Positions DEF StreamInv

\* No step takes a committed row or a number back.
LEMMA GrowthOnly ==
  ASSUME TypeOK, NumberingInv, [Next]_vars
  PROVE  /\ log \subseteq log'
         /\ \A s \in SKUs : /\ lastSeq[s] \in Nat /\ lastSeq'[s] \in Nat
                            /\ lastSeq'[s] >= lastSeq[s]
  <1>0. \A s \in SKUs : lastSeq[s] \in Nat
    BY DEF TypeOK
  <1>1. ASSUME NEW w \in Writers, Commit(w)
        PROVE  /\ log \subseteq log'
               /\ \A s \in SKUs : lastSeq'[s] \in Nat /\ lastSeq'[s] >= lastSeq[s]
    <2>1. tx[w].sku \in SKUs /\ RowsContinue(tx[w].sku, tx[w])
      BY <1>1 DEF Commit, TypeOK, NumberingInv, TxIsSound
    <2>2. tx[w].next \in Nat /\ tx[w].next >= lastSeq[tx[w].sku]
      BY <2>1 DEF RowsContinue
    <2>3. lastSeq' = [lastSeq EXCEPT ![tx[w].sku] = tx[w].next] /\ log \subseteq log'
      BY <1>1 DEF Commit
    <2>4. /\ lastSeq'[tx[w].sku] = tx[w].next
          /\ \A s \in SKUs \ {tx[w].sku} : lastSeq'[s] = lastSeq[s]
      BY <2>1, <2>3 DEF TypeOK
    <2> QED
      BY <2>2, <2>3, <2>4, <1>0
  <1>2. ASSUME UNCHANGED <<log, lastSeq>>
        PROVE  /\ log \subseteq log'
               /\ \A s \in SKUs : lastSeq'[s] \in Nat /\ lastSeq'[s] >= lastSeq[s]
    BY <1>2, <1>0
  <1>3. ASSUME NEW w \in Writers, NEW s \in SKUs, NEW i \in Ids, AppendEvent(w, s, i)
        PROVE  UNCHANGED <<log, lastSeq>>
    BY <1>3 DEF AppendEvent
  <1>4. ASSUME NEW w \in Writers, Rollback(w) PROVE UNCHANGED <<log, lastSeq>>
    BY <1>4 DEF Rollback
  <1>5. ASSUME NEW s \in SKUs, NEW since \in {0} \cup UNION {SequencesOf(t) : t \in SKUs},
               ListSince(s, since)
        PROVE  UNCHANGED <<log, lastSeq>>
    BY <1>5 DEF ListSince
  <1>6. ASSUME \/ DispatcherStep \/ DispatchFails \/ GetLatestSequence \/ SyncReturns
               \/ Tick \/ UNCHANGED vars
        PROVE  UNCHANGED <<log, lastSeq>>
    BY <1>6 DEF DispatcherStep, Dispatch, Publish, SaveCursor, DispatchFails,
                GetLatestSequence, SyncReturns, Tick, vars
  <1> QED
    BY <1>0, <1>1, <1>2, <1>3, <1>4, <1>5, <1>6 DEF Next

\* The writers move no channel and keep every entry.
LEMMA OrderFrame ==
  ASSUME OrderInv, StreamInv', [Next]_vars, UNCHANGED <<cursor, todo, upto, channel>>
  PROVE  ChannelsAreSorted'
  <1> USE DEF OrderInv
  <1>1. /\ log \subseteq log'
        /\ \A s \in SKUs : lastSeq[s] \in Nat /\ lastSeq'[s] \in Nat /\ lastSeq'[s] >= lastSeq[s]
    BY GrowthOnly DEF StreamInv
  <1>2. \A s \in SKUs : \A n \in 1..lastSeq[s] : Entry(s, n)' = Entry(s, n)
    BY <1>1, EntryStays DEF StreamInv
  <1>3. ASSUME NEW s \in SKUs, NEW k \in DOMAIN channel[s]
        PROVE  /\ channel[s][k] \in 1..lastSeq[s]
               /\ channel[s][k] \in 1..lastSeq'[s]
               /\ Entry(s, channel[s][k])' = Entry(s, channel[s][k])
    <2>1. channel[s][k] \in 1..lastSeq[s]
      BY DEF ChannelsAreSorted
    <2> QED
      BY <2>1, <1>1, <1>2
  <1>4. Reached' = Reached
    BY DEF Reached
  <1> QED
    BY <1>3, <1>4 DEF ChannelsAreSorted

\* A new pass, the saving of the cursor: what is published is behind.
LEMMA OrderDispatch ==
  ASSUME OrderInv, Dispatch \/ SaveCursor
  PROVE  ChannelsAreSorted'
  <1> USE DEF OrderInv
  <1>1. UNCHANGED <<log, lastSeq, channel>>
    BY DEF Dispatch, SaveCursor
  <1>2. \A s, n : Entry(s, n)' = Entry(s, n)
    BY <1>1 DEF Entry
  <1>3. /\ cursor.at \in Nat /\ cursor.id \in Nat /\ upto.at \in Nat /\ upto.id \in Nat
        /\ \A r \in log : r.at \in Nat /\ r.id \in Nat
    BY Positions DEF StreamInv
  <1>4. ASSUME NEW s \in SKUs, NEW k \in DOMAIN channel[s]
        PROVE  /\ ~Before(Reached', Entry(s, channel[s][k]))
               /\ \A r \in todo' : Before(Entry(s, channel[s][k]), r)
    <2> DEFINE e == Entry(s, channel[s][k])
    <2>1. e.at \in Nat /\ e.id \in Nat /\ ~Before(Reached, e)
      BY EntryPositions DEF ChannelsAreSorted
    <2> HIDE DEF e
    <2>2. CASE Dispatch
      <3>1. /\ Reached = cursor /\ Reached' = upto' /\ todo' = Batch
            /\ Before(cursor, upto')
            /\ \A r \in Batch : r \in log /\ Before(cursor, r)
        BY <2>2, DispatchReads DEF DispatchInv, Reached
      <3>2. PICK u \in Batch : upto' = [at |-> u.at, id |-> u.id]
        BY <2>2, DispatchReads DEF DispatchInv
      <3>3. upto'.at \in Nat /\ upto'.id \in Nat
        BY <3>1, <3>2, <1>3
      <3>4. ~Before(upto', e)
        BY <2>1, <3>1, <3>3, <1>3 DEF Before
      <3>5. \A r \in Batch : Before(e, r)
        BY <2>1, <3>1, <1>3 DEF Before
      <3> QED
        BY <3>1, <3>4, <3>5 DEF e
    <2>3. CASE SaveCursor
      <3>1. Reached' = Reached /\ todo' = {}
        BY <2>3 DEF SaveCursor, Reached
      <3> QED
        BY <2>1, <3>1 DEF e
    <2> QED
      BY <2>2, <2>3
  <1> QED
    BY <1>1, <1>2, <1>4 DEF ChannelsAreSorted

\* The least row of the batch is published behind what its channel has.
LEMMA OrderPublish ==
  ASSUME OrderInv, Publish
  PROVE  ChannelsAreSorted'
  <1> USE DEF OrderInv
  <1>1. PICK r \in todo : /\ \A q \in todo \ {r} : Before(r, q)
                          /\ channel' = [channel EXCEPT ![r.sku] = Append(@, r.seq)]
                          /\ todo' = todo \ {r}
                          /\ UNCHANGED <<log, lastSeq, cursor, upto>>
    BY DEF Publish
  <1>2. r \in log /\ r.sku \in SKUs /\ r.seq \in Nat
    BY DEF StreamInv, TodoIsCommitted, TypeOK, Row
  <1>3. r.seq \in 1..lastSeq[r.sku] /\ Entry(r.sku, r.seq) = r
    <2>1. r.seq \in 1..lastSeq[r.sku]
      BY <1>2 DEF StreamInv, NumberingInv, LogIsSound
    <2> QED
      BY <2>1, <1>2, EntryIsTheRow DEF StreamInv
  <1>4. /\ \A s, n : Entry(s, n)' = Entry(s, n)
        /\ Reached' = Reached
    BY <1>1 DEF Entry, Reached
  <1>5. ~Before(Reached, r)
    BY DEF DispatchInv, PassIsAhead, Reached
  <1>6. /\ channel'[r.sku] = Append(channel[r.sku], r.seq)
        /\ \A s \in SKUs \ {r.sku} : channel'[s] = channel[s]
    BY <1>1, <1>2 DEF StreamInv, TypeOK
  <1>7. channel[r.sku] \in Seq(Nat)
    BY <1>2 DEF StreamInv, TypeOK
  <1> DEFINE c == channel[r.sku]
  <1>8. /\ DOMAIN c = 1..Len(c) /\ Len(c) \in Nat
        /\ DOMAIN channel'[r.sku] = 1..(Len(c) + 1)
        /\ channel'[r.sku][Len(c) + 1] = r.seq
        /\ \A i \in 1..Len(c) : channel'[r.sku][i] = c[i]
    BY <1>2, <1>6, <1>7, AppendKeeps
  <1> DEFINE Sorted(s, ch, left) ==
               \A k \in DOMAIN ch :
                 /\ ch[k] \in 1..lastSeq[s]
                 /\ ~Before(Reached, Entry(s, ch[k]))
                 /\ \A q \in left : Before(Entry(s, ch[k]), q)
                 /\ \A l \in DOMAIN ch : k < l => Before(Entry(s, ch[k]), Entry(s, ch[l]))
  <1>9. \A s \in SKUs : Sorted(s, channel[s], todo)
    BY DEF ChannelsAreSorted
  <1>10. \A s \in SKUs \ {r.sku} : Sorted(s, channel'[s], todo')
    BY <1>1, <1>6, <1>9
  <1>11. Sorted(r.sku, channel'[r.sku], todo')
    <2> SUFFICES ASSUME NEW k \in 1..(Len(c) + 1)
                 PROVE  LET d == channel'[r.sku] IN
                        /\ d[k] \in 1..lastSeq[r.sku]
                        /\ ~Before(Reached, Entry(r.sku, d[k]))
                        /\ \A q \in todo' : Before(Entry(r.sku, d[k]), q)
                        /\ \A l \in 1..(Len(c) + 1) :
                             k < l => Before(Entry(r.sku, d[k]), Entry(r.sku, d[l]))
      BY <1>8
    <2>1. CASE k \in 1..Len(c)
      <3>1. Sorted(r.sku, c, todo)
        BY <1>2, <1>9
      <3>2. /\ c[k] \in 1..lastSeq[r.sku]
            /\ ~Before(Reached, Entry(r.sku, c[k]))
            /\ \A q \in todo : Before(Entry(r.sku, c[k]), q)
            /\ \A l \in 1..Len(c) : k < l => Before(Entry(r.sku, c[k]), Entry(r.sku, c[l]))
        BY <2>1, <3>1, <1>8
      <3>3. Before(Entry(r.sku, c[k]), r)
        BY <3>2
      <3>4. \A l \in 1..(Len(c) + 1) : l \in 1..Len(c) \/ l = Len(c) + 1
        BY <1>8
      <3> HIDE DEF c, Sorted
      <3> QED
        BY <2>1, <3>2, <3>3, <3>4, <1>1, <1>3, <1>8
    <2>2. CASE k = Len(c) + 1
      <3>1. \A l \in 1..(Len(c) + 1) : ~(k < l)
        BY <2>2, <1>8
      <3> HIDE DEF c, Sorted
      <3> QED
        BY <2>2, <3>1, <1>1, <1>3, <1>5, <1>8
    <2> QED
      BY <2>1, <2>2, <1>8
  <1>12. \A s \in SKUs : Sorted(s, channel'[s], todo')
    BY <1>10, <1>11
  <1> QED
    BY <1>12, <1>4, <1>1 DEF ChannelsAreSorted

\* As long as no pass fails, whatever is published once stays the only time and
\* in the cursor's order.
LEMMA NextOrder == OrderInv /\ [Next]_vars /\ [~DispatchFails]_vars => OrderInv'
  <1> SUFFICES ASSUME OrderInv, [Next]_vars, [~DispatchFails]_vars PROVE OrderInv'
    OBVIOUS
  <1>1. StreamInv' /\ DispatchInv'
    BY NextTypeOK, NextNumbering, NextTodo, NextDispatch DEF OrderInv, StreamInv
  <1>2. CASE UNCHANGED <<cursor, todo, upto, channel>>
    BY <1>1, <1>2, OrderFrame DEF OrderInv
  <1>3. CASE DispatcherStep
    BY <1>1, <1>3, OrderDispatch, OrderPublish DEF OrderInv, DispatcherStep
  <1>4. CASE DispatchFails
    BY <1>2, <1>4 DEF vars
  <1> QED
    BY <1>2, <1>3, <1>4, OthersLeavePass

\* The sorted channels are what the clients see.
LEMMA SortedIsInOrder == OrderInv => PublishedInOrder
  <1> SUFFICES ASSUME OrderInv, NEW s \in SKUs,
                      NEW k \in DOMAIN channel[s], NEW l \in DOMAIN channel[s], k < l
               PROVE  LET p == Entry(s, channel[s][k])
                          q == Entry(s, channel[s][l])
                      IN  Before(p, q) /\ (q.seq < p.seq => q.at = p.at)
    BY DEF PublishedInOrder
  <1> DEFINE p == Entry(s, channel[s][k])
             q == Entry(s, channel[s][l])
  <1>1. Before(p, q) /\ channel[s][k] \in 1..lastSeq[s] /\ channel[s][l] \in 1..lastSeq[s]
    BY DEF OrderInv, ChannelsAreSorted
  <1>2. /\ p \in log /\ q \in log /\ p.sku = s /\ q.sku = s
        /\ p.at \in Nat /\ q.at \in Nat
    BY <1>1, EntryIsTheRow, EntryPositions DEF OrderInv, StreamInv
  <1>3. q.seq < p.seq => q.at <= p.at
    BY <1>2 DEF OrderInv, StreamInv, NumberingInv, LogIsSound
  <1> HIDE DEF p, q
  <1>4. Before(p, q) /\ (q.seq < p.seq => q.at = p.at)
    BY <1>1, <1>2, <1>3 DEF Before
  <1> QED
    BY <1>4 DEF p, q

\* As long as no pass of the dispatcher fails, each channel carries an event at
\* most once and in the order of (created_at, id), and an event comes before one
\* with a lower number only if both were created in the same second.
THEOREM PublishedInOrderHolds == Spec /\ [][~DispatchFails]_vars => []PublishedInOrder
  <1>1. Init => OrderInv
    <2>1. Init => StreamInv
      BY InitTypeOK, InitNumbering DEF StreamInv, TodoIsCommitted, Init
    <2>2. Init => ChannelsAreSorted
      BY DEF Init, ChannelsAreSorted
    <2> QED
      BY <2>1, <2>2, InitDispatch DEF OrderInv
  <1> QED
    BY <1>1, NextOrder, SortedIsInOrder, PTL DEF Spec
=============================================================================

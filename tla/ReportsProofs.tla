---------------------------- MODULE ReportsProofs ----------------------------
(***************************************************************************)
(* Proof that the host report steps through the batches of each host:      *)
(* IngestTx, seen through the join of Reports, implements AtomicIngest,    *)
(* where the agents agree on verdicts. What a transaction has written is   *)
(* followed delta by delta, and each row of host_software is first taken   *)
(* for all that the delta which wrote it said (Kept). The join then shows  *)
(* the place of it, and the verdict of its catalog row. From there: the    *)
(* reports show the inventories that the agents delivered.                 *)
(***************************************************************************)
EXTENDS Reports, IngestTxProofs, InventoryProofs

-----------------------------------------------------------------------------
(* The invariant: what the deltas applied so far have made of tx. *)

\* The row of the host report that a primary key is.
At(pk) == <<pk[1][1], pk[2]>>

DeltaAt(h, k) == PayloadOf(h).deltas[k]
Done(h) == 1..tx[h].done

Upserted(h, w) ==
  \E k \in Done(h) : DeltaAt(h, k).op = "upsert" /\ RowOf(DeltaAt(h, k).item) = w
Removed(h, w) ==
  \E k \in Done(h) : DeltaAt(h, k).op = "remove" /\ RowOf(DeltaAt(h, k).item) = w

SeenSource(h, s) == \E pk \in tx[h].seen : pk[2] = s

\* No stage is reached before its deltas are applied.
Placed(h) ==
  /\ tx[h].done <= Len(PayloadOf(h).deltas)
  /\ pc[h] # "apply" => tx[h].done = Len(PayloadOf(h).deltas)
  /\ pc[h] = "reconcile" => PayloadOf(h).full

\* The transaction holds one row for each upsert that no removal followed.
RowsPut(h) ==
  /\ \A r \in tx[h].put :
       /\ r.host = job[h][1] /\ Pk(r) \in tx[h].seen
       /\ ~Removed(h, At(Pk(r)))
       /\ \E k \in Done(h) : /\ DeltaAt(h, k).op = "upsert"
                             /\ RowOf(DeltaAt(h, k).item) = At(Pk(r))
                             /\ DeltaAt(h, k).attr = r.attr
  /\ \A w \in RowIds : Upserted(h, w) /\ ~Removed(h, w) =>
       \E r \in tx[h].put : At(Pk(r)) = w
  /\ \A r, s \in tx[h].put : At(Pk(r)) = At(Pk(s)) => r = s

\* It touched the rows of its deltas, and after the reconciliation others of
\* the sources it has seen.
KeysTouched(h) ==
  /\ tx[h].seen \subseteq tx[h].touched
  /\ \A pk \in tx[h].seen : Upserted(h, At(pk))
  /\ \A w \in RowIds : Upserted(h, w) => \E pk \in tx[h].seen : At(pk) = w
  /\ \A w \in RowIds : Upserted(h, w) \/ Removed(h, w) =>
       \E pk \in tx[h].touched : At(pk) = w /\ \E c \in tx[h].entries : c.id = pk[1]
  /\ \A pk \in tx[h].touched :
       \/ Upserted(h, At(pk)) \/ Removed(h, At(pk))
       \/ pc[h] = "commit" /\ PayloadOf(h).full /\ SeenSource(h, pk[2])

\* The reconciliation has left no row of those sources out.
Reconciled(h) ==
  pc[h] = "commit" /\ PayloadOf(h).full =>
    \A r \in software : r.host = job[h][1] /\ SeenSource(h, r.source) =>
      Pk(r) \in tx[h].touched

Writing(h) == pc[h] \in {"apply", "reconcile", "commit"}
TxFits(h) == Writing(h) => Placed(h) /\ RowsPut(h) /\ KeysTouched(h) /\ Reconciled(h)

\* A host has one row per row of the report.
SoftwareKeyed ==
  \A r, s \in software : r.host = s.host /\ At(Pk(r)) = At(Pk(s)) => r = s

RInv == SoftwareKeyed /\ \A h \in Handlers : TxFits(h)

-----------------------------------------------------------------------------
(* What the steps have in common. *)

LEMMA InitRInv == Init => RInv
BY DEF Init, RInv, SoftwareKeyed, TxFits, Writing

\* What another handler has written stays as it is.
LEMMA TxKept ==
  ASSUME NEW g \in Handlers, TxFits(g), tx'[g] = tx[g], pc'[g] = pc[g],
         job'[g] = job[g],
         Writing(g) => \A r \in software' : r.host = job[g][1] => r \in software
  PROVE  TxFits(g)'
<1> SUFFICES ASSUME Writing(g)
             PROVE  (Placed(g) /\ RowsPut(g) /\ KeysTouched(g) /\ Reconciled(g))'
  BY DEF TxFits, Writing
<1>1. Placed(g) /\ RowsPut(g) /\ KeysTouched(g) /\ Reconciled(g)
  BY DEF TxFits
<1>2. /\ PayloadOf(g)' = PayloadOf(g) /\ Done(g)' = Done(g)
      /\ \A k : DeltaAt(g, k)' = DeltaAt(g, k)
      /\ \A s : SeenSource(g, s)' <=> SeenSource(g, s)
  BY DEF PayloadOf, Done, DeltaAt, SeenSource
<1>3. /\ \A w : Upserted(g, w)' <=> Upserted(g, w)
      /\ \A w : Removed(g, w)' <=> Removed(g, w)
  BY <1>2 DEF Upserted, Removed
<1>4. Placed(g)'
  BY <1>1, <1>2 DEF Placed
<1>5. RowsPut(g)'
  BY <1>1, <1>2, <1>3 DEF RowsPut
<1>6. KeysTouched(g)'
  BY <1>1, <1>2, <1>3 DEF KeysTouched
<1>7. Reconciled(g)'
  BY <1>1, <1>2 DEF Reconciled
<1>8. QED BY <1>4, <1>5, <1>6, <1>7

\* A handler that leaves the tables alone and is not writing afterwards.
LEMMA NotWriting ==
  ASSUME RInv, UNCHANGED software, NEW h \in Handlers, ~Writing(h)',
         \A g \in Handlers : g # h =>
           tx'[g] = tx[g] /\ pc'[g] = pc[g] /\ job'[g] = job[g]
  PROVE  RInv'
<1>1. SoftwareKeyed'
  BY DEF RInv, SoftwareKeyed
<1>2. ASSUME NEW g \in Handlers PROVE TxFits(g)'
  <2>1. CASE g = h
    BY <2>1 DEF TxFits
  <2>2. CASE g # h
    BY <2>2, TxKept DEF RInv
  <2>3. QED BY <2>1, <2>2
<1>3. QED BY <1>1, <1>2 DEF RInv

\* What is known of a handler that writes.
LEMMA WritingHandler ==
  ASSUME IInv, RInv, NEW h \in Handlers, Writing(h)
  PROVE  /\ Placed(h) /\ RowsPut(h) /\ KeysTouched(h) /\ Reconciled(h)
         /\ PayloadOf(h) \in Payload /\ PayloadOf(h).deltas \in Seq(Delta)
         /\ Len(PayloadOf(h).deltas) \in Nat
         /\ tx[h].done \in Nat
         /\ job[h] \in Hosts \X Nat /\ job[h][2] \in DOMAIN Payloads[job[h][1]]
         /\ \A k \in Done(h) : /\ DeltaAt(h, k) \in Delta
                               /\ k \in DOMAIN PayloadOf(h).deltas
                               /\ RowOf(DeltaAt(h, k).item) \in RowIds
<1>1. pc[h] # "idle"
  BY DEF Writing
<1>2. Placed(h) /\ RowsPut(h) /\ KeysTouched(h) /\ Reconciled(h)
  BY DEF RInv, TxFits
<1>3. PayloadOf(h) \in Payload /\ Len(PayloadOf(h).deltas) \in Nat
  BY <1>1, PayloadTyped
<1>4. PayloadOf(h).deltas \in Seq(Delta)
  BY <1>3 DEF Payload
<1>5. tx[h].done \in Nat
  BY DEF IInv, TypeOK, Tx
<1>6. job[h] \in Hosts \X Nat /\ job[h][2] \in DOMAIN Payloads[job[h][1]]
  BY <1>1 DEF IInv, Serving
<1>7. ASSUME NEW k \in Done(h)
      PROVE  /\ DeltaAt(h, k) \in Delta /\ k \in DOMAIN PayloadOf(h).deltas
             /\ RowOf(DeltaAt(h, k).item) \in RowIds
  <2>1. k \in 1..Len(PayloadOf(h).deltas)
    BY <1>2, <1>3, <1>5 DEF Placed, Done
  <2>2. DeltaAt(h, k) \in Delta /\ k \in DOMAIN PayloadOf(h).deltas
    BY <2>1, <1>4 DEF DeltaAt
  <2>3. DeltaAt(h, k).item \in Items
    BY <2>2 DEF Delta
  <2>4. QED BY <2>2, <2>3 DEF RowIds, RowsOf
<1>8. QED BY <1>2, <1>3, <1>4, <1>5, <1>6, <1>7
-----------------------------------------------------------------------------
(* The steps. *)

LEMMA FetchHostFits ==
  ASSUME IInv, RInv, NEW h \in Handlers, FetchHost(h)
  PROVE  RInv'
<1> DEFINE s == Stage(h, 0)
<1>1. /\ pc[h] = "host" /\ Goto(h, s)
      /\ UNCHANGED <<catalog, software, job, tx>>
  BY DEF FetchHost, dbVars
<1>2. /\ s \in {"apply", "reconcile", "commit"}
      /\ PayloadOf(h) \in Payload /\ Len(PayloadOf(h).deltas) \in Nat
  BY <1>1, PayloadTyped
<1>3. \A g \in Handlers : pc'[g] = IF g = h THEN s ELSE pc[g]
  BY <1>1 DEF Goto, IInv, TypeOK
<1>4. tx[h] = Fresh /\ PayloadOf(h)' = PayloadOf(h)
  BY <1>1 DEF IInv, Applying, PayloadOf
<1>5. /\ tx'[h].done = 0 /\ tx'[h].put = {} /\ tx'[h].seen = {} /\ tx'[h].touched = {}
  BY <1>1, <1>4 DEF Fresh
<1>6. Placed(h)'
  BY <1>2, <1>3, <1>4, <1>5 DEF Placed, Stage
<1>7. \A w : ~Upserted(h, w)' /\ ~Removed(h, w)'
  BY <1>5 DEF Upserted, Removed, Done
<1>8. RowsPut(h)' /\ KeysTouched(h)'
  BY <1>5, <1>7 DEF RowsPut, KeysTouched
<1>9. Reconciled(h)'
  BY <1>5 DEF Reconciled, SeenSource
<1>10. TxFits(h)'
  BY <1>6, <1>8, <1>9 DEF TxFits
<1>11. \A g \in Handlers : g # h => TxFits(g)'
  BY <1>1, <1>3, TxKept DEF RInv
<1>12. SoftwareKeyed'
  BY <1>1 DEF RInv, SoftwareKeyed
<1>13. QED BY <1>10, <1>11, <1>12 DEF RInv

\* What applying delta d changes: e is the catalog row it writes, pk and row the
\* row of host_software.
Effect(h, d, e, pk, row) ==
  /\ pk = <<e.id, SourceOf[d.item]>> /\ At(pk) = RowOf(d.item)
  /\ \A c \in tx[h].entries : c.key = e.key => c.id = e.id
  /\ e.key = e.id[1]
  /\ Pk(row) = pk /\ row.host = job[h][1] /\ row.attr = d.attr
  /\ tx'[h].done = tx[h].done + 1
  /\ tx'[h].entries = {c \in tx[h].entries : c.key # e.key} \cup {e}
  /\ tx'[h].touched = tx[h].touched \cup {pk}
  /\ d.op = "upsert" =>
       /\ tx'[h].put = {r \in tx[h].put : Pk(r) # pk} \cup {row}
       /\ tx'[h].seen = tx[h].seen \cup {pk}
  /\ d.op = "remove" =>
       /\ tx'[h].put = {r \in tx[h].put : Pk(r) # pk}
       /\ tx'[h].seen = tx[h].seen
  /\ \A g \in Handlers : g # h => tx'[g] = tx[g]

LEMMA ApplyEffect ==
  ASSUME IInv, RInv, NEW h \in Handlers, ApplyDelta(h)
  PROVE  LET d == NextDelta(h)
             n == tx[h].done + 1
         IN /\ d \in Delta /\ d = DeltaAt(h, n) /\ n \in 1..Len(PayloadOf(h).deltas)
            /\ PayloadOf(h)' = PayloadOf(h)
            /\ \E e, pk, row : Effect(h, d, e, pk, row)
<1> DEFINE d == NextDelta(h)
           n == tx[h].done + 1
           e == UpsertCatalog(h, d)
           pk == <<e.id, SourceOf[d.item]>>
           row == [host |-> job[h][1], id |-> e.id, source |-> SourceOf[d.item],
                   attr |-> d.attr]
           upsert == d.op = "upsert"
           new == [done    |-> tx[h].done + 1,
                   entries |-> {c \in tx[h].entries : c.key # e.key} \cup {e},
                   put     |-> {r \in tx[h].put : Pk(r) # pk} \cup
                               IF upsert THEN {row} ELSE {},
                   touched |-> tx[h].touched \cup {pk},
                   seen    |-> tx[h].seen \cup IF upsert THEN {pk} ELSE {}]
<1>1. pc[h] = "apply" /\ job' = job /\ tx' = [tx EXCEPT ![h] = new]
  BY DEF ApplyDelta
<1>2. Writing(h) /\ PayloadOf(h)' = PayloadOf(h)
  BY <1>1 DEF Writing, PayloadOf
<1>3. n \in 1..Len(PayloadOf(h).deltas)
  <2>1. tx[h].done < Len(PayloadOf(h).deltas)
    BY <1>1 DEF IInv, Applying
  <2>2. QED BY <2>1, <1>2, WritingHandler
<1>4. d \in Delta /\ d = DeltaAt(h, n)
  BY <1>2, <1>3, WritingHandler DEF NextDelta, DeltaAt
<1>5. /\ e \in Entry /\ e.key = CatalogOf[d.item] /\ e.id[1] = e.key
      /\ \A c \in tx[h].entries : c.key = e.key => c.id = e.id
  BY <1>4, UpsertEffect
<1>6. At(pk) = RowOf(d.item)
  <2> HIDE DEF e
  <2>1. QED BY <1>5 DEF At, RowOf
<1>7. Pk(row) = pk /\ row.host = job[h][1] /\ row.attr = d.attr
  <2> HIDE DEF e
  <2>1. QED BY DEF Pk
<1>8. tx'[h] = new /\ \A g \in Handlers : g # h => tx'[g] = tx[g]
  <2> HIDE DEF new
  <2>1. QED BY <1>1 DEF IInv, TypeOK
<1>9. /\ new.done = n
      /\ new.entries = {c \in tx[h].entries : c.key # e.key} \cup {e}
      /\ new.touched = tx[h].touched \cup {pk}
      /\ new.put = {r \in tx[h].put : Pk(r) # pk} \cup IF upsert THEN {row} ELSE {}
      /\ new.seen = tx[h].seen \cup IF upsert THEN {pk} ELSE {}
  <2> HIDE DEF e, pk, row, upsert
  <2>1. QED OBVIOUS
<1> HIDE DEF e, pk, row, new
<1>10. /\ upsert => /\ new.put = {r \in tx[h].put : Pk(r) # pk} \cup {row}
                    /\ new.seen = tx[h].seen \cup {pk}
       /\ d.op = "remove" => /\ new.put = {r \in tx[h].put : Pk(r) # pk}
                             /\ new.seen = tx[h].seen
  BY <1>9
<1>11. pk = <<e.id, SourceOf[d.item]>>
  BY DEF pk
<1> HIDE DEF d, n
<1>12. /\ e.key = e.id[1] /\ e \in Entry
       /\ \A c \in tx[h].entries : c.key = e.key => c.id = e.id
  BY <1>5
<1>13. Effect(h, d, e, pk, row)
  BY <1>6, <1>7, <1>8, <1>9, <1>10, <1>11, <1>12 DEF Effect, n
<1>14. QED BY <1>2, <1>3, <1>4, <1>12, <1>13 DEF d, n

LEMMA ApplyDeltaFits ==
  ASSUME DiffOrder, IInv, RInv, NEW h \in Handlers, ApplyDelta(h)
  PROVE  RInv'
<1> DEFINE d == NextDelta(h)
           n == tx[h].done + 1
           w0 == RowOf(d.item)
<1>1. /\ d \in Delta /\ d = DeltaAt(h, n) /\ n \in 1..Len(PayloadOf(h).deltas)
      /\ PayloadOf(h)' = PayloadOf(h)
  BY ApplyEffect
<1>2. PICK e, pk, row : Effect(h, d, e, pk, row)
  BY ApplyEffect
<1>3. d.op \in {"upsert", "remove"} /\ d.item \in Items /\ w0 \in RowIds
  BY <1>1 DEF Delta, RowIds, RowsOf
<1>4. /\ pc[h] = "apply" /\ UNCHANGED <<catalog, software, job>>
      /\ Goto(h, Stage(h, n))
      /\ \A g \in Handlers : g # h => tx'[g] = tx[g]
  <2>1. pc[h] = "apply" /\ UNCHANGED <<catalog, software, job>> /\ Goto(h, Stage(h, n))
    BY DEF ApplyDelta, dbVars
  <2>2. QED BY <2>1, <1>2 DEF Effect
<1>5. /\ Writing(h) /\ RowsPut(h) /\ KeysTouched(h)
      /\ tx[h].done \in Nat /\ Len(PayloadOf(h).deltas) \in Nat
      /\ \A k \in Done(h) : DeltaAt(h, k) \in Delta /\ RowOf(DeltaAt(h, k).item) \in RowIds
  BY <1>4, WritingHandler DEF Writing
<1>6. /\ \A g \in Handlers : pc'[g] = IF g = h THEN Stage(h, n) ELSE pc[g]
      /\ Stage(h, n) \in {"apply", "reconcile", "commit"}
  BY <1>4, <1>5, PayloadTyped DEF Goto, IInv, TypeOK
<1> DEFINE put == {r \in tx[h].put : Pk(r) # pk}
<1>7. /\ pk = <<e.id, SourceOf[d.item]>> /\ At(pk) = w0
      /\ \A c \in tx[h].entries : c.key = e.key => c.id = e.id
      /\ e.key = e.id[1]
      /\ Pk(row) = pk /\ row.host = job[h][1] /\ row.attr = d.attr
      /\ tx'[h].done = n
      /\ tx'[h].entries = {c \in tx[h].entries : c.key # e.key} \cup {e}
      /\ tx'[h].touched = tx[h].touched \cup {pk}
      /\ d.op = "upsert" => tx'[h].put = put \cup {row} /\ tx'[h].seen = tx[h].seen \cup {pk}
      /\ d.op = "remove" => tx'[h].put = put /\ tx'[h].seen = tx[h].seen
  BY <1>2 DEF Effect
<1> HIDE DEF d, n, w0
<1>8. /\ Done(h)' = Done(h) \cup {n} /\ \A k : DeltaAt(h, k)' = DeltaAt(h, k)
      /\ DeltaAt(h, n) = d /\ RowOf(d.item) = w0
  <2>1. Done(h)' = Done(h) \cup {n}
    BY <1>5, <1>7 DEF Done, n
  <2>2. \A k : DeltaAt(h, k)' = DeltaAt(h, k)
    BY <1>1 DEF DeltaAt
  <2>3. DeltaAt(h, n) = d /\ RowOf(d.item) = w0
    BY <1>1 DEF w0
  <2>4. QED BY <2>1, <2>2, <2>3
<1>9. /\ \A w : Upserted(h, w)' <=> Upserted(h, w) \/ (d.op = "upsert" /\ w = w0)
      /\ \A w : Removed(h, w)' <=> Removed(h, w) \/ (d.op = "remove" /\ w = w0)
  BY <1>8 DEF Upserted, Removed
<1>10. d.op = "upsert" => \A w : ~Removed(h, w)
  <2>1. SUFFICES ASSUME d.op = "upsert", NEW k \in Done(h), DeltaAt(h, k).op = "remove"
                 PROVE  FALSE
    BY DEF Removed
  <2>2. /\ job[h][1] \in Hosts /\ job[h][2] \in DOMAIN Payloads[job[h][1]]
        /\ PayloadOf(h).deltas \in Seq(Delta)
    BY <1>5, WritingHandler
  <2>3. k \in DOMAIN PayloadOf(h).deltas /\ n \in DOMAIN PayloadOf(h).deltas /\ k < n
    BY <1>1, <1>5, <2>2, WritingHandler DEF Done, n
  <2>4. n < k
    BY <1>8, <2>1, <2>2, <2>3 DEF DiffOrder, PayloadOf, DeltaAt
  <2>5. QED BY <2>3, <2>4, <1>5 DEF Done, n
<1>11. \A r \in tx[h].put : Pk(r) # pk => At(Pk(r)) # w0
  <2>1. SUFFICES ASSUME NEW r \in tx[h].put, At(Pk(r)) = w0 PROVE Pk(r) = pk
    OBVIOUS
  <2>2. r.id[1] = e.id[1] /\ r.source = SourceOf[d.item]
    BY <1>7, <2>1 DEF At, Pk
  <2>3. PICK c \in tx[h].entries : c.id = r.id
    BY DEF IInv, EntriesFit
  <2>4. c.key = e.key
    BY <1>7, <2>2, <2>3 DEF IInv, IdsNameKeys
  <2>5. QED BY <1>7, <2>2, <2>3, <2>4 DEF Pk
<1>12. Placed(h)'
  BY <1>1, <1>5, <1>6, <1>7 DEF Placed, Stage
<1>13. RowsPut(h)'
  <2>1. ASSUME NEW r \in tx'[h].put
        PROVE  /\ r.host = job'[h][1] /\ Pk(r) \in tx'[h].seen
               /\ ~Removed(h, At(Pk(r)))'
               /\ \E k \in Done(h)' : /\ DeltaAt(h, k)'.op = "upsert"
                                      /\ RowOf(DeltaAt(h, k)'.item) = At(Pk(r))
                                      /\ DeltaAt(h, k)'.attr = r.attr
    <3>1. CASE r \in tx[h].put /\ Pk(r) # pk
      <4>1. /\ r.host = job[h][1] /\ Pk(r) \in tx[h].seen /\ ~Removed(h, At(Pk(r)))
            /\ \E k \in Done(h) : /\ DeltaAt(h, k).op = "upsert"
                                  /\ RowOf(DeltaAt(h, k).item) = At(Pk(r))
                                  /\ DeltaAt(h, k).attr = r.attr
        BY <3>1, <1>5 DEF RowsPut
      <4>2. ~Removed(h, At(Pk(r)))'
        BY <4>1, <3>1, <1>9, <1>11
      <4>3. Pk(r) \in tx'[h].seen
        BY <4>1, <1>7, <1>3
      <4>4. QED BY <4>1, <4>2, <4>3, <1>4, <1>8
    <3>2. CASE r = row /\ d.op = "upsert"
      <4>1. ~Removed(h, At(Pk(r)))'
        BY <3>2, <1>9, <1>10
      <4>2. Pk(r) \in tx'[h].seen
        BY <3>2, <1>7
      <4>3. QED BY <3>2, <4>1, <4>2, <1>7, <1>4, <1>8
    <3>3. QED BY <3>1, <3>2, <2>1, <1>7, <1>3
  <2>2. ASSUME NEW w \in RowIds, Upserted(h, w)', ~Removed(h, w)'
        PROVE  \E r \in tx'[h].put : At(Pk(r)) = w
    <3>1. CASE w = w0
      <4>1. d.op = "upsert"
        BY <3>1, <2>2, <1>3, <1>9
      <4>2. QED BY <3>1, <4>1, <1>7
    <3>2. CASE w # w0
      <4>1. PICK r \in tx[h].put : At(Pk(r)) = w
        BY <3>2, <2>2, <1>5, <1>9 DEF RowsPut
      <4>2. Pk(r) # pk
        BY <3>2, <4>1, <1>7
      <4>3. QED BY <4>1, <4>2, <1>7, <1>3
    <3>3. QED BY <3>1, <3>2
  <2>3. ASSUME NEW r \in tx'[h].put, NEW s \in tx'[h].put, At(Pk(r)) = At(Pk(s))
        PROVE  r = s
    <3>1. /\ r = row \/ (r \in tx[h].put /\ At(Pk(r)) # w0)
          /\ s = row \/ (s \in tx[h].put /\ At(Pk(s)) # w0)
          /\ At(Pk(row)) = w0
      BY <2>3, <1>7, <1>3, <1>11
    <3>2. QED BY <3>1, <2>3, <1>5 DEF RowsPut
  <2>4. QED BY <2>1, <2>2, <2>3 DEF RowsPut
<1>14. KeysTouched(h)'
  <2>1. /\ tx[h].touched \subseteq tx'[h].touched /\ pk \in tx'[h].touched
        /\ tx[h].seen \subseteq tx'[h].seen
    BY <1>7, <1>3
  <2>2. tx'[h].seen \subseteq tx'[h].touched
    BY <1>7, <1>3, <1>5 DEF KeysTouched
  <2>3. \A p \in tx'[h].seen : Upserted(h, At(p))'
    BY <1>7, <1>3, <1>5, <1>9 DEF KeysTouched
  <2>4. \A w \in RowIds : Upserted(h, w)' => \E p \in tx'[h].seen : At(p) = w
    BY <1>7, <1>3, <1>5, <1>9, <2>1 DEF KeysTouched
  <2>5. ASSUME NEW w \in RowIds, Upserted(h, w)' \/ Removed(h, w)'
        PROVE  \E p \in tx'[h].touched : At(p) = w /\ \E c \in tx'[h].entries : c.id = p[1]
    <3>1. CASE w = w0
      <4>1. e \in tx'[h].entries /\ e.id = pk[1]
        BY <1>7
      <4>2. QED BY <3>1, <4>1, <2>1, <1>7
    <3>2. CASE w # w0
      <4>1. PICK p \in tx[h].touched : At(p) = w /\ \E c \in tx[h].entries : c.id = p[1]
        BY <3>2, <2>5, <1>5, <1>9 DEF KeysTouched
      <4>2. PICK c \in tx[h].entries : c.id = p[1]
        BY <4>1
      <4>3. \E b \in tx'[h].entries : b.id = p[1]
        <5>1. CASE c.key = e.key
          BY <5>1, <4>2, <1>7
        <5>2. CASE c.key # e.key
          BY <5>2, <4>2, <1>7
        <5>3. QED BY <5>1, <5>2
      <4>4. QED BY <4>1, <4>3, <2>1
    <3>3. QED BY <3>1, <3>2
  <2>6. ASSUME NEW p \in tx'[h].touched
        PROVE  Upserted(h, At(p))' \/ Removed(h, At(p))'
    <3>1. CASE p = pk
      BY <3>1, <1>7, <1>3, <1>9
    <3>2. CASE p \in tx[h].touched
      BY <3>2, <1>4, <1>5, <1>9 DEF KeysTouched
    <3>3. QED BY <3>1, <3>2, <2>6, <1>7
  <2>7. QED BY <2>2, <2>3, <2>4, <2>5, <2>6 DEF KeysTouched
<1>15. Reconciled(h)'
  <2>1. ~(pc'[h] = "commit" /\ PayloadOf(h)'.full)
    BY <1>1, <1>6 DEF Stage
  <2>2. QED BY <2>1 DEF Reconciled
<1>16. TxFits(h)'
  BY <1>12, <1>13, <1>14, <1>15 DEF TxFits
<1>17. \A g \in Handlers : g # h => TxFits(g)'
  BY <1>4, <1>6, TxKept DEF RInv
<1>18. SoftwareKeyed'
  BY <1>4 DEF RInv, SoftwareKeyed
<1>19. QED BY <1>16, <1>17, <1>18 DEF RInv
LEMMA ReconcileFits ==
  ASSUME IInv, RInv, NEW h \in Handlers, Reconcile(h)
  PROVE  RInv'
<1> DEFINE sources == {pk[2] : pk \in tx[h].seen}
           gone == {r \in SoftwareSeen(h) : /\ r.host = job[h][1]
                                            /\ r.source \in sources
                                            /\ Pk(r) \notin tx[h].seen}
<1>1. /\ pc[h] = "reconcile" /\ Goto(h, "commit")
      /\ UNCHANGED <<catalog, software, job>>
      /\ tx' = [tx EXCEPT ![h].touched = @ \cup {Pk(r) : r \in gone},
                          ![h].put = @ \ gone]
  BY DEF Reconcile, dbVars
<1>2. \A s : s \in sources <=> SeenSource(h, s)
  BY DEF SeenSource
<1>3. \A r \in gone : SeenSource(h, r.source) /\ Pk(r) \notin tx[h].seen
  BY <1>2
<1>4. \A r \in software :
        r.host = job[h][1] /\ SeenSource(h, r.source) =>
          r \in gone \/ Pk(r) \in tx[h].seen \/ Pk(r) \in tx[h].touched
  BY <1>2 DEF SoftwareSeen
<1> HIDE DEF gone, sources
<1>5. /\ Writing(h) /\ Placed(h) /\ RowsPut(h) /\ KeysTouched(h)
      /\ PayloadOf(h)' = PayloadOf(h)
  BY <1>1, WritingHandler DEF Writing, PayloadOf
<1>6. /\ \A g \in Handlers : pc'[g] = IF g = h THEN "commit" ELSE pc[g]
      /\ \A g \in Handlers : g # h => tx'[g] = tx[g]
  BY <1>1 DEF Goto, IInv, TypeOK
<1>7. /\ tx'[h].done = tx[h].done /\ tx'[h].seen = tx[h].seen
      /\ tx'[h].entries = tx[h].entries
      /\ tx'[h].touched = tx[h].touched \cup {Pk(r) : r \in gone}
      /\ tx'[h].put = tx[h].put \ gone
  BY <1>1 DEF IInv, TypeOK, Tx
<1>8. tx'[h].put = tx[h].put
  BY <1>3, <1>5, <1>7 DEF RowsPut
<1>9. /\ Done(h)' = Done(h) /\ \A k : DeltaAt(h, k)' = DeltaAt(h, k)
      /\ \A s : SeenSource(h, s)' <=> SeenSource(h, s)
  BY <1>5, <1>7 DEF Done, DeltaAt, SeenSource
<1>10. /\ \A w : Upserted(h, w)' <=> Upserted(h, w)
       /\ \A w : Removed(h, w)' <=> Removed(h, w)
  BY <1>9 DEF Upserted, Removed
<1>11. Placed(h)'
  BY <1>1, <1>5, <1>6, <1>7 DEF Placed
<1>12. RowsPut(h)'
  <2>1. ASSUME NEW r \in tx'[h].put
        PROVE  /\ r.host = job'[h][1] /\ Pk(r) \in tx'[h].seen
               /\ ~Removed(h, At(Pk(r)))'
               /\ \E k \in Done(h)' : /\ DeltaAt(h, k)'.op = "upsert"
                                      /\ RowOf(DeltaAt(h, k)'.item) = At(Pk(r))
                                      /\ DeltaAt(h, k)'.attr = r.attr
    <3>1. /\ r.host = job[h][1] /\ Pk(r) \in tx[h].seen /\ ~Removed(h, At(Pk(r)))
          /\ \E k \in Done(h) : /\ DeltaAt(h, k).op = "upsert"
                                /\ RowOf(DeltaAt(h, k).item) = At(Pk(r))
                                /\ DeltaAt(h, k).attr = r.attr
      BY <2>1, <1>5, <1>8 DEF RowsPut
    <3>2. QED BY <3>1, <1>1, <1>7, <1>9, <1>10
  <2>2. ASSUME NEW w \in RowIds, Upserted(h, w)', ~Removed(h, w)'
        PROVE  \E r \in tx'[h].put : At(Pk(r)) = w
    BY <2>2, <1>5, <1>8, <1>10 DEF RowsPut
  <2>3. \A r, s \in tx'[h].put : At(Pk(r)) = At(Pk(s)) => r = s
    BY <1>5, <1>8 DEF RowsPut
  <2>4. QED BY <2>1, <2>2, <2>3 DEF RowsPut
<1>13. KeysTouched(h)'
  <2>1. /\ tx'[h].seen \subseteq tx'[h].touched
        /\ \A pk \in tx'[h].seen : Upserted(h, At(pk))'
        /\ \A w \in RowIds : Upserted(h, w)' => \E pk \in tx'[h].seen : At(pk) = w
    BY <1>5, <1>7, <1>10 DEF KeysTouched
  <2>2. \A w \in RowIds : Upserted(h, w)' \/ Removed(h, w)' =>
          \E pk \in tx'[h].touched :
            At(pk) = w /\ \E c \in tx'[h].entries : c.id = pk[1]
    <3>1. tx[h].touched \subseteq tx'[h].touched /\ tx'[h].entries = tx[h].entries
      BY <1>7
    <3>2. QED BY <3>1, <1>5, <1>10 DEF KeysTouched
  <2>3. ASSUME NEW pk \in tx'[h].touched
        PROVE  \/ Upserted(h, At(pk))' \/ Removed(h, At(pk))'
               \/ SeenSource(h, pk[2])'
    <3>1. CASE pk \in tx[h].touched
      BY <3>1, <1>1, <1>5, <1>10 DEF KeysTouched
    <3>2. CASE \E r \in gone : pk = Pk(r)
      BY <3>2, <1>3, <1>9 DEF Pk
    <3>3. QED BY <3>1, <3>2, <2>3, <1>7
  <2>4. pc'[h] = "commit" /\ PayloadOf(h)'.full
    BY <1>1, <1>5, <1>6 DEF Placed
  <2>5. QED BY <2>1, <2>2, <2>3, <2>4 DEF KeysTouched
<1>14. Reconciled(h)'
  <2>1. ASSUME NEW r \in software, r.host = job[h][1], SeenSource(h, r.source)
        PROVE  Pk(r) \in tx'[h].touched
    BY <2>1, <1>4, <1>5, <1>7 DEF KeysTouched
  <2>2. QED BY <2>1, <1>1, <1>9 DEF Reconciled
<1>15. TxFits(h)'
  BY <1>11, <1>12, <1>13, <1>14 DEF TxFits
<1>16. \A g \in Handlers : g # h => TxFits(g)'
  BY <1>1, <1>6, TxKept DEF RInv
<1>17. SoftwareKeyed'
  BY <1>1 DEF RInv, SoftwareKeyed
<1>18. QED BY <1>15, <1>16, <1>17 DEF RInv

\* The row of a key has one id, in the tables and in a transaction.
LEMMA IdsAgree ==
  ASSUME IInv, NEW h \in Handlers, NEW c \in tx[h].entries, NEW r \in software,
         r.id[1] = c.id[1]
  PROVE  r.id = c.id
<1>1. PICK d \in catalog : d.id = r.id
  BY DEF IInv, Referenced
<1>2. d.key = c.key
  BY <1>1 DEF IInv, IdsNameKeys
<1>3. QED BY <1>1, <1>2 DEF IInv, EntriesFit

\* The rows a commit leaves.
LEMMA CommittedRows ==
  ASSUME IInv, RInv, NEW h \in Handlers, Commit(h)
  PROVE  /\ pc[h] = "commit" /\ Writing(h)
         /\ \A r : r \in software' <=>
              \/ r \in tx[h].put
              \/ r \in software /\ (r.host = job[h][1] => Pk(r) \notin tx[h].touched)
         /\ \A r \in tx[h].put : r.host = job[h][1]
<1>1. pc[h] = "commit" /\ software' = SoftwareSeen(h)
  BY DEF Commit
<1>2. Writing(h) /\ RowsPut(h)
  BY <1>1, WritingHandler DEF Writing
<1>3. QED BY <1>1, <1>2 DEF RowsPut, SoftwareSeen

\* A committed row that stays is not the same as one that the transaction put.
LEMMA NoRowTwice ==
  ASSUME IInv, RInv, NEW h \in Handlers, Writing(h), NEW r \in software,
         NEW s \in tx[h].put, At(Pk(r)) = At(Pk(s))
  PROVE  Pk(r) \in tx[h].touched
<1>1. PICK c \in tx[h].entries : c.id = s.id
  BY DEF IInv, EntriesFit
<1>2. r.id[1] = s.id[1] /\ r.source = s.source
  BY DEF At, Pk
<1>3. r.id = s.id
  BY <1>1, <1>2, IdsAgree
<1>4. Pk(s) \in tx[h].touched
  BY WritingHandler DEF RowsPut, KeysTouched
<1>5. QED BY <1>2, <1>3, <1>4 DEF Pk

LEMMA CommitFits ==
  ASSUME IInv, RInv, NEW h \in Handlers, Commit(h)
  PROVE  RInv'
<1>1. /\ pc[h] = "commit" /\ Writing(h)
      /\ \A r : r \in software' <=>
           \/ r \in tx[h].put
           \/ r \in software /\ (r.host = job[h][1] => Pk(r) \notin tx[h].touched)
      /\ \A r \in tx[h].put : r.host = job[h][1]
  BY CommittedRows
<1>2. \A g \in Handlers : /\ g # h => tx'[g] = tx[g] /\ pc'[g] = pc[g] /\ job'[g] = job[g]
                          /\ g = h => pc'[g] = "idle"
  BY DEF Commit, Answer, IInv, TypeOK
<1>3. RowsPut(h)
  BY <1>1, WritingHandler
<1>4. SoftwareKeyed'
  <2>1. SUFFICES ASSUME NEW r \in software', NEW s \in software', r.host = s.host,
                        At(Pk(r)) = At(Pk(s))
                 PROVE  r = s
    BY DEF SoftwareKeyed
  <2>2. CASE r \in tx[h].put /\ s \in tx[h].put
    BY <2>1, <2>2, <1>3 DEF RowsPut
  <2>3. CASE r \in software /\ s \in software
    BY <2>1, <2>3 DEF RInv, SoftwareKeyed
  <2>4. CASE r \in tx[h].put /\ s \notin tx[h].put
    BY <2>1, <2>4, <1>1, NoRowTwice
  <2>5. CASE r \notin tx[h].put /\ s \in tx[h].put
    BY <2>1, <2>5, <1>1, NoRowTwice
  <2>6. QED BY <2>1, <2>2, <2>3, <2>4, <2>5, <1>1
<1>5. ASSUME NEW g \in Handlers, g # h, Writing(g)
      PROVE  \A r \in software' : r.host = job[g][1] => r \in software
  <2>1. job[g][1] # job[h][1]
    BY <1>1, <1>5 DEF IInv, SingleWriter, Recorded, Recording, Writing
  <2>2. QED BY <2>1, <1>1
<1>6. ASSUME NEW g \in Handlers PROVE TxFits(g)'
  <2>1. CASE g = h
    BY <2>1, <1>2 DEF TxFits, Writing
  <2>2. CASE g # h
    BY <2>2, <1>2, <1>5, TxKept DEF RInv
  <2>3. QED BY <2>1, <2>2
<1>7. QED BY <1>4, <1>6 DEF RInv

\* Steps that write nothing.
LEMMA OtherStepFits ==
  ASSUME IInv, RInv,
         \/ \E a \in Hosts : TimeOut(a) \/ \E h \in Handlers : Send(a, h)
         \/ \E h \in Handlers :
              \/ CheckSeen(h) \/ Begin(h) \/ RecordBatch(h) \/ RejectDuplicate(h)
              \/ BreakDeadlock(h) \/ Fail(h)
         \/ UNCHANGED vars
  PROVE  RInv' /\ UNCHANGED dbVars
<1>1. CASE UNCHANGED vars \/ \E a \in Hosts : TimeOut(a)
  <2>1. UNCHANGED <<ledger, catalog, software, pc, job, tx>>
    BY <1>1 DEF vars, dbVars, TimeOut
  <2>2. \A g \in Handlers : TxFits(g)'
    BY <2>1, TxKept DEF RInv
  <2>3. SoftwareKeyed'
    BY <2>1 DEF RInv, SoftwareKeyed
  <2>4. QED BY <2>1, <2>2, <2>3 DEF RInv, dbVars
<1>2. ASSUME NEW h \in Handlers,
             UNCHANGED dbVars, ~Writing(h)',
             \A g \in Handlers : g # h =>
               tx'[g] = tx[g] /\ pc'[g] = pc[g] /\ job'[g] = job[g]
      PROVE  RInv' /\ UNCHANGED dbVars
  BY <1>2, NotWriting DEF dbVars
<1>3. ASSUME NEW a \in Hosts, NEW h \in Handlers, Send(a, h)
      PROVE  RInv' /\ UNCHANGED dbVars
  <2>1. /\ UNCHANGED dbVars /\ pc'[h] = "check"
        /\ \A g \in Handlers : g # h =>
             tx'[g] = tx[g] /\ pc'[g] = pc[g] /\ job'[g] = job[g]
    BY <1>3 DEF Send, IInv, TypeOK
  <2>2. QED BY <2>1, <1>2 DEF Writing
<1>4. ASSUME NEW h \in Handlers, NEW code, Answer(h, code)
      PROVE  /\ pc'[h] = "idle"
             /\ \A g \in Handlers : g # h =>
                  tx'[g] = tx[g] /\ pc'[g] = pc[g] /\ job'[g] = job[g]
  BY <1>4 DEF Answer, IInv, TypeOK
<1>5. ASSUME NEW h \in Handlers, RejectDuplicate(h) \/ BreakDeadlock(h) \/ Fail(h)
      PROVE  RInv' /\ UNCHANGED dbVars
  <2>1. Answer(h, 500) /\ UNCHANGED dbVars
    BY <1>5 DEF RejectDuplicate, BreakDeadlock, Fail
  <2>2. QED BY <2>1, <1>2, <1>4 DEF Writing
<1>6. ASSUME NEW h \in Handlers, NEW s, Goto(h, s), UNCHANGED <<job, tx>>
      PROVE  /\ pc'[h] = s
             /\ \A g \in Handlers : g # h =>
                  tx'[g] = tx[g] /\ pc'[g] = pc[g] /\ job'[g] = job[g]
  BY <1>6 DEF Goto, IInv, TypeOK
<1>7. ASSUME NEW h \in Handlers, Begin(h) \/ RecordBatch(h)
      PROVE  RInv' /\ UNCHANGED dbVars
  <2>1. PICK s \in {"record", "host"} : Goto(h, s) /\ UNCHANGED <<dbVars, job, tx>>
    BY <1>7 DEF Begin, RecordBatch
  <2>2. QED BY <2>1, <1>2, <1>6 DEF Writing
<1>8. ASSUME NEW h \in Handlers, CheckSeen(h)
      PROVE  RInv' /\ UNCHANGED dbVars
  <2>1. CASE Answer(h, 200)
    BY <2>1, <1>8, <1>2, <1>4 DEF CheckSeen, Writing
  <2>2. CASE Goto(h, "begin") /\ UNCHANGED <<job, tx>>
    BY <2>2, <1>8, <1>2, <1>6 DEF CheckSeen, Writing
  <2>3. QED BY <2>1, <2>2, <1>8 DEF CheckSeen
<1>9. QED BY <1>1, <1>3, <1>5, <1>7, <1>8
LEMMA NextRInv ==
  ASSUME DiffOrder, IInv, RInv, [Next]_vars
  PROVE  RInv'
<1>1. ASSUME NEW h \in Handlers,
             FetchHost(h) \/ ApplyDelta(h) \/ Reconcile(h) \/ Commit(h)
      PROVE  RInv'
  BY <1>1, FetchHostFits, ApplyDeltaFits, ReconcileFits, CommitFits
<1>2. QED BY <1>1, OtherStepFits DEF Next, Handle

-----------------------------------------------------------------------------
(* What the rows of host_software keep of the deltas. *)

\* Row w of host a, as the delta that wrote it told it.
Kept(a, w) ==
  LET R == {r \in software : r.host = a /\ At(Pk(r)) = w}
  IN IF R = {} THEN NoAttr ELSE ColumnsOf[(CHOOSE r \in R : TRUE).attr]

KeptFits ==
  \A a \in Hosts, w \in RowIds :
    /\ \A r \in software : r.host = a /\ At(Pk(r)) = w => Kept(a, w) = ColumnsOf[r.attr]
    /\ (\A r \in software : ~(r.host = a /\ At(Pk(r)) = w)) => Kept(a, w) = NoAttr

LEMMA KeptIs == IInv /\ RInv => KeptFits
<1> SUFFICES ASSUME IInv, RInv, NEW a \in Hosts, NEW w \in RowIds
             PROVE  /\ \A r \in software :
                         r.host = a /\ At(Pk(r)) = w => Kept(a, w) = ColumnsOf[r.attr]
                    /\ (\A r \in software : ~(r.host = a /\ At(Pk(r)) = w)) =>
                         Kept(a, w) = NoAttr
  BY DEF KeptFits
<1> DEFINE R == {r \in software : r.host = a /\ At(Pk(r)) = w}
           q == CHOOSE r \in R : TRUE
<1>1. Kept(a, w) = IF R = {} THEN NoAttr ELSE ColumnsOf[q.attr]
  BY DEF Kept
<1>2. ASSUME NEW r \in software, r.host = a, At(Pk(r)) = w
      PROVE  R # {} /\ r = q
  <2>1. r \in R /\ q \in R
    BY <1>2
  <2> HIDE DEF q
  <2>2. q \in software /\ q.host = a /\ At(Pk(q)) = w
    BY <2>1
  <2>3. QED BY <2>1, <2>2, <1>2 DEF RInv, SoftwareKeyed
<1>3. (\A r \in software : ~(r.host = a /\ At(Pk(r)) = w)) => R = {}
  OBVIOUS
<1> HIDE DEF R, q
<1>4. QED BY <1>1, <1>2, <1>3

\* Batch b is the one that payload p spells out.
Spells(p, b) ==
  LET D == p.deltas
  IN /\ b.full = p.full
     /\ \A k \in DOMAIN D : D[k].op = "upsert" =>
          b.upsert[D[k].item] = D[k].attr /\ D[k].item \in Present(b.upsert)
     /\ \A i \in Present(b.upsert) :
          \E k \in DOMAIN D : D[k].op = "upsert" /\ D[k].item = i
     /\ \A k \in DOMAIN D : D[k].op = "remove" => D[k].item \in b.remove
     /\ \A i \in b.remove : \E k \in DOMAIN D : D[k].op = "remove" /\ D[k].item = i

\* The batch behind a payload.
LEMMA BatchBehind ==
  ASSUME DiffOrder, NEW a \in Hosts, NEW n \in DOMAIN Payloads[a]
  PROVE  Spells(Payloads[a][n], BatchOf(Payloads[a][n]))
<1> DEFINE p == Payloads[a][n]
           D == p.deltas
           ups == {k \in DOMAIN D : D[k].op = "upsert"}
           b == BatchOf(p)
           First(i) == CHOOSE k \in ups : D[k].item = i
<1>1. D \in Seq(Delta)
  <2>1. Payloads[a] \in Seq(Payload)
    BY IngestAssumption
  <2>2. p \in Payload
    BY <2>1
  <2> HIDE DEF p
  <2>3. QED BY <2>2 DEF Payload
<1>2. \A k \in DOMAIN D : D[k].op \in {"upsert", "remove"} /\ D[k].item \in Items
                          /\ D[k].attr \in Attrs
  <2> HIDE DEF p
  <2>1. \A k \in DOMAIN D : D[k] \in Delta
    BY <1>1
  <2>2. QED BY <2>1 DEF Delta
<1>3. \A j, k \in ups : D[j].item = D[k].item => j = k
  BY DEF DiffOrder
<1>4. /\ b.full = p.full
      /\ b.upsert = [i \in Items |-> IF \E k \in ups : D[k].item = i
                                       THEN D[First(i)].attr ELSE NoAttr]
      /\ b.remove = {D[k].item : k \in DOMAIN D \ ups}
  BY DEF BatchOf
<1> HIDE DEF p, b
<1>5. ASSUME NEW k \in DOMAIN D, D[k].op = "upsert"
      PROVE  b.upsert[D[k].item] = D[k].attr /\ D[k].item \in Present(b.upsert)
  <2>1. k \in ups
    BY <1>5
  <2>2. First(D[k].item) \in ups /\ D[First(D[k].item)].item = D[k].item
    BY <2>1
  <2>3. First(D[k].item) = k
    BY <2>1, <2>2, <1>3
  <2> HIDE DEF First, ups
  <2>4. b.upsert[D[k].item] = D[k].attr
    BY <2>1, <2>3, <1>2, <1>4
  <2>5. QED BY <2>4, <1>2, InventoryAssumption DEF Present
<1>6. ASSUME NEW i \in Present(b.upsert)
      PROVE  \E k \in DOMAIN D : D[k].op = "upsert" /\ D[k].item = i
  <2> HIDE DEF First
  <2>1. i \in Items /\ b.upsert[i] # NoAttr
    BY DEF Present
  <2>2. QED BY <2>1, <1>4
<1>7. /\ \A k \in DOMAIN D : D[k].op = "remove" => D[k].item \in b.remove
      /\ \A i \in b.remove : \E k \in DOMAIN D : D[k].op = "remove" /\ D[k].item = i
  BY <1>2, <1>4
<1>8. Spells(p, b)
  BY <1>4, <1>5, <1>6, <1>7 DEF Spells
<1>9. QED BY <1>8 DEF p, b

\* What the transaction has done by its commit, in terms of the batch.
LEMMA AllApplied ==
  ASSUME DiffOrder, IInv, RInv, NEW h \in Handlers, pc[h] = "commit"
  PROVE  LET b == BatchOf(PayloadOf(h))
         IN /\ b.full = PayloadOf(h).full
            /\ \A w : Upserted(h, w) <=> \E i \in Present(b.upsert) : RowOf(i) = w
            /\ \A w : Removed(h, w) <=> w \in RowsOf(b.remove)
            /\ \A r \in tx[h].put : \E i \in Present(b.upsert) :
                 RowOf(i) = At(Pk(r)) /\ b.upsert[i] = r.attr
<1> DEFINE p == PayloadOf(h)
           b == BatchOf(p)
           D == p.deltas
<1>1. /\ Placed(h) /\ RowsPut(h) /\ D \in Seq(Delta) /\ Len(D) \in Nat
      /\ job[h] \in Hosts \X Nat /\ job[h][2] \in DOMAIN Payloads[job[h][1]]
  BY WritingHandler DEF Writing
<1>2. Done(h) = DOMAIN D /\ \A k : DeltaAt(h, k) = D[k]
  BY <1>1 DEF Placed, Done, DeltaAt
<1>3. Spells(p, b)
  <2>1. job[h][1] \in Hosts
    BY <1>1
  <2>2. QED BY <2>1, <1>1, BatchBehind DEF PayloadOf
<1> HIDE DEF p, b
<1>4. \A w : Upserted(h, w) <=> \E i \in Present(b.upsert) : RowOf(i) = w
  BY <1>2, <1>3 DEF Upserted, Spells
<1>5. \A w : Removed(h, w) <=> w \in RowsOf(b.remove)
  BY <1>2, <1>3 DEF Removed, RowsOf, Spells
<1>6. ASSUME NEW r \in tx[h].put
      PROVE  \E i \in Present(b.upsert) : RowOf(i) = At(Pk(r)) /\ b.upsert[i] = r.attr
  BY <1>1, <1>2, <1>3, <1>6 DEF RowsPut, Spells
<1>7. b.full = p.full
  BY <1>3 DEF Spells
<1>8. QED BY <1>4, <1>5, <1>6, <1>7 DEF p, b
-----------------------------------------------------------------------------
(* The refinement. *)

\* A commit makes of the rows of its host what IngestBatch may make of them.
LEMMA CommitKept ==
  ASSUME DiffOrder, IInv, RInv, KeptFits, IInv', KeptFits',
         NEW h \in Handlers, Commit(h), NEW a \in Hosts, a = job[h][1]
  PROVE  [w \in RowIds |-> Kept(a, w)'] \in
           Applied([w \in RowIds |-> Kept(a, w)], BatchOf(PayloadOf(h)))
<1> DEFINE b == BatchOf(PayloadOf(h))
           t == [w \in RowIds |-> Kept(a, w)]
           u == [w \in RowIds |-> Kept(a, w)']
<1>1. /\ pc[h] = "commit" /\ Writing(h)
      /\ \A r : r \in software' <=>
           \/ r \in tx[h].put
           \/ r \in software /\ (r.host = a => Pk(r) \notin tx[h].touched)
      /\ \A r \in tx[h].put : r.host = a
  BY CommittedRows
<1>2. RowsPut(h) /\ KeysTouched(h) /\ Reconciled(h)
  BY <1>1, WritingHandler
<1>3. /\ b.full = PayloadOf(h).full
      /\ \A w : Upserted(h, w) <=> \E i \in Present(b.upsert) : RowOf(i) = w
      /\ \A w : Removed(h, w) <=> w \in RowsOf(b.remove)
      /\ \A r \in tx[h].put : \E i \in Present(b.upsert) :
           RowOf(i) = At(Pk(r)) /\ b.upsert[i] = r.attr
  BY <1>1, AllApplied
<1> HIDE DEF b
<1>4. \A w \in RowIds :
        /\ \A r \in software : r.host = a /\ At(Pk(r)) = w => Kept(a, w) = ColumnsOf[r.attr]
        /\ (\A r \in software : ~(r.host = a /\ At(Pk(r)) = w)) => Kept(a, w) = NoAttr
  BY <1>2 DEF KeptFits
<1>5. \A w \in RowIds :
        /\ \A r \in software' : r.host = a /\ At(Pk(r)) = w => u[w] = ColumnsOf[r.attr]
        /\ (\A r \in software' : ~(r.host = a /\ At(Pk(r)) = w)) => u[w] = NoAttr
  <2>1. \A o \in Hosts, w \in RowIds :
          /\ \A r \in software' :
               r.host = o /\ At(Pk(r)) = w => Kept(o, w)' = ColumnsOf[r.attr]
          /\ (\A r \in software' : ~(r.host = o /\ At(Pk(r)) = w)) =>
               Kept(o, w)' = NoAttr
    BY DEF KeptFits
  <2>2. \A w \in RowIds : u[w] = Kept(a, w)'
    OBVIOUS
  <2> HIDE DEF u
  <2>3. QED BY <2>1, <2>2, <1>2
<1>6. u \in Table
  <2>1. \A r \in software' : ColumnsOf[r.attr] \in Columns
    <3>1. \A r \in software' : r.attr \in Attrs
      BY DEF IInv, TypeOK, Row
    <3>2. QED BY <3>1, InventoryAssumption
  <2>2. ASSUME NEW w \in RowIds PROVE Kept(a, w)' \in Columns \cup {NoAttr}
    <3>1. u[w] = Kept(a, w)'
      OBVIOUS
    <3> HIDE DEF u
    <3>2. QED BY <3>1, <2>1, <1>5
  <2>3. QED BY <2>2 DEF Table
<1>7. \A w \in RowIds : t[w] = Kept(a, w)
  OBVIOUS
<1> HIDE DEF t, u
\* A row that a delta of the batch writes goes from the committed table.
<1>8. ASSUME NEW w \in RowIds, Upserted(h, w) \/ Removed(h, w),
             NEW r \in software, r.host = a, At(Pk(r)) = w
      PROVE  Pk(r) \in tx[h].touched
  <2>1. PICK pk \in tx[h].touched :
          At(pk) = w /\ \E c \in tx[h].entries : c.id = pk[1]
    BY <1>2, <1>8 DEF KeysTouched
  <2>2. pk \in Ids \X Sources
    BY <2>1 DEF IInv, TypeOK, Tx
  <2>3. r.id[1] = pk[1][1] /\ r.source = pk[2]
    BY <1>8, <2>1 DEF At, Pk
  <2>4. r.id = pk[1]
    BY <2>1, <2>3, IdsAgree
  <2>5. Pk(r) = pk
    BY <2>2, <2>3, <2>4 DEF Pk
  <2>6. QED BY <2>1, <2>5
<1>9. ASSUME NEW w \in RowIds PROVE u[w] \in RowAfter(t, b, w)
  <2> DEFINE upserts == {i \in Present(b.upsert) : RowOf(i) = w}
             reconciled == b.full /\ \E i \in Present(b.upsert) : SourceOf[i] = w[2]
  <2>1. /\ upserts # {} <=> Upserted(h, w)
        /\ w \in RowsOf(b.remove) <=> Removed(h, w)
    BY <1>3
  <2>2. reconciled <=> PayloadOf(h).full /\ SeenSource(h, w[2])
    <3>1. ASSUME NEW i \in Present(b.upsert), SourceOf[i] = w[2]
          PROVE  SeenSource(h, w[2])
      <4>1. Upserted(h, RowOf(i)) /\ RowOf(i) \in RowIds
        BY <1>3 DEF Present, RowIds, RowsOf
      <4>2. PICK pk \in tx[h].seen : At(pk) = RowOf(i)
        BY <4>1, <1>2 DEF KeysTouched
      <4>3. pk[2] = w[2]
        BY <3>1, <4>2 DEF At, RowOf
      <4>4. QED BY <4>3 DEF SeenSource
    <3>2. ASSUME SeenSource(h, w[2])
          PROVE  \E i \in Present(b.upsert) : SourceOf[i] = w[2]
      <4>1. PICK pk \in tx[h].seen : pk[2] = w[2]
        BY <3>2 DEF SeenSource
      <4>2. PICK i \in Present(b.upsert) : RowOf(i) = At(pk)
        BY <4>1, <1>2, <1>3 DEF KeysTouched
      <4>3. QED BY <4>1, <4>2 DEF At, RowOf
    <3>3. QED BY <3>1, <3>2, <1>3
  <2>3. RowAfter(t, b, w) = IF w \in RowsOf(b.remove) THEN {NoAttr}
                            ELSE IF upserts # {}
                              THEN {ColumnsOf[b.upsert[i]] : i \in upserts}
                            ELSE IF reconciled THEN {NoAttr} ELSE {t[w]}
    BY DEF RowAfter
  <2>4. CASE Removed(h, w)
    <3>1. \A r \in software' : ~(r.host = a /\ At(Pk(r)) = w)
      BY <2>4, <1>1, <1>2, <1>8 DEF RowsPut
    <3>2. QED BY <3>1, <2>1, <2>3, <2>4, <1>5
  <2>5. CASE ~Removed(h, w) /\ Upserted(h, w)
    <3>1. PICK r \in tx[h].put : At(Pk(r)) = w
      BY <2>5, <1>2 DEF RowsPut
    <3>2. u[w] = ColumnsOf[r.attr]
      BY <3>1, <1>1, <1>5
    <3>3. PICK i \in upserts : b.upsert[i] = r.attr
      BY <3>1, <1>3
    <3>4. u[w] \in {ColumnsOf[b.upsert[j]] : j \in upserts}
      BY <3>2, <3>3
    <3>5. QED BY <3>4, <2>1, <2>3, <2>5
  <2>6. CASE ~Removed(h, w) /\ ~Upserted(h, w)
    <3>1. \A r \in tx[h].put : At(Pk(r)) # w
      BY <2>6, <1>2 DEF RowsPut, KeysTouched
    <3>2. CASE reconciled
      <4>1. ASSUME NEW r \in software, r.host = a, At(Pk(r)) = w
            PROVE  Pk(r) \in tx[h].touched
        <5>1. r.source = w[2]
          BY <4>1 DEF At, Pk
        <5>2. PayloadOf(h).full /\ SeenSource(h, r.source)
          BY <5>1, <3>2, <2>2
        <5>3. QED BY <4>1, <5>2, <1>1, <1>2 DEF Reconciled
      <4>2. \A r \in software' : ~(r.host = a /\ At(Pk(r)) = w)
        BY <3>1, <4>1, <1>1
      <4>3. QED BY <3>2, <4>2, <2>1, <2>3, <2>6, <1>5
    <3>3. CASE ~reconciled
      <4>1. \A r \in software : r.host = a /\ At(Pk(r)) = w => Pk(r) \notin tx[h].touched
        <5>1. SUFFICES ASSUME NEW r \in software, At(Pk(r)) = w, Pk(r) \in tx[h].touched
                       PROVE  FALSE
          OBVIOUS
        <5>2. PayloadOf(h).full /\ SeenSource(h, Pk(r)[2])
          BY <5>1, <2>6, <1>2 DEF KeysTouched
        <5>3. Pk(r)[2] = w[2]
          BY <5>1 DEF At
        <5>4. QED BY <5>2, <5>3, <3>3, <2>2
      <4>2. u[w] = t[w]
        <5>1. CASE \E r \in software : r.host = a /\ At(Pk(r)) = w
          BY <5>1, <4>1, <1>1, <1>4, <1>5, <1>7
        <5>2. CASE ~\E r \in software : r.host = a /\ At(Pk(r)) = w
          BY <5>2, <3>1, <1>1, <1>4, <1>5, <1>7
        <5>3. QED BY <5>1, <5>2
      <4>3. QED BY <3>3, <4>2, <2>1, <2>3, <2>6
    <3>4. QED BY <3>2, <3>3
  <2>7. QED BY <2>4, <2>5, <2>6
<1>10. QED BY <1>6, <1>9 DEF Applied, b, t, u

\* Nor does it change the rows of other hosts.
LEMMA OthersKept ==
  ASSUME IInv, RInv, KeptFits, KeptFits', NEW h \in Handlers, Commit(h),
         NEW o \in Hosts, o # job[h][1], NEW w \in RowIds
  PROVE  Kept(o, w)' = Kept(o, w)
<1>1. \A r : r.host = o => (r \in software' <=> r \in software)
  BY CommittedRows
<1>2. /\ \A r \in software : r.host = o /\ At(Pk(r)) = w => Kept(o, w) = ColumnsOf[r.attr]
      /\ (\A r \in software : ~(r.host = o /\ At(Pk(r)) = w)) => Kept(o, w) = NoAttr
  BY DEF KeptFits
<1>3. /\ \A r \in software' :
           r.host = o /\ At(Pk(r)) = w => Kept(o, w)' = ColumnsOf[r.attr]
      /\ (\A r \in software' : ~(r.host = o /\ At(Pk(r)) = w)) => Kept(o, w)' = NoAttr
  BY DEF KeptFits
<1>4. CASE \E r \in software : r.host = o /\ At(Pk(r)) = w
  BY <1>1, <1>2, <1>3, <1>4
<1>5. CASE ~\E r \in software : r.host = o /\ At(Pk(r)) = w
  BY <1>1, <1>2, <1>3, <1>5
<1>6. QED BY <1>4, <1>5

\* The rows of AtomicIngest, and its vocabulary.
KeptRows == [a \in Hosts |-> [w \in RowIds |-> Kept(a, w)]]
HostBatches == [a \in Hosts |-> [n \in DOMAIN Payloads[a] |-> BatchOf(Payloads[a][n])]]

Keeping == INSTANCE AtomicIngest WITH Batches <- HostBatches, rows <- KeptRows

LEMMA SameWords ==
  /\ Keeping!RowIds = RowIds /\ Abstract!RowIds = RowIds
  /\ \A t, b : Keeping!Applied(t, b) = Applied(t, b)
  /\ \A t, b : Abstract!Applied(t, b) = Applied(t, b)
<1>1. Keeping!RowIds = RowIds /\ \A t, b : Keeping!Applied(t, b) = Applied(t, b)
  BY DEF Keeping!RowIds, RowIds, Keeping!RowsOf, RowsOf, Keeping!RowOf, RowOf,
     Keeping!Applied, Applied, Keeping!Table, Table, Keeping!RowAfter, RowAfter,
     Keeping!Present, Present
<1>2. Abstract!RowIds = RowIds /\ \A t, b : Abstract!Applied(t, b) = Applied(t, b)
  BY DEF Abstract!RowIds, RowIds, Abstract!RowsOf, RowsOf, Abstract!RowOf, RowOf,
     Abstract!Applied, Applied, Abstract!Table, Table, Abstract!RowAfter, RowAfter,
     Abstract!Present, Present
<1>3. QED BY <1>1, <1>2

LEMMA KeepingInit ==
  ASSUME Init
  PROVE  Keeping!Init
<1>1. ledger = {} /\ software = {}
  BY DEF Init
<1>2. \A a, w : Kept(a, w) = NoAttr
  BY <1>1 DEF Kept
<1>3. QED BY <1>1, <1>2, SameWords DEF Keeping!Init, KeptRows

LEMMA KeepingStep ==
  ASSUME DiffOrder, IInv, RInv, KeptFits, IInv', KeptFits', [Next]_vars
  PROVE  [Keeping!Next]_(Keeping!vars)
<1>1. CASE \E h \in Handlers : Commit(h)
  <2>1. PICK h \in Handlers : Commit(h)
    BY <1>1
  <2>2. pc[h] = "commit" /\ Writing(h) /\ ledger' = ledger \cup {job[h]}
    BY <2>1 DEF Commit, Writing
  <2>3. PICK a \in Hosts, n \in Nat : job[h] = <<a, n>> /\ n \in DOMAIN Payloads[a]
    BY <2>2, WritingHandler
  <2> DEFINE t == [w \in RowIds |-> Kept(a, w)']
  <2>4. <<a, n>> \notin ledger /\ ledger' = ledger \cup {<<a, n>>}
    BY <2>2, <2>3 DEF IInv, Unpublished, Recorded, Recording
  <2>5. \A m \in 1..(n - 1) : <<a, m>> \in ledger
    <3>1. n <= head[a] /\ head[a] \in Nat
      BY <2>2, <2>3 DEF IInv, Serving, TypeOK
    <3>2. \A m \in 1..(n - 1) : m \in 1..(head[a] - 1)
      BY <3>1, <2>3
    <3>3. QED BY <3>2, <2>3 DEF IInv, AcceptedIsIngested
  <2>6. t \in Applied([w \in RowIds |-> Kept(a, w)], BatchOf(PayloadOf(h)))
    BY <2>1, <2>3, CommitKept
  <2>7. PayloadOf(h) = Payloads[a][n]
    BY <2>3 DEF PayloadOf
  <2> HIDE DEF t
  <2>8. KeptRows[a] = [w \in RowIds |-> Kept(a, w)]
        /\ HostBatches[a][n] = BatchOf(PayloadOf(h))
        /\ n \in DOMAIN HostBatches[a]
    BY <2>3, <2>7 DEF KeptRows, HostBatches
  <2>9. t \in Keeping!Applied(KeptRows[a], HostBatches[a][n])
    BY <2>6, <2>8, SameWords
  <2>10. KeptRows' = [KeptRows EXCEPT ![a] = t]
    <3>1. \A o \in Hosts : o # a =>
            [w \in RowIds |-> Kept(o, w)'] = [w \in RowIds |-> Kept(o, w)]
      BY <2>1, <2>3, OthersKept
    <3>2. KeptRows' = [o \in Hosts |-> [w \in RowIds |-> Kept(o, w)']]
      BY DEF KeptRows
    <3>3. [KeptRows EXCEPT ![a] = t] =
            [o \in Hosts |-> IF o = a THEN t ELSE [w \in RowIds |-> Kept(o, w)]]
      BY DEF KeptRows
    <3>4. t = [w \in RowIds |-> Kept(a, w)']
      BY DEF t
    <3>5. QED BY <3>1, <3>2, <3>3, <3>4
  <2>11. Keeping!Ingest(a, n)
    BY <2>4, <2>5, <2>9, <2>10 DEF Keeping!Ingest, KeptRows, HostBatches
  <2>12. QED BY <2>3, <2>8, <2>11 DEF Keeping!Next, HostBatches
<1>2. CASE ~\E h \in Handlers : Commit(h)
  <2>1. UNCHANGED dbVars
    <3>1. ASSUME NEW h \in Handlers, FetchHost(h) \/ ApplyDelta(h) \/ Reconcile(h)
          PROVE  UNCHANGED dbVars
      BY <3>1 DEF FetchHost, ApplyDelta, Reconcile
    <3>2. QED BY <3>1, <1>2, OtherStepFits DEF Next, Handle
  <2>2. UNCHANGED <<ledger, catalog, software>>
    BY <2>1 DEF dbVars
  <2>3. \A a, w : Kept(a, w)' = Kept(a, w)
    BY <2>2 DEF Kept
  <2>4. KeptRows' = KeptRows
    BY <2>3 DEF KeptRows
  <2>5. QED BY <2>2, <2>4 DEF Keeping!vars, KeptRows
<1>3. QED BY <1>1, <1>2

-----------------------------------------------------------------------------
(* What the reports show of the inventories that the agents delivered. *)

\* Host a has delivered its first n batches, and no other.
Delivered(a, n) == \A m \in DOMAIN Payloads[a] : <<a, m>> \in ledger <=> m <= n

\* The inventory that host a has delivered.
Ingested(a) ==
  InventoryAt(a, CHOOSE n \in 0..Len(Payloads[a]) : Delivered(a, n))

\* What the server was told of a host: its rows show the inventory of the last
\* batch that was ingested.
RowsShow ==
  \A a \in Hosts :
    /\ KeptRows[a] \in Table
    /\ \E n \in 0..Len(Payloads[a]) : Delivered(a, n)
    /\ \A s \in Sources : Shows(KeptRows[a], Ingested(a), s)

\* What a user sees of it: the host report's rows, place and verdict, show that
\* inventory.
ReportRows == [a \in Hosts |-> [w \in RowIds |-> Shown(a, w)]]
ReportsShow ==
  \A a \in Hosts : \A s \in Sources : Shows(ReportRows[a], Ingested(a), s)

\* A catalog row says what some delta of its key said.
EntryTold(c) ==
  \E d \in Told : /\ CatalogOf[d.item] = c.key /\ c.item = d.item
                  /\ c.signed = SignedIn[d.attr]
RowTold(r) ==
  \E d \in Told : RowOf(d.item) = At(Pk(r)) /\ d.attr = r.attr
RowsTold ==
  /\ \A c \in catalog : EntryTold(c)
  /\ \A h \in Handlers : \A c \in tx[h].entries : EntryTold(c)
  /\ \A r \in software : RowTold(r)

\* Whatever the agents make of signatures: what the host reports list, and where
\* they say it is, is what the hosts delivered.
PlacesAsIngested ==
  {<<rc[1].host, rc[2].key, rc[1].source, PlaceIn[rc[1].attr]>> : rc \in Joined} =
    UNION {{<<a, CatalogOf[i], SourceOf[i], PlaceIn[Ingested(a)[i]]>> :
              i \in Present(Ingested(a))} : a \in Hosts}

\* The unsigned report lists the running executables without a valid signature
\* in the inventories the hosts delivered.
UnsignedAsIngested ==
  {<<rc[1].host, rc[2].key>> : rc \in UnsignedBinaries} =
    UNION {{<<a, CatalogOf[i]>> : i \in
              {j \in Present(Ingested(a)) : /\ SourceOf[j] = "running"
                                            /\ ~SignedIn[Ingested(a)[j]]}} :
           a \in Hosts}

\* The sprawl report counts the hosts that delivered this version.
SprawlAsIngested ==
  \A i \in Items :
    VersionSprawl(NameOf[i], VersionOf[i]) =
      Cardinality({a \in Hosts : \E j \in Present(Ingested(a)) :
                     NameOf[j] = NameOf[i] /\ VersionOf[j] = VersionOf[i]})

\* The dormant report lists every installed package of the inventories the
\* hosts delivered: "never seen running" tells none from another.
DormantAsIngested ==
  {<<rc[1].host, rc[2].key>> : rc \in DormantSoftware} =
    UNION {{<<a, CatalogOf[i]>> : i \in
              {j \in Present(Ingested(a)) : SourceOf[j] = "installed"}} :
           a \in Hosts}

\* A full snapshot leaves no row of a source that neither it nor the inventory
\* before it has anything of.
LEMMA SnapshotLeavesNothing ==
  ASSUME NEW b \in Inventory, NEW s \in Sources, NEW t \in Table,
         NEW u \in Applied(t, Diff(EmptyInventory, b, TRUE)),
         NEW c \in Inventory, Shows(t, c, s),
         ~\E i \in Present(b) : SourceOf[i] = s,
         ~\E i \in Present(c) : SourceOf[i] = s
  PROVE  Shows(u, b, s)
<1> SUFFICES ASSUME NEW w \in RowIds, w[2] = s
             PROVE  RowShows(u, b, w)
  BY DEF Shows
<1> DEFINE d == Diff(EmptyInventory, b, TRUE)
<1>1. u[w] \in RowAfter(t, d, w) /\ RowShows(t, c, w)
  BY DEF Applied, Shows
<1>2. d.remove = {} /\ Present(d.upsert) = Present(b)
  BY DEF Diff, Present, EmptyInventory
<1>3. \A i \in Items : RowOf(i) = w => SourceOf[i] = s
  BY DEF RowOf
<1>4. w \notin RowsOf(Present(b)) /\ t[w] = NoAttr
  BY <1>1, <1>3 DEF RowShows, RowsOf, Present
<1>5. u[w] = NoAttr
  BY <1>1, <1>2, <1>3, <1>4 DEF RowAfter, RowsOf, Present
<1>6. QED BY <1>4, <1>5 DEF RowShows

LEMMA PayloadInventories ==
  ASSUME NEW a \in Hosts
  PROVE  /\ Len(Payloads[a]) \in Nat /\ DOMAIN Payloads[a] = 1..Len(Payloads[a])
         /\ \A n \in DOMAIN Payloads[a] :
              /\ Payloads[a][n].full \in BOOLEAN
              /\ Payloads[a][n].inv = InventoryAt(a, n)
         /\ \A n \in 0..Len(Payloads[a]) : InventoryAt(a, n) \in Inventory
<1>1. Payloads[a] \in Seq(Payload)
  BY IngestAssumption
<1>2. Len(Payloads[a]) \in Nat /\ DOMAIN Payloads[a] = 1..Len(Payloads[a])
  BY <1>1
<1>3. ASSUME NEW n \in DOMAIN Payloads[a]
      PROVE  /\ Payloads[a][n].full \in BOOLEAN /\ Payloads[a][n].inv \in Inventory
             /\ Payloads[a][n].inv = InventoryAt(a, n)
  <2>1. Payloads[a][n] \in Payload /\ n # 0
    BY <1>1, <1>2
  <2>2. QED BY <2>1 DEF Payload, InventoryAt
<1>4. ASSUME NEW n \in 0..Len(Payloads[a]) PROVE InventoryAt(a, n) \in Inventory
  <2>1. CASE n = 0
    BY <2>1 DEF InventoryAt, EmptyInventory, Inventory, AttrOrNone
  <2>2. CASE n # 0
    BY <2>2, <1>2, <1>3
  <2>3. QED BY <2>1, <2>2
<1>5. QED BY <1>2, <1>3, <1>4

\* The payload after an inventory takes rows that show it to rows that show
\* the next one.
LEMMA PayloadApplied ==
  ASSUME DistinctRows, PayloadsChained, SnapshotsCover,
         NEW a \in Hosts, NEW n \in DOMAIN Payloads[a], NEW s \in Sources,
         NEW t \in Table, NEW u \in Applied(t, BatchOf(Payloads[a][n])),
         Shows(t, InventoryAt(a, n - 1), s)
  PROVE  Shows(u, InventoryAt(a, n), s)
<1> DEFINE old == InventoryAt(a, n - 1)
           new == InventoryAt(a, n)
<1>1. /\ old \in Inventory /\ new \in Inventory
      /\ Payloads[a][n].inv = new /\ Payloads[a][n].full \in BOOLEAN
  BY PayloadInventories
<1>2. CASE ~Payloads[a][n].full
  <2>1. BatchOf(Payloads[a][n]) = Diff(old, new, FALSE)
    BY <1>1, <1>2 DEF PayloadsChained
  <2> HIDE DEF old, new
  <2>2. Shows(u, new, s)
    BY <1>1, <2>1, DeltaApplied DEF old
  <2>3. QED BY <2>2 DEF new
<1>3. CASE Payloads[a][n].full
  <2>1. BatchOf(Payloads[a][n]) = Diff(EmptyInventory, new, TRUE)
    BY <1>1, <1>3 DEF PayloadsChained
  <2>2. \A i \in Present(old) : \E j \in Present(new) : SourceOf[j] = SourceOf[i]
    BY <1>3 DEF SnapshotsCover
  <2>3. Shows(t, old, s)
    OBVIOUS
  <2> HIDE DEF old, new
  <2>4. CASE \E i \in Present(new) : SourceOf[i] = s
    <3>1. Shows(u, new, s)
      BY <1>1, <2>1, <2>4, SnapshotApplied
    <3>2. QED BY <3>1 DEF new
  <2>5. CASE ~\E i \in Present(new) : SourceOf[i] = s
    <3>1. ~\E i \in Present(old) : SourceOf[i] = s
      BY <2>2, <2>5
    <3>2. Shows(u, new, s)
      BY <1>1, <2>1, <2>3, <2>5, <3>1, SnapshotLeavesNothing
    <3>3. QED BY <3>2 DEF new
  <2>6. QED BY <2>4, <2>5
<1>4. QED BY <1>1, <1>2, <1>3

\* A host has delivered one number of batches.
IngestedFits ==
  \A a \in Hosts : \A n \in 0..Len(Payloads[a]) :
    Delivered(a, n) => Ingested(a) = InventoryAt(a, n)

LEMMA IngestedIs == IngestedFits
<1> SUFFICES ASSUME NEW a \in Hosts, NEW n \in 0..Len(Payloads[a]), Delivered(a, n)
             PROVE  Ingested(a) = InventoryAt(a, n)
  BY DEF IngestedFits
<1>1. Len(Payloads[a]) \in Nat /\ DOMAIN Payloads[a] = 1..Len(Payloads[a])
  BY PayloadInventories
<1>2. \A k, m \in 0..Len(Payloads[a]) : Delivered(a, k) /\ Delivered(a, m) => k <= m
  <2>1. SUFFICES ASSUME NEW k \in 0..Len(Payloads[a]), NEW m \in 0..Len(Payloads[a]),
                        Delivered(a, k), Delivered(a, m), ~(k <= m)
                 PROVE  FALSE
    OBVIOUS
  <2>2. k \in DOMAIN Payloads[a] /\ k <= k
    BY <2>1, <1>1
  <2>3. QED BY <2>1, <2>2 DEF Delivered
<1>3. \A k \in 0..Len(Payloads[a]) : Delivered(a, k) => k = n
  BY <1>1, <1>2
<1>4. QED BY <1>3 DEF Ingested

LEMMA IngestedTyped ==
  ASSUME RowsShow, NEW a \in Hosts
  PROVE  Ingested(a) \in Inventory
<1>1. PICK n \in 0..Len(Payloads[a]) : Delivered(a, n)
  BY DEF RowsShow
<1>2. QED BY <1>1, IngestedIs, PayloadInventories DEF IngestedFits

LEMMA InitShow == Init => RowsShow
<1> SUFFICES ASSUME Init, NEW a \in Hosts
             PROVE  /\ KeptRows[a] \in Table
                    /\ \E n \in 0..Len(Payloads[a]) : Delivered(a, n)
                    /\ \A s \in Sources : Shows(KeptRows[a], Ingested(a), s)
  BY DEF RowsShow
<1>1. ledger = {} /\ software = {}
  BY DEF Init
<1>2. \A w : Kept(a, w) = NoAttr
  BY <1>1 DEF Kept
<1>3. KeptRows[a] = [w \in RowIds |-> NoAttr]
  BY <1>2 DEF KeptRows
<1>4. Delivered(a, 0) /\ 0 \in 0..Len(Payloads[a])
  BY <1>1, PayloadInventories DEF Delivered
<1>5. Ingested(a) = EmptyInventory
  BY <1>4, IngestedIs DEF IngestedFits, InventoryAt
<1>6. \A s \in Sources : Shows(KeptRows[a], Ingested(a), s)
  BY <1>3, <1>5 DEF Shows, RowShows, EmptyInventory, Present, RowsOf
<1>7. QED BY <1>3, <1>4, <1>6 DEF Table

\* A step of AtomicIngest, in words of IngestTx.
LEMMA KeepingIngest ==
  ASSUME Keeping!Next
  PROVE  \E a \in Hosts : \E n \in DOMAIN Payloads[a] : \E t \in Table :
           /\ <<a, n>> \notin ledger /\ \A m \in 1..(n - 1) : <<a, m>> \in ledger
           /\ ledger' = ledger \cup {<<a, n>>}
           /\ t \in Applied(KeptRows[a], BatchOf(Payloads[a][n]))
           /\ KeptRows' = [KeptRows EXCEPT ![a] = t]
<1>1. PICK a \in Hosts : \E n \in DOMAIN HostBatches[a] : Keeping!Ingest(a, n)
  BY DEF Keeping!Next, HostBatches
<1>2. PICK n \in DOMAIN HostBatches[a] : Keeping!Ingest(a, n)
  BY <1>1
<1>3. n \in DOMAIN Payloads[a] /\ HostBatches[a][n] = BatchOf(Payloads[a][n])
  BY <1>2 DEF HostBatches
<1>4. /\ <<a, n>> \notin ledger /\ \A m \in 1..(n - 1) : <<a, m>> \in ledger
      /\ ledger' = ledger \cup {<<a, n>>}
      /\ \E t \in Keeping!Applied(KeptRows[a], HostBatches[a][n]) :
           KeptRows' = [KeptRows EXCEPT ![a] = t]
  BY <1>2 DEF Keeping!Ingest, KeptRows, HostBatches
<1>5. QED BY <1>3, <1>4, SameWords DEF Applied

LEMMA ShowStep ==
  ASSUME DistinctRows, PayloadsChained, SnapshotsCover,
         RowsShow, IngestedFits', [Keeping!Next]_(Keeping!vars)
  PROVE  RowsShow'
<1>1. CASE UNCHANGED <<ledger, KeptRows>>
  BY <1>1 DEF RowsShow, Ingested, Delivered
<1>2. CASE Keeping!Next
  <2>1. PICK a \in Hosts : \E n \in DOMAIN Payloads[a] : \E t \in Table :
          /\ <<a, n>> \notin ledger /\ \A m \in 1..(n - 1) : <<a, m>> \in ledger
          /\ ledger' = ledger \cup {<<a, n>>}
          /\ t \in Applied(KeptRows[a], BatchOf(Payloads[a][n]))
          /\ KeptRows' = [KeptRows EXCEPT ![a] = t]
    BY <1>2, KeepingIngest
  <2>2. PICK n \in DOMAIN Payloads[a], t \in Table :
          /\ <<a, n>> \notin ledger /\ \A m \in 1..(n - 1) : <<a, m>> \in ledger
          /\ ledger' = ledger \cup {<<a, n>>}
          /\ t \in Applied(KeptRows[a], BatchOf(Payloads[a][n]))
          /\ KeptRows' = [KeptRows EXCEPT ![a] = t]
    BY <2>1
  <2>3. /\ n \in 1..Len(Payloads[a]) /\ Len(Payloads[a]) \in Nat
        /\ DOMAIN Payloads[a] = 1..Len(Payloads[a])
    BY PayloadInventories
  <2>4. PICK k \in 0..Len(Payloads[a]) : Delivered(a, k)
    BY DEF RowsShow
  <2>5. k = n - 1
    <3>1. ~(n <= k)
      BY <2>2, <2>4 DEF Delivered
    <3>2. ASSUME n > 1 PROVE n - 1 <= k
      <4>1. n - 1 \in DOMAIN Payloads[a] /\ n - 1 \in 1..(n - 1)
        BY <3>2, <2>3
      <4>2. <<a, n - 1>> \in ledger
        BY <4>1, <2>2
      <4>3. QED BY <4>1, <4>2, <2>4 DEF Delivered
    <3>3. QED BY <3>1, <3>2, <2>3
  <2>6. Delivered(a, n)'
    <3>1. SUFFICES ASSUME NEW m \in 1..Len(Payloads[a])
                   PROVE  <<a, m>> \in ledger' <=> m <= n
      BY <2>3 DEF Delivered
    <3>2. <<a, m>> \in ledger <=> m <= n - 1
      BY <2>3, <2>4, <2>5 DEF Delivered
    <3>3. QED BY <3>2, <2>2, <2>3
  <2>7. Ingested(a)' = InventoryAt(a, n)
    BY <2>3, <2>6 DEF IngestedFits
  <2>8. \A s \in Sources : Shows(t, InventoryAt(a, n), s)
    <3>1. Ingested(a) = InventoryAt(a, n - 1)
      BY <2>4, <2>5, IngestedIs DEF IngestedFits
    <3>2. KeptRows[a] \in Table /\ \A s \in Sources : Shows(KeptRows[a], Ingested(a), s)
      BY DEF RowsShow
    <3>3. QED BY <3>1, <3>2, <2>2, PayloadApplied
  <2>9. \A o \in Hosts : KeptRows'[o] = IF o = a THEN t ELSE KeptRows[o]
    BY <2>2 DEF KeptRows
  <2>10. ASSUME NEW CONSTANT o \in Hosts
         PROVE  /\ KeptRows'[o] \in Table
                /\ \E m \in 0..Len(Payloads[o]) : Delivered(o, m)'
                /\ \A s \in Sources : Shows(KeptRows'[o], Ingested(o)', s)
    <3>1. CASE o = a
      BY <3>1, <2>2, <2>3, <2>6, <2>7, <2>8, <2>9
    <3>2. CASE o # a
      <4>1. \A m : Delivered(o, m)' <=> Delivered(o, m)
        BY <3>2, <2>2 DEF Delivered
      <4>2. Ingested(o)' = Ingested(o)
        BY <4>1 DEF Ingested
      <4>3. QED BY <3>2, <4>1, <4>2, <2>9 DEF RowsShow
    <3>3. QED BY <3>1, <3>2
  <2>11. QED BY <2>10 DEF RowsShow
<1>3. QED BY <1>1, <1>2 DEF Keeping!vars, KeptRows
-----------------------------------------------------------------------------
(* What the tables say was said by some delta. *)

LEMMA InitTold == Init => RowsTold
BY DEF Init, RowsTold, Fresh

\* The next delta, and what the deltas applied so far have put, was told.
LEMMA DeltasTold ==
  ASSUME IInv, NEW h \in Handlers, pc[h] # "idle", NEW k \in DOMAIN PayloadOf(h).deltas
  PROVE  PayloadOf(h).deltas[k] \in Told
<1>1. job[h][1] \in Hosts /\ job[h][2] \in DOMAIN Payloads[job[h][1]]
  BY DEF IInv, Serving
<1>2. PayloadOf(h) \in Payload
  BY PayloadTyped
<1>3. PayloadOf(h).deltas[k] \in Delta
  BY <1>2 DEF Payload
<1>4. QED BY <1>1, <1>3 DEF Told, PayloadOf

LEMMA ApplyTold ==
  ASSUME IInv, RInv, RowsTold, NEW h \in Handlers, ApplyDelta(h)
  PROVE  RowsTold'
<1> DEFINE d == NextDelta(h)
           e == UpsertCatalog(h, d)
           present == {c \in CatalogSeen(h) : c.key = CatalogOf[d.item]}
<1>1. /\ pc[h] = "apply" /\ UNCHANGED <<catalog, software>>
      /\ d \in Told /\ d \in Delta
  <2>1. pc[h] = "apply" /\ UNCHANGED <<catalog, software>>
    BY DEF ApplyDelta, dbVars
  <2>2. d \in Delta /\ tx[h].done + 1 \in DOMAIN PayloadOf(h).deltas
    BY <2>1, ApplyEffect, WritingHandler DEF Writing
  <2>3. QED BY <2>1, <2>2, DeltasTold DEF NextDelta
<1>2. \A c \in tx'[h].entries : c \in tx[h].entries \/ c = e
  <2>1. tx'[h].entries = {c \in tx[h].entries : c.key # e.key} \cup {e}
    BY DEF ApplyDelta, IInv, TypeOK
  <2> HIDE DEF e
  <2>2. QED BY <2>1
<1>3. EntryTold(e)
  <2>1. CASE present # {}
    <3> DEFINE p == CHOOSE c \in present : TRUE
    <3>1. p \in present
      BY <2>1
    <3>2. p \in catalog \cup tx[h].entries
      BY <3>1 DEF CatalogSeen
    <3>3. p \in Entry /\ EntryTold(p)
      BY <3>2 DEF RowsTold, IInv, TypeOK, Tx
    <3>4. e = [p EXCEPT !.source = SourceOf[d.item]]
      BY <2>1 DEF UpsertCatalog
    <3> HIDE DEF p, e
    <3>5. e.key = p.key /\ e.item = p.item /\ e.signed = p.signed
      BY <3>3, <3>4 DEF Entry
    <3>6. QED BY <3>3, <3>5 DEF EntryTold
  <2>2. CASE present = {}
    <3>1. e.key = CatalogOf[d.item] /\ e.item = d.item /\ e.signed = SignedIn[d.attr]
      BY <2>2 DEF UpsertCatalog
    <3> HIDE DEF e, d
    <3>2. QED BY <1>1, <3>1 DEF EntryTold
  <2>3. QED BY <2>1, <2>2
<1> HIDE DEF e, d
<1>4. \A g \in Handlers : g # h => tx'[g] = tx[g]
  BY ApplyEffect DEF Effect
<1>5. QED BY <1>1, <1>2, <1>3, <1>4 DEF RowsTold, EntryTold, RowTold

LEMMA CommitTold ==
  ASSUME IInv, RInv, RowsTold, NEW h \in Handlers, Commit(h)
  PROVE  RowsTold'
<1>1. pc[h] = "commit" /\ catalog' = CatalogSeen(h) /\ Writing(h)
  BY DEF Commit, Writing
<1>2. \A c \in catalog' : c \in catalog \/ c \in tx[h].entries
  BY <1>1 DEF CatalogSeen
<1>3. \A g \in Handlers : tx'[g] = tx[g] \/ tx'[g] = Fresh
  BY DEF Commit, Answer, IInv, TypeOK
<1>4. ASSUME NEW r \in tx[h].put
      PROVE  RowTold(r)
  <2>1. PICK k \in Done(h) : /\ RowOf(DeltaAt(h, k).item) = At(Pk(r))
                             /\ DeltaAt(h, k).attr = r.attr
    BY <1>1, WritingHandler DEF RowsPut
  <2>2. k \in DOMAIN PayloadOf(h).deltas
    BY <1>1, WritingHandler
  <2>3. DeltaAt(h, k) \in Told
    BY <1>1, <2>2, DeltasTold DEF DeltaAt
  <2>4. QED BY <2>1, <2>3 DEF RowTold
<1>5. \A r \in software' : r \in software \/ r \in tx[h].put
  BY CommittedRows
<1>6. \A c \in catalog' : EntryTold(c)
  BY <1>2 DEF RowsTold
<1>7. \A r \in software' : RowTold(r)
  BY <1>4, <1>5 DEF RowsTold
<1>8. \A g \in Handlers : \A c \in tx'[g].entries : EntryTold(c)
  BY <1>3 DEF RowsTold, Fresh
<1>9. QED BY <1>6, <1>7, <1>8 DEF RowsTold, EntryTold, RowTold

LEMMA NextTold ==
  ASSUME IInv, RInv, RowsTold, [Next]_vars
  PROVE  RowsTold'
<1>1. ASSUME UNCHANGED dbVars,
             \A g \in Handlers : tx'[g].entries \subseteq tx[g].entries
      PROVE  RowsTold'
  BY <1>1 DEF RowsTold, EntryTold, RowTold, dbVars
<1>2. ASSUME NEW h \in Handlers, NEW code, Answer(h, code), UNCHANGED dbVars
      PROVE  RowsTold'
  <2>1. \A g \in Handlers : tx'[g] = tx[g] \/ tx'[g] = Fresh
    BY <1>2 DEF Answer, IInv, TypeOK
  <2>2. QED BY <2>1, <1>1, <1>2 DEF Fresh
<1>3. ASSUME NEW h \in Handlers, Handle(h) \/ Fail(h)
      PROVE  RowsTold'
  <2>1. CASE ApplyDelta(h)
    BY <2>1, ApplyTold
  <2>2. CASE Commit(h)
    BY <2>2, CommitTold
  <2>3. CASE RejectDuplicate(h) \/ BreakDeadlock(h) \/ Fail(h)
    BY <2>3, <1>2 DEF RejectDuplicate, BreakDeadlock, Fail
  <2>4. CASE CheckSeen(h)
    BY <2>4, <1>1, <1>2 DEF CheckSeen
  <2>5. CASE Begin(h) \/ RecordBatch(h) \/ FetchHost(h)
    BY <2>5, <1>1 DEF Begin, RecordBatch, FetchHost
  <2>6. CASE Reconcile(h)
    <3>1. UNCHANGED dbVars /\ \A g \in Handlers : tx'[g].entries = tx[g].entries
      BY <2>6 DEF Reconcile, IInv, TypeOK, Tx
    <3>2. QED BY <3>1, <1>1
  <2>7. QED BY <1>3, <2>1, <2>2, <2>3, <2>4, <2>5, <2>6 DEF Handle
<1>4. ASSUME NEW a \in Hosts, TimeOut(a) \/ \E h \in Handlers : Send(a, h)
      PROVE  RowsTold'
  BY <1>4, <1>1 DEF TimeOut, Send
<1>5. CASE UNCHANGED vars
  BY <1>5, <1>1 DEF vars
<1>6. QED BY <1>3, <1>4, <1>5 DEF Next
-----------------------------------------------------------------------------
(* The reports. *)

\* Everything that the theorems ask of the agents' payloads.
Conditions ==
  DiffOrder /\ PayloadsChained /\ SnapshotsCover /\ DistinctRows

\* Place and verdict of an attribute are what a row says of it.
LEMMA WordsOfColumns ==
  ASSUME NEW t \in Attrs, NEW v \in Attrs, ColumnsOf[t] = ColumnsOf[v]
  PROVE  PlaceIn[t] = PlaceIn[v] /\ SignedIn[t] = SignedIn[v]
BY ReportsAssumption

\* A row of the reports tells of an item the host had in the inventory it
\* delivered last, and of its attribute.
LEMMA RowOfItem ==
  ASSUME IInv, RInv, RowsShow, RowsTold, NEW rc \in Joined
  PROVE  /\ rc[1].host \in Hosts
         /\ \E i \in Present(Ingested(rc[1].host)) :
              /\ CatalogOf[i] = rc[2].key /\ SourceOf[i] = rc[1].source
              /\ PlaceIn[Ingested(rc[1].host)[i]] = PlaceIn[rc[1].attr]
              /\ SignedIn[Ingested(rc[1].host)[i]] = SignedIn[rc[1].attr]
<1> DEFINE r == rc[1]
           a == r.host
           w == At(Pk(r))
           inv == Ingested(a)
<1>1. r \in software /\ rc[2] \in catalog /\ r.id = rc[2].id
  BY DEF Joined
<1>2. a \in Hosts /\ r.source \in Sources /\ r.attr \in Attrs
  BY <1>1 DEF IInv, TypeOK, Row
<1>3. w = <<rc[2].key, r.source>>
  <2>1. rc[2].key = rc[2].id[1]
    BY <1>1 DEF IInv, IdsNameKeys
  <2>2. QED BY <1>1, <2>1 DEF At, Pk
<1>4. w \in RowIds
  <2>1. PICK d \in Told : RowOf(d.item) = w
    BY <1>1 DEF RowsTold, RowTold
  <2>2. d.item \in Items
    BY DEF Told, Delta
  <2>3. QED BY <2>1, <2>2 DEF RowIds, RowsOf
<1>5. Kept(a, w) = ColumnsOf[r.attr] /\ ColumnsOf[r.attr] \in Columns
  BY InventoryAssumption, <1>1, <1>2, <1>4, KeptIs DEF KeptFits
<1>6. RowShows(KeptRows[a], inv, w) /\ KeptRows[a][w] = ColumnsOf[r.attr]
  <2>1. Shows(KeptRows[a], inv, r.source)
    BY <1>2 DEF RowsShow
  <2>2. w[2] = r.source
    BY <1>3
  <2>3. QED BY <2>1, <2>2, <1>2, <1>4, <1>5 DEF Shows, KeptRows
<1> HIDE DEF r, w, inv, a
<1>7. PICK i \in Present(inv) : RowOf(i) = w /\ ColumnsOf[r.attr] = ColumnsOf[inv[i]]
  BY <1>2, <1>5, <1>6, InventoryAssumption DEF RowShows
<1>8. inv[i] \in Attrs
  BY <1>2, IngestedTyped DEF Present, Inventory, AttrOrNone, inv
<1>9. PlaceIn[r.attr] = PlaceIn[inv[i]] /\ SignedIn[r.attr] = SignedIn[inv[i]]
  BY <1>2, <1>7, <1>8, WordsOfColumns
<1>10. QED BY <1>2, <1>3, <1>7, <1>9 DEF RowOf, r, w, inv, a

\* Conversely, an item of that inventory has a row in the reports.
LEMMA ItemOfRow ==
  ASSUME DistinctRows, IInv, RInv, RowsShow, NEW a \in Hosts,
         NEW i \in Present(Ingested(a))
  PROVE  \E rc \in Joined :
           /\ rc[1].host = a /\ rc[1].source = SourceOf[i]
           /\ rc[2].key = CatalogOf[i]
           /\ PlaceIn[rc[1].attr] = PlaceIn[Ingested(a)[i]]
           /\ SignedIn[rc[1].attr] = SignedIn[Ingested(a)[i]]
<1> DEFINE inv == Ingested(a)
           w == RowOf(i)
<1>1. i \in Items /\ inv[i] # NoAttr /\ w \in RowIds /\ w[2] \in Sources
  BY InventoryAssumption DEF Present, RowIds, RowsOf, RowOf
<1>11. inv[i] \in Attrs /\ ColumnsOf[inv[i]] # NoAttr
  <2>1. inv[i] \in Attrs
    BY <1>1, IngestedTyped DEF Inventory, AttrOrNone
  <2>2. QED BY <2>1, InventoryAssumption
<1>2. RowShows(KeptRows[a], inv, w)
  BY <1>1 DEF RowsShow, Shows
<1>3. KeptRows[a][w] = ColumnsOf[inv[i]]
  <2> HIDE DEF inv
  <2>1. w \in RowsOf(Present(inv))
    BY DEF RowsOf, inv
  <2>2. \A j \in Present(inv) : RowOf(j) = w => j = i
    BY <1>1 DEF DistinctRows, Present
  <2>3. QED BY <1>2, <2>1, <2>2 DEF RowShows
<1>4. Kept(a, w) = ColumnsOf[inv[i]]
  BY <1>1, <1>3 DEF KeptRows
<1> HIDE DEF inv
<1>5. PICK r \in software : r.host = a /\ At(Pk(r)) = w
  BY <1>1, <1>4, <1>11, KeptIs DEF KeptFits
<1>6. PlaceIn[r.attr] = PlaceIn[inv[i]] /\ SignedIn[r.attr] = SignedIn[inv[i]]
  <2>1. ColumnsOf[r.attr] = ColumnsOf[inv[i]]
    BY <1>1, <1>4, <1>5, KeptIs DEF KeptFits
  <2>2. r.attr \in Attrs
    BY DEF IInv, TypeOK, Row
  <2>3. QED BY <2>1, <2>2, <1>11, WordsOfColumns
<1>7. PICK c \in catalog : c.id = r.id
  BY DEF IInv, Referenced
<1>8. c.key = CatalogOf[i] /\ r.source = SourceOf[i]
  BY <1>5, <1>7 DEF IInv, IdsNameKeys, At, Pk, RowOf
<1>9. <<r, c>> \in Joined
  BY <1>7 DEF Joined
<1>10. QED BY <1>5, <1>6, <1>8, <1>9 DEF inv

\* The verdict in a row's catalog entry is that of the row's attribute.
LEMMA VerdictOfRow ==
  ASSUME VerdictsAgree, IInv, RowsTold, NEW rc \in Joined
  PROVE  rc[2].signed = SignedIn[rc[1].attr]
<1>1. rc[1] \in software /\ rc[2] \in catalog /\ rc[1].id = rc[2].id
  BY DEF Joined
<1>2. PICK d \in Told : CatalogOf[d.item] = rc[2].key /\ rc[2].signed = SignedIn[d.attr]
  BY <1>1 DEF RowsTold, EntryTold
<1>3. PICK e \in Told : RowOf(e.item) = At(Pk(rc[1])) /\ e.attr = rc[1].attr
  BY <1>1 DEF RowsTold, RowTold
<1>4. CatalogOf[e.item] = rc[2].key
  BY <1>1, <1>3 DEF At, Pk, RowOf, IInv, IdsNameKeys
<1>5. QED BY <1>2, <1>3, <1>4 DEF VerdictsAgree

\* So the report shows what the deltas told.
LEMMA ShownIsKept ==
  ASSUME VerdictsAgree, IInv, RInv, RowsTold, NEW a \in Hosts, NEW w \in RowIds
  PROVE  Shown(a, w) = Kept(a, w)
<1> DEFINE R == {rc \in HostSoftware(a) : <<rc[2].key, rc[1].source>> = w}
<1>1. ASSUME NEW rc \in R
      PROVE  ColumnsShown(rc) = Kept(a, w) /\ rc[1] \in software
             /\ rc[1].host = a /\ At(Pk(rc[1])) = w
  <2>1. /\ rc \in Joined /\ rc[1] \in software /\ rc[2] \in catalog
        /\ rc[1].id = rc[2].id /\ rc[1].host = a /\ <<rc[2].key, rc[1].source>> = w
    BY DEF HostSoftware, Joined
  <2> HIDE DEF R
  <2>2. At(Pk(rc[1])) = w
    BY <2>1 DEF At, Pk, IInv, IdsNameKeys
  <2>3. Kept(a, w) = ColumnsOf[rc[1].attr] /\ rc[1].attr \in Attrs
    BY <2>1, <2>2, KeptIs DEF KeptFits, IInv, TypeOK, Row
  <2>4. rc[2].signed = SignedIn[rc[1].attr]
    BY <2>1, VerdictOfRow
  <2>5. QED BY <2>1, <2>2, <2>3, <2>4, ReportsAssumption DEF ColumnsShown
<1>2. ASSUME NEW r \in software, r.host = a, At(Pk(r)) = w
      PROVE  R # {}
  <2>1. PICK c \in catalog : c.id = r.id
    BY DEF IInv, Referenced
  <2>2. c.key = r.id[1]
    BY <2>1 DEF IInv, IdsNameKeys
  <2>3. <<r, c>> \in R
    BY <1>2, <2>1, <2>2 DEF HostSoftware, Joined, At, Pk
  <2>4. QED BY <2>3
<1>3. Shown(a, w) = IF R = {} THEN NoAttr ELSE ColumnsShown(CHOOSE rc \in R : TRUE)
  BY DEF Shown
<1> HIDE DEF R
<1>4. CASE R = {}
  <2>1. Kept(a, w) = NoAttr
    BY <1>2, <1>4, KeptIs DEF KeptFits
  <2>2. QED BY <2>1, <1>3, <1>4
<1>5. CASE R # {}
  <2>1. (CHOOSE rc \in R : TRUE) \in R
    BY <1>5
  <2>2. QED BY <2>1, <1>1, <1>3, <1>5
<1>6. QED BY <1>4, <1>5

LEMMA ReportRowsKept ==
  VerdictsAgree /\ IInv /\ RInv /\ RowsTold => ReportRows = KeptRows
BY ShownIsKept DEF ReportRows, KeptRows

\* A step of the kept rows is one of the report.
LEMMA ReportStep ==
  ASSUME ReportRows = KeptRows, ReportRows' = KeptRows',
         [Keeping!Next]_(Keeping!vars)
  PROVE  [Abstract!Next]_(Abstract!vars)
<1>1. CASE UNCHANGED <<ledger, KeptRows>>
  BY <1>1 DEF Abstract!vars, ReportRows
<1>2. CASE Keeping!Next
  <2>1. PICK a \in Hosts : \E n \in DOMAIN Payloads[a] : \E t \in Table :
          /\ <<a, n>> \notin ledger /\ \A m \in 1..(n - 1) : <<a, m>> \in ledger
          /\ ledger' = ledger \cup {<<a, n>>}
          /\ t \in Applied(KeptRows[a], BatchOf(Payloads[a][n]))
          /\ KeptRows' = [KeptRows EXCEPT ![a] = t]
    BY <1>2, KeepingIngest
  <2>2. PICK n \in DOMAIN Payloads[a], t \in Table :
          /\ <<a, n>> \notin ledger /\ \A m \in 1..(n - 1) : <<a, m>> \in ledger
          /\ ledger' = ledger \cup {<<a, n>>}
          /\ t \in Applied(KeptRows[a], BatchOf(Payloads[a][n]))
          /\ KeptRows' = [KeptRows EXCEPT ![a] = t]
    BY <2>1
  <2>3. t \in Abstract!Applied(ReportRows[a], HostBatches[a][n])
        /\ ReportRows' = [ReportRows EXCEPT ![a] = t]
        /\ n \in DOMAIN HostBatches[a]
    BY <2>2, SameWords DEF HostBatches
  <2>4. Abstract!Ingest(a, n)
    BY <2>2, <2>3 DEF Abstract!Ingest, ReportRows, HostBatches
  <2>5. QED BY <2>3, <2>4 DEF Abstract!Next, HostBatches
<1>3. QED BY <1>1, <1>2 DEF Keeping!vars

LEMMA ReportInit ==
  ASSUME Init
  PROVE  Abstract!Init
<1>1. ledger = {} /\ software = {}
  BY DEF Init
<1>2. \A a, w : Shown(a, w) = NoAttr
  BY <1>1 DEF Shown, HostSoftware, Joined
<1>3. QED BY <1>1, <1>2, SameWords DEF Abstract!Init

\* The name in a row's catalog entry is that of all items of its key.
LEMMA NameOfRow ==
  ASSUME KeysName, RowsTold, NEW c \in catalog, NEW i \in Items, CatalogOf[i] = c.key
  PROVE  NameOf[c.item] = NameOf[i] /\ VersionOf[c.item] = VersionOf[i]
<1>1. PICK d \in Told : CatalogOf[d.item] = c.key /\ c.item = d.item
  BY DEF RowsTold, EntryTold
<1>2. d.item \in Items
  BY DEF Told, Delta
<1>3. QED BY <1>1, <1>2 DEF KeysName

LEMMA PlacesShown ==
  ASSUME DistinctRows, IInv, RInv, RowsShow, RowsTold
  PROVE  PlacesAsIngested
<1> DEFINE Said(rc) == <<rc[1].host, rc[2].key, rc[1].source, PlaceIn[rc[1].attr]>>
           Seen(a, i) == <<a, CatalogOf[i], SourceOf[i], PlaceIn[Ingested(a)[i]]>>
           L == {Said(rc) : rc \in Joined}
           R == UNION {{Seen(a, i) : i \in Present(Ingested(a))} : a \in Hosts}
<1>1. ASSUME NEW rc \in Joined
      PROVE  Said(rc) \in R
  <2>1. rc[1].host \in Hosts
    BY RowOfItem
  <2>2. PICK i \in Present(Ingested(rc[1].host)) :
          /\ CatalogOf[i] = rc[2].key /\ SourceOf[i] = rc[1].source
          /\ PlaceIn[Ingested(rc[1].host)[i]] = PlaceIn[rc[1].attr]
    BY RowOfItem
  <2>3. Said(rc) = Seen(rc[1].host, i)
    BY <2>2
  <2> HIDE DEF Said, Seen
  <2>4. Said(rc) \in {Seen(rc[1].host, j) : j \in Present(Ingested(rc[1].host))}
    BY <2>3
  <2>5. QED BY <2>1, <2>4
<1>2. ASSUME NEW a \in Hosts, NEW i \in Present(Ingested(a))
      PROVE  Seen(a, i) \in L
  <2>1. PICK rc \in Joined :
          /\ rc[1].host = a /\ rc[1].source = SourceOf[i]
          /\ rc[2].key = CatalogOf[i] /\ PlaceIn[rc[1].attr] = PlaceIn[Ingested(a)[i]]
    BY ItemOfRow
  <2>2. Said(rc) = Seen(a, i)
    BY <2>1
  <2>3. QED BY <2>2
<1>3. L \subseteq R
  BY <1>1
<1>4. R \subseteq L
  BY <1>2
<1>5. QED BY <1>3, <1>4 DEF PlacesAsIngested

LEMMA UnsignedShown ==
  ASSUME DistinctRows, VerdictsAgree, IInv, RInv, RowsShow, RowsTold
  PROVE  UnsignedAsIngested
<1> DEFINE L == {<<rc[1].host, rc[2].key>> : rc \in UnsignedBinaries}
           U(a) == {j \in Present(Ingested(a)) : /\ SourceOf[j] = "running"
                                                 /\ ~SignedIn[Ingested(a)[j]]}
           R == UNION {{<<a, CatalogOf[i]>> : i \in U(a)} : a \in Hosts}
<1>1. ASSUME NEW rc \in UnsignedBinaries
      PROVE  <<rc[1].host, rc[2].key>> \in R
  <2>1. rc \in Joined /\ rc[1].source = "running" /\ ~rc[2].signed
    BY DEF UnsignedBinaries
  <2>2. rc[1].host \in Hosts
    BY <2>1 DEF Joined, IInv, TypeOK, Row
  <2>3. PICK i \in Present(Ingested(rc[1].host)) :
          /\ CatalogOf[i] = rc[2].key /\ SourceOf[i] = "running"
          /\ SignedIn[Ingested(rc[1].host)[i]] = SignedIn[rc[1].attr]
    BY <2>1, RowOfItem
  <2>4. i \in U(rc[1].host)
    BY <2>1, <2>3, VerdictOfRow
  <2>5. <<rc[1].host, rc[2].key>> \in {<<rc[1].host, CatalogOf[j]>> : j \in U(rc[1].host)}
    BY <2>3, <2>4
  <2>6. QED BY <2>2, <2>5
<1>2. ASSUME NEW a \in Hosts, NEW i \in U(a)
      PROVE  <<a, CatalogOf[i]>> \in L
  <2>1. /\ i \in Present(Ingested(a)) /\ SourceOf[i] = "running"
        /\ ~SignedIn[Ingested(a)[i]]
    OBVIOUS
  <2>2. PICK rc \in Joined :
          /\ rc[1].host = a /\ rc[1].source = "running"
          /\ rc[2].key = CatalogOf[i]
          /\ SignedIn[rc[1].attr] = SignedIn[Ingested(a)[i]]
    BY <2>1, ItemOfRow
  <2>3. ~rc[2].signed
    BY <2>1, <2>2, VerdictOfRow
  <2>4. rc \in UnsignedBinaries
    BY <2>2, <2>3 DEF UnsignedBinaries
  <2>5. QED BY <2>2, <2>4
<1>3. L \subseteq R
  BY <1>1
<1>4. R \subseteq L
  BY <1>2
<1>5. QED BY <1>3, <1>4 DEF UnsignedAsIngested

\* No row of a running executable is one of an installed package's catalog row.
LEMMA InstalledIsDormant ==
  ASSUME RunningApart, IInv, RowsTold, NEW rc \in Joined, rc[1].source = "installed"
  PROVE  rc \in DormantSoftware
<1>1. SUFFICES ASSUME NEW r \in software, r.id = rc[1].id, r.source = "running"
               PROVE  FALSE
  BY DEF DormantSoftware
<1>2. rc[1] \in software
  BY DEF Joined
<1>3. PICK d \in Told : RowOf(d.item) = At(Pk(r))
  BY DEF RowsTold, RowTold
<1>4. PICK e \in Told : RowOf(e.item) = At(Pk(rc[1]))
  BY <1>2 DEF RowsTold, RowTold
<1>5. d.item \in Items /\ e.item \in Items
  BY DEF Told, Delta
<1>6. CatalogOf[d.item] = CatalogOf[e.item] /\ SourceOf[d.item] # SourceOf[e.item]
  BY <1>1, <1>3, <1>4 DEF At, Pk, RowOf
<1>7. QED BY <1>5, <1>6 DEF RunningApart

LEMMA DormantShown ==
  ASSUME DistinctRows, RunningApart, IInv, RInv, RowsShow, RowsTold
  PROVE  DormantAsIngested
<1> DEFINE L == {<<rc[1].host, rc[2].key>> : rc \in DormantSoftware}
           U(a) == {j \in Present(Ingested(a)) : SourceOf[j] = "installed"}
           R == UNION {{<<a, CatalogOf[i]>> : i \in U(a)} : a \in Hosts}
<1>1. ASSUME NEW rc \in DormantSoftware
      PROVE  <<rc[1].host, rc[2].key>> \in R
  <2>1. rc \in Joined /\ rc[1].source = "installed"
    BY DEF DormantSoftware
  <2>2. rc[1].host \in Hosts
    BY <2>1 DEF Joined, IInv, TypeOK, Row
  <2>3. PICK i \in Present(Ingested(rc[1].host)) :
          CatalogOf[i] = rc[2].key /\ SourceOf[i] = "installed"
    BY <2>1, RowOfItem
  <2>4. <<rc[1].host, rc[2].key>> \in {<<rc[1].host, CatalogOf[j]>> : j \in U(rc[1].host)}
    BY <2>3
  <2>5. QED BY <2>2, <2>4
<1>2. ASSUME NEW a \in Hosts, NEW i \in U(a)
      PROVE  <<a, CatalogOf[i]>> \in L
  <2>1. i \in Present(Ingested(a)) /\ SourceOf[i] = "installed"
    OBVIOUS
  <2>2. PICK rc \in Joined :
          rc[1].host = a /\ rc[1].source = "installed" /\ rc[2].key = CatalogOf[i]
    BY <2>1, ItemOfRow
  <2>3. rc \in DormantSoftware
    BY <2>2, InstalledIsDormant
  <2>4. QED BY <2>2, <2>3
<1>3. L \subseteq R
  BY <1>1
<1>4. R \subseteq L
  BY <1>2
<1>5. QED BY <1>3, <1>4 DEF DormantAsIngested

LEMMA SprawlShown ==
  ASSUME DistinctRows, KeysName, IInv, RInv, RowsShow, RowsTold
  PROVE  SprawlAsIngested
<1> SUFFICES ASSUME NEW i \in Items
             PROVE  VersionSprawl(NameOf[i], VersionOf[i]) =
                      Cardinality({a \in Hosts : \E j \in Present(Ingested(a)) :
                        NameOf[j] = NameOf[i] /\ VersionOf[j] = VersionOf[i]})
  BY DEF SprawlAsIngested
<1> DEFINE N == NamedRows(NameOf[i], VersionOf[i])
           L == {rc[1].host : rc \in N}
           R == {a \in Hosts : \E j \in Present(Ingested(a)) :
                   NameOf[j] = NameOf[i] /\ VersionOf[j] = VersionOf[i]}
<1>1. ASSUME NEW rc \in N PROVE rc[1].host \in R
  <2>1. rc \in Joined /\ NameOf[rc[2].item] = NameOf[i] /\ VersionOf[rc[2].item] = VersionOf[i]
    BY DEF NamedRows
  <2>2. rc[1].host \in Hosts /\ rc[2] \in catalog
    BY <2>1 DEF Joined, IInv, TypeOK, Row
  <2>3. PICK j \in Present(Ingested(rc[1].host)) : CatalogOf[j] = rc[2].key
    BY <2>1, RowOfItem
  <2>4. j \in Items
    BY DEF Present
  <2>5. NameOf[j] = NameOf[i] /\ VersionOf[j] = VersionOf[i]
    BY <2>1, <2>2, <2>3, <2>4, NameOfRow
  <2>6. QED BY <2>2, <2>5
<1>2. ASSUME NEW a \in R PROVE a \in L
  <2>1. PICK j \in Present(Ingested(a)) :
          NameOf[j] = NameOf[i] /\ VersionOf[j] = VersionOf[i]
    OBVIOUS
  <2>2. PICK rc \in Joined : rc[1].host = a /\ rc[2].key = CatalogOf[j]
    BY <2>1, ItemOfRow
  <2>3. rc[2] \in catalog /\ j \in Items
    BY DEF Joined, Present
  <2>4. rc \in N
    BY <2>1, <2>2, <2>3, NameOfRow DEF NamedRows
  <2>5. QED BY <2>2, <2>4
<1>3. L = R
  BY <1>1, <1>2
<1>4. QED BY <1>3 DEF VersionSprawl

\* Once every agent is rid of its spool, all it observed is delivered.
LEMMA SettledIngested ==
  ASSUME IInv, RowsShow, Settled, NEW a \in Hosts
  PROVE  Ingested(a) = Observed(a)
<1>1. PICK n \in 0..Len(Payloads[a]) : Delivered(a, n)
  BY DEF RowsShow
<1>2. Len(Payloads[a]) \in Nat /\ DOMAIN Payloads[a] = 1..Len(Payloads[a])
  BY PayloadInventories
<1>3. head[a] \in Nat /\ head[a] > Len(Payloads[a])
  BY DEF Settled, IInv, TypeOK
<1>4. \A m \in DOMAIN Payloads[a] : <<a, m>> \in ledger
  BY <1>2, <1>3 DEF IInv, AcceptedIsIngested
<1>5. n = Len(Payloads[a])
  <2>1. ASSUME Len(Payloads[a]) > 0 PROVE Len(Payloads[a]) <= n
    <3>1. Len(Payloads[a]) \in DOMAIN Payloads[a]
      BY <2>1, <1>2
    <3>2. <<a, Len(Payloads[a])>> \in ledger
      BY <3>1, <1>4
    <3>3. QED BY <3>1, <3>2, <1>1 DEF Delivered
  <2>2. QED BY <2>1, <1>2
<1>6. QED BY <1>1, <1>5, IngestedIs DEF IngestedFits, Observed

\* However the statements of several hosts' transactions interleave, fail, wait
\* and are rolled back, the host report of each host, verdicts included, steps
\* through the batches of its agent: each once, whole, and in order
\* (IngestBatch's transaction), where the agents agree on verdicts.
THEOREM IngestIsAtomic ==
  ASSUME DiffOrder, VerdictsAgree
  PROVE  Spec => ImplementsAtomicIngest
<1>1. IInv /\ RInv /\ [Next]_vars => RInv'
  BY NextRInv
<1>2. IInv /\ RInv /\ RowsTold /\ [Next]_vars => RowsTold'
  BY NextTold
<1>3. Spec => [](IInv /\ RInv /\ RowsTold)
  BY <1>1, <1>2, InitRInv, InitTold, Invariance, PTL DEF Spec
<1>4. Init => Abstract!Init
  BY ReportInit
<1>5. IInv /\ RInv /\ RowsTold => KeptFits /\ ReportRows = KeptRows
  BY KeptIs, ReportRowsKept
<1>6. /\ IInv /\ RInv /\ KeptFits /\ IInv' /\ KeptFits' /\ [Next]_vars
      /\ ReportRows = KeptRows /\ (ReportRows = KeptRows)'
      => [Abstract!Next]_(Abstract!vars)
  BY KeepingStep, ReportStep
<1>7. QED
  BY <1>3, <1>4, <1>5, <1>6, PTL DEF Spec, ImplementsAtomicIngest, Abstract!Spec

\* The inductive invariant of the reports: what the deltas make of a
\* transaction, what the tables were told, and that the rows show what was
\* ingested.
LEMMA ReportsInvariance ==
  ASSUME Conditions
  PROVE  Spec => [](IInv /\ RInv /\ RowsShow /\ RowsTold)
<1>1. IInv /\ RInv /\ [Next]_vars => RInv'
  BY NextRInv DEF Conditions
<1>2. IInv /\ RInv /\ RowsTold /\ [Next]_vars => RowsTold'
  BY NextTold
<1>3. /\ IInv /\ RInv /\ KeptFits /\ IInv' /\ KeptFits' /\ IngestedFits'
      /\ RowsShow /\ [Next]_vars
      => RowsShow'
  BY KeepingStep, ShowStep DEF Conditions
<1>4. IInv /\ RInv => KeptFits
  BY KeptIs
<1>5. QED
  BY <1>1, <1>2, <1>3, <1>4, IngestedIs, InitRInv, InitTold, InitShow, Invariance, PTL DEF Spec

\* At any moment the host reports list what the hosts delivered last, and say
\* where it is: no rows of a part of a batch, none left over. This needs no
\* agreement on verdicts: host_software has no column for them.
THEOREM PlacesFollow ==
  ASSUME Conditions
  PROVE  Spec => []PlacesAsIngested
<1>1. IInv /\ RInv /\ RowsShow /\ RowsTold => PlacesAsIngested
  BY PlacesShown DEF Conditions
<1>2. QED BY <1>1, ReportsInvariance, PTL

\* Where the agents agree on verdicts, the host report of every host shows, row
\* by row, the inventory of the last batch it delivered: place and verdict of each
\* catalog row that stands for something in it.
\* Without VerdictsAgree it shows the verdict that came first (upsertCatalog).
THEOREM HostReportIsInventory ==
  ASSUME Conditions, VerdictsAgree
  PROVE  Spec => []ReportsShow
<1>1. IInv /\ RInv /\ RowsShow /\ RowsTold => ReportsShow
  BY ReportRowsKept DEF RowsShow, ReportsShow
<1>2. QED BY <1>1, ReportsInvariance, PTL

\* UnsignedBinaries lists, at any moment, the running executables that the
\* agents found unsigned in the inventories they delivered, and no others.
THEOREM UnsignedFollows ==
  ASSUME Conditions, VerdictsAgree
  PROVE  Spec => []UnsignedAsIngested
<1>1. IInv /\ RInv /\ RowsShow /\ RowsTold => UnsignedAsIngested
  BY UnsignedShown DEF Conditions
<1>2. QED BY <1>1, ReportsInvariance, PTL

\* VersionSprawl counts, at any moment, the hosts with this version in the
\* inventories they delivered.
THEOREM SprawlFollows ==
  ASSUME Conditions, KeysName
  PROVE  Spec => []SprawlAsIngested
<1>1. IInv /\ RInv /\ RowsShow /\ RowsTold => SprawlAsIngested
  BY SprawlShown DEF Conditions
<1>2. QED BY <1>1, ReportsInvariance, PTL

\* Once the spools are empty the unsigned report is what the agents observe:
\* every host's unsigned running executables, and nothing that has stopped, was
\* replaced or is another host's.
THEOREM UnsignedIsObserved ==
  ASSUME Conditions, VerdictsAgree
  PROVE  Spec => []UnsignedAsObserved
<1>1. IInv /\ RInv /\ RowsShow /\ RowsTold => UnsignedAsObserved
  BY UnsignedShown, SettledIngested
     DEF Conditions, UnsignedAsObserved, UnsignedAsIngested
<1>2. QED BY <1>1, ReportsInvariance, PTL

\* Once the spools are empty the sprawl report counts every host that observes
\* the version once, and no other host.
THEOREM SprawlIsObserved ==
  ASSUME Conditions, KeysName
  PROVE  Spec => []SprawlAsObserved
<1>1. IInv /\ RInv /\ RowsShow /\ RowsTold => SprawlAsObserved
  BY SprawlShown, SettledIngested
     DEF Conditions, SprawlAsObserved, SprawlAsIngested
<1>2. QED BY <1>1, ReportsInvariance, PTL

\* DormantSoftware lists every package that the hosts' last inventories have,
\* those of running programs too: its anti-join on the catalog row never finds
\* a running one. The run reports_dormant shows such a package.
THEOREM DormantIsInstalled ==
  ASSUME Conditions, RunningApart
  PROVE  Spec => []DormantAsIngested
<1>1. IInv /\ RInv /\ RowsShow /\ RowsTold => DormantAsIngested
  BY DormantShown DEF Conditions
<1>2. QED BY <1>1, ReportsInvariance, PTL
=============================================================================

-------------------------- MODULE InventoryProofs --------------------------
(***************************************************************************)
(* Facts about the delta a batch carries and about what the server makes   *)
(* of it: applying the delta between two inventories to rows that show the *)
(* first leaves rows that show the second.                                 *)
(***************************************************************************)
EXTENDS Inventory, TLAPS

\* delta.Diff makes a batch of upserts and removes.
LEMMA DiffIsBatch ==
  ASSUME NEW a \in Inventory, NEW b \in Inventory, NEW full \in BOOLEAN
  PROVE  Diff(a, b, full) \in Batch
  BY DEF Diff, Batch, Inventory, AttrOrNone, Present

\* Where there is nothing to send nothing changed: skipping an empty batch
\* loses nothing.
LEMMA EmptyDeltaChangesNothing ==
  ASSUME NEW a \in Inventory, NEW b \in Inventory, NEW full \in BOOLEAN,
         IsEmptyDelta(Diff(a, b, full))
  PROVE  b = a
<1>1. ASSUME NEW i \in Items PROVE b[i] = a[i]
  <2>1. b[i] # a[i] => b[i] = NoAttr
    BY DEF IsEmptyDelta, Diff, Present
  <2>2. a[i] # NoAttr => b[i] # NoAttr
    BY DEF IsEmptyDelta, Diff, Present
  <2>3. QED BY <2>1, <2>2
<1>2. QED BY <1>1 DEF Inventory

\* Where identities do not share rows, a delta takes the rows of a source from
\* showing the old inventory to showing the new one.
LEMMA DeltaApplied ==
  ASSUME NEW a \in Inventory, NEW b \in Inventory, NEW s \in Sources,
         NEW t \in Table, NEW u \in Applied(t, Diff(a, b, FALSE)),
         DistinctRows, Shows(t, a, s)
  PROVE  Shows(u, b, s)
<1> SUFFICES ASSUME NEW w \in RowIds, w[2] = s
             PROVE  RowShows(u, b, w)
  BY DEF Shows
<1> DEFINE d == Diff(a, b, FALSE)
<1>1. PICK i \in Items : RowOf(i) = w
  BY DEF RowIds, RowsOf
<1>2. \A j \in Items : RowOf(j) = w <=> j = i
  BY <1>1 DEF DistinctRows
<1>3. u[w] \in RowAfter(t, d, w) /\ RowShows(t, a, w)
  BY DEF Applied, Shows
<1>4. /\ w \in RowsOf(Present(b)) <=> b[i] # NoAttr
      /\ w \in RowsOf(Present(a)) <=> a[i] # NoAttr
      /\ w \in RowsOf(d.remove) <=> a[i] # NoAttr /\ b[i] = NoAttr
  BY <1>2 DEF RowsOf, Present, Diff
<1>5. t[w] = IF a[i] = NoAttr THEN NoAttr ELSE ColumnsOf[a[i]]
  BY <1>2, <1>3, <1>4 DEF RowShows, Present
<1>6. u[w] = IF b[i] = NoAttr THEN NoAttr ELSE ColumnsOf[b[i]]
  <2>1. CASE w \in RowsOf(d.remove)
    BY <2>1, <1>3, <1>4 DEF RowAfter
  <2>2. CASE w \notin RowsOf(d.remove) /\ b[i] # a[i]
    <3>1. b[i] # NoAttr
      BY <2>2, <1>4
    <3>2. {j \in Present(d.upsert) : RowOf(j) = w} = {i} /\ d.upsert[i] = b[i]
      BY <2>2, <3>1, <1>2 DEF Present, Diff
    <3>3. RowAfter(t, d, w) = {ColumnsOf[b[i]]}
      BY <2>2, <3>2 DEF RowAfter
    <3>4. QED
      BY <3>1, <3>3, <1>3
  <2>3. CASE w \notin RowsOf(d.remove) /\ b[i] = a[i]
    <3>1. {j \in Present(d.upsert) : RowOf(j) = w} = {}
      BY <2>3, <1>2 DEF Present, Diff
    <3>2. d.full = FALSE
      BY DEF Diff
    <3>3. QED
      BY <2>3, <3>1, <3>2, <1>3, <1>5 DEF RowAfter
  <2>4. QED BY <2>1, <2>2, <2>3
<1>7. QED
  BY <1>1, <1>4, <1>6 DEF RowShows, Present

\* A full snapshot makes the rows of every source it has an upsert of show its
\* inventory, whatever they showed before and whoever shares a row.
LEMMA SnapshotApplied ==
  ASSUME NEW b \in Inventory, NEW s \in Sources, NEW t \in Table,
         NEW u \in Applied(t, Diff(EmptyInventory, b, TRUE)),
         \E i \in Present(b) : SourceOf[i] = s
  PROVE  Shows(u, b, s)
<1> SUFFICES ASSUME NEW w \in RowIds, w[2] = s
             PROVE  RowShows(u, b, w)
  BY DEF Shows
<1> DEFINE d == Diff(EmptyInventory, b, TRUE)
<1>1. u[w] \in RowAfter(t, d, w)
  BY DEF Applied
<1>2. /\ d.remove = {} /\ d.full
      /\ Present(d.upsert) = Present(b)
      /\ \A i \in Present(b) : d.upsert[i] = b[i]
  BY DEF Diff, Present, EmptyInventory
<1>3. w \notin RowsOf(d.remove)
  BY <1>2 DEF RowsOf
<1>4. CASE \E i \in Present(b) : RowOf(i) = w
  <2>1. {i \in Present(d.upsert) : RowOf(i) = w} # {}
    BY <1>2, <1>4
  <2>2. PICK i \in Present(d.upsert) : RowOf(i) = w /\ u[w] = ColumnsOf[d.upsert[i]]
    BY <1>1, <1>3, <2>1 DEF RowAfter
  <2>3. i \in Present(b) /\ d.upsert[i] = b[i]
    BY <1>2
  <2>4. QED
    BY <2>2, <2>3 DEF RowShows
<1>5. CASE ~ \E i \in Present(b) : RowOf(i) = w
  <2>1. u[w] = NoAttr
    BY <1>1, <1>2, <1>3, <1>5 DEF RowAfter
  <2>2. QED
    BY <2>1, <1>5 DEF RowShows, RowsOf
<1>6. QED BY <1>4, <1>5
=============================================================================

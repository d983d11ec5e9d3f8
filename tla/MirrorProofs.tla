---------------------------- MODULE MirrorProofs ----------------------------
(***************************************************************************)
(* Proofs about Delivery where no batch is lost: the ledger is an initial  *)
(* part of the history, the rows are current once the spool is drained,    *)
(* and Delivery implements Mirror. What a full snapshot repairs, and under *)
(* which condition. And that decommissioning cuts off.                     *)
(***************************************************************************)
EXTENDS DeliveryProofs

\* The k-th batch that was ingested is the k-th that was built.
Sequential == lost = {} => \A k \in DOMAIN ledger : ledger[k] = k

\* Every identity of the inventory ingested last has a row.
Listed ==
  lost = {} /\ ledger # <<>> =>
    \A i \in Present(hist[Last(ledger)].inv) : rows[RowOf(i)] # NoAttr

-----------------------------------------------------------------------------
(* The order of the ledger. *)

LEMMA LostGrows ==
  ASSUME IInv, [Next]_vars
  PROVE  lost \subseteq lost'
<1>1. CASE Start \/ \E s \in Sources : Tick(s)
  BY <1>1 DEF Start, Tick, CollectAndSpool, Push
<1>2. CASE \/ Crash \/ PostHead \/ PeekFails \/ Retry \/ Timeout
           \/ ReceiveAccepted \/ ReceiveRefused \/ ReceiveError
  BY <1>2 DEF Crash, PostHead, PeekFails, Retry, Timeout, ReceiveAccepted,
     ReceiveRefused, ReceiveError
<1>3. CASE Decommission
  BY <1>3 DEF Decommission
<1>4. ASSUME NEW r \in ReqIds,
             \/ Admit(r) \/ RejectBody(r) \/ RejectAgent(r)
             \/ CheckSeen(r) \/ CheckFails(r)
             \/ Ingest(r) \/ IngestFails(r) \/ Abort(r)
      PROVE  lost' = lost
  BY <1>4 DEF Admit, RejectBody, RejectAgent, CheckSeen, CheckFails, Ingest,
     IngestFails, Abort, serverIdle
<1>5. CASE UNCHANGED vars
  BY <1>5 DEF vars
<1>6. QED BY <1>1, <1>2, <1>3, <1>4, <1>5 DEF Next, Agent, Server

LEMMA LedgerTyped ==
  ASSUME IInv
  PROVE  /\ ledger \in Seq(Nat) /\ Len(ledger) \in Nat
         /\ DOMAIN ledger = 1..Len(ledger)
         /\ \A k \in DOMAIN ledger : ledger[k] \in BatchIds /\ ledger[k] \in Range(ledger)
         /\ Len(hist) \in Nat /\ hist \in Seq([inv : Inventory, batch : Batch])
BY DEF IInv, TypeOK, Known, Range

\* What a commit adds while nothing is lost.
LEMMA IngestNext ==
  ASSUME IInv, Sequential, lost = {}, NEW r \in ReqIds, Ingest(r)
  PROVE  LET n == Len(ledger) + 1
         IN /\ n \in BatchIds
            /\ ledger' = Append(ledger, n)
            /\ rows' \in Applied(rows, hist[n].batch)
            /\ UNCHANGED <<hist, lost, spool>>
<1> DEFINE n == reqs[r].batch
<1>1. /\ n \in BatchIds /\ n \notin Range(ledger)
      /\ ledger' = Append(ledger, n)
      /\ rows' \in Applied(rows, hist[n].batch)
      /\ UNCHANGED <<hist, lost, spool>>
      /\ \A m \in Range(spool) : n <= m
  BY DEF Ingest, Recordable, IInv, Known, Frontier, InFlight, agentVars
<1> HIDE DEF n
<1>2. \A k \in 1..Len(ledger) : ledger[k] = k /\ k \in Range(ledger)
  BY LedgerTyped DEF Sequential
<1>3. \A m \in Range(ledger) : m \in 1..Len(ledger)
  BY <1>2, LedgerTyped DEF Range
<1>4. n \in Nat /\ n > Len(ledger)
  BY <1>1, <1>2, LedgerTyped DEF BatchIds
<1>5. n - 1 <= Len(ledger)
  <2>1. CASE n = 1
    BY <2>1, LedgerTyped
  <2>2. CASE n # 1
    <3>1. n - 1 \in BatchIds /\ n - 1 \in Nat
      BY <1>1, <1>4, <2>2, LedgerTyped DEF BatchIds
    <3>2. n - 1 \notin Range(spool)
      BY <1>1, <1>4
    <3>3. n - 1 \in Range(ledger)
      BY <3>1, <3>2 DEF IInv, Durable
    <3>4. QED BY <3>3, <1>3, LedgerTyped
  <2>3. QED BY <2>1, <2>2
<1>6. n = Len(ledger) + 1
  BY <1>4, <1>5, LedgerTyped
<1>7. QED BY <1>1, <1>6

\* Appending the next number keeps the ledger sequential.
LEMMA LedgerAppended ==
  ASSUME IInv, \A k \in DOMAIN ledger : ledger[k] = k,
         ledger' = Append(ledger, Len(ledger) + 1)
  PROVE  /\ DOMAIN ledger' = 1..(Len(ledger) + 1)
         /\ Len(ledger') = Len(ledger) + 1
         /\ \A k \in DOMAIN ledger' : ledger'[k] = k
         /\ Last(ledger)' = Len(ledger) + 1
         /\ ledger' # <<>>
<1>1. /\ DOMAIN ledger' = 1..(Len(ledger) + 1)
      /\ Len(ledger') = Len(ledger) + 1
      /\ \A k \in 1..Len(ledger) : ledger'[k] = ledger[k]
      /\ ledger'[Len(ledger) + 1] = Len(ledger) + 1
  BY LedgerTyped
<1>2. \A k \in DOMAIN ledger' : ledger'[k] = k
  BY <1>1, LedgerTyped
<1>3. Last(ledger)' = Len(ledger) + 1
  BY <1>1 DEF Last
<1>4. ledger' # <<>>
  BY <1>1, LedgerTyped
<1>5. QED BY <1>1, <1>2, <1>3, <1>4

LEMMA SequentialNext ==
  ASSUME IInv, Sequential, [Next]_vars
  PROVE  Sequential'
<1> SUFFICES ASSUME lost' = {}
             PROVE  \A k \in DOMAIN ledger' : ledger'[k] = k
  BY DEF Sequential
<1>1. lost = {}
  BY LostGrows
<1>2. \A k \in DOMAIN ledger : ledger[k] = k
  BY <1>1 DEF Sequential
<1>3. CASE ~ \E r \in ReqIds : Ingest(r)
  <2>1. ledger' = ledger
    BY <1>3, OnlyIngestWrites
  <2>2. QED BY <2>1, <1>2
<1>4. CASE \E r \in ReqIds : Ingest(r)
  <2>1. ledger' = Append(ledger, Len(ledger) + 1)
    BY <1>1, <1>4, IngestNext
  <2>2. QED BY <2>1, <1>2, LedgerAppended
<1>5. QED BY <1>3, <1>4

LEMMA SequentialInvariant == Spec => []Sequential
<1>1. Init => Sequential
  BY DEF Init, Sequential
<1>2. IInv /\ Sequential /\ [Next]_vars => Sequential'
  BY SequentialNext
<1>3. QED BY <1>1, <1>2, Invariance, PTL DEF Spec

\* When the agent has nothing left to send, everything is ingested.
LEMMA DrainedLedger ==
  ASSUME IInv, Sequential, Drained
  PROVE  /\ \A k \in BatchIds : k \in DOMAIN ledger /\ ledger[k] = k
         /\ Len(ledger) = Len(hist)
         /\ hist # <<>> => Len(hist) \in DOMAIN ledger /\ ledger # <<>>
         /\ hist # <<>> /\ last = hist[Last(ledger)].inv
<1>1. spool = <<>> /\ lost = {} /\ agent = "idle"
  BY DEF Drained
<1>2. \A k \in DOMAIN ledger : ledger[k] = k
  BY <1>1 DEF Sequential
<1>3. Range(spool) = {}
  BY <1>1 DEF Range
<1>4. ASSUME NEW k \in BatchIds PROVE k \in DOMAIN ledger
  <2>1. k \in Range(ledger)
    BY <1>1, <1>3 DEF IInv, Durable
  <2>2. PICK j \in DOMAIN ledger : ledger[j] = k
    BY <2>1 DEF Range
  <2>3. QED BY <2>2, <1>2
<1>5. hist # <<>> /\ last = hist[Len(hist)].inv
  BY <1>1 DEF IInv, Chained
<1>6. Len(hist) \in BatchIds
  BY <1>5, LedgerTyped DEF BatchIds
<1>7. Len(hist) \in 1..Len(ledger) /\ Len(ledger) \in Nat
  BY <1>4, <1>6, LedgerTyped
<1>8. Len(ledger) \in BatchIds
  <2>1. Len(ledger) \in DOMAIN ledger
    BY <1>7, LedgerTyped
  <2>2. QED BY <2>1, <1>2, LedgerTyped
<1>9. Len(ledger) = Len(hist)
  BY <1>7, <1>8, LedgerTyped DEF BatchIds
<1>10. ledger # <<>> /\ Last(ledger) = Len(hist)
  <2>1. Last(ledger) = ledger[Len(ledger)]
    BY DEF Last
  <2>2. ledger[Len(ledger)] = Len(ledger)
    BY <1>2, <1>7, <1>9, LedgerTyped
  <2>3. ledger # <<>>
    BY <1>7
  <2>4. QED BY <2>1, <2>2, <2>3, <1>9
<1>11. QED BY <1>2, <1>4, <1>5, <1>6, <1>9, <1>10

\* Once the spool is drained and nothing was lost, the rows of every source that
\* the newest full snapshot had something of are the agent's inventory.
THEOREM DrainedIsCurrent ==
  ASSUME DistinctRows
  PROVE  Spec => []CurrentWhenDrained
<1>1. ASSUME IInv, Sequential, Mirrored
      PROVE  CurrentWhenDrained
  <2> SUFFICES ASSUME Drained, NEW s \in Sources, Covered(s)
               PROVE  Shows(rows, last, s)
    BY DEF CurrentWhenDrained
  <2>1. /\ \A k \in BatchIds : k \in DOMAIN ledger /\ ledger[k] = k
        /\ Len(ledger) = Len(hist)
        /\ last = hist[Last(ledger)].inv
    BY <1>1, DrainedLedger
  <2>2. PICK n \in BatchIds :
          /\ hist[n].batch.full
          /\ \E i \in Present(hist[n].inv) : SourceOf[i] = s
          /\ \A m \in (n + 1)..Len(hist) : ~hist[m].batch.full
    BY DEF Covered
  <2>3. \A j \in (n + 1)..Len(ledger) : j \in BatchIds /\ j - 1 \in BatchIds /\ j = (j - 1) + 1
    BY <2>1, <1>1, LedgerTyped DEF BatchIds
  <2>4. AnchoredAt(n, s)
    BY <2>1, <2>2, <2>3 DEF AnchoredAt
  <2>5. Shows(rows, hist[Last(ledger)].inv, s)
    BY <2>1, <2>4, <1>1 DEF Mirrored
  <2>6. QED BY <2>1, <2>5
<1>2. QED BY <1>1, Invariance, SequentialInvariant, ServerMirrorsAgent, PTL

-----------------------------------------------------------------------------
(* What is observed is listed. *)

LEMMA DeltaLists ==
  ASSUME NEW a \in Inventory, NEW b \in Inventory, NEW t \in Table,
         NEW u \in Applied(t, Diff(a, b, FALSE)), DistinctRows,
         \A i \in Present(a) : t[RowOf(i)] # NoAttr
  PROVE  \A i \in Present(b) : u[RowOf(i)] # NoAttr
<1> TAKE i \in Present(b)
<1> DEFINE d == Diff(a, b, FALSE)
           w == RowOf(i)
           upserts == {j \in Present(d.upsert) : RowOf(j) = w}
<1>1. i \in Items /\ b[i] # NoAttr /\ w \in RowIds
  BY DEF Present, RowIds, RowsOf
<1>2. u[w] \in RowAfter(t, d, w)
  BY <1>1 DEF Applied
<1>3. w \notin RowsOf(d.remove)
  BY <1>1 DEF RowsOf, Diff, Present, DistinctRows
<1>4. \A j \in upserts : ColumnsOf[d.upsert[j]] # NoAttr
  <2>1. \A j \in upserts : d.upsert[j] \in Attrs
    BY DEF Present, Diff, Inventory, AttrOrNone
  <2>2. QED BY <2>1, InventoryAssumption
<1>5. CASE upserts # {}
  BY <1>2, <1>3, <1>4, <1>5 DEF RowAfter
<1>6. CASE upserts = {}
  <2>1. b[i] = a[i]
    BY <1>1, <1>6 DEF Present, Diff
  <2>2. t[w] # NoAttr
    BY <1>1, <2>1 DEF Present
  <2>3. u[w] = t[w]
    BY <1>2, <1>3, <1>6 DEF RowAfter, Diff
  <2>4. QED BY <2>2, <2>3
<1>7. QED BY <1>5, <1>6

LEMMA SnapshotLists ==
  ASSUME NEW b \in Inventory, NEW t \in Table,
         NEW u \in Applied(t, Diff(EmptyInventory, b, TRUE))
  PROVE  \A i \in Present(b) : u[RowOf(i)] # NoAttr
<1> TAKE i \in Present(b)
<1> DEFINE d == Diff(EmptyInventory, b, TRUE)
           w == RowOf(i)
           upserts == {j \in Present(d.upsert) : RowOf(j) = w}
<1>1. i \in Items /\ b[i] # NoAttr /\ w \in RowIds
  BY DEF Present, RowIds, RowsOf
<1>2. u[w] \in RowAfter(t, d, w)
  BY <1>1 DEF Applied
<1>3. w \notin RowsOf(d.remove)
  BY DEF RowsOf, Diff, Present, EmptyInventory
<1>4. \A j \in upserts : ColumnsOf[d.upsert[j]] # NoAttr
  <2>1. \A j \in upserts : d.upsert[j] \in Attrs
    BY DEF Present, Diff, Inventory, AttrOrNone
  <2>2. QED BY <2>1, InventoryAssumption
<1>5. i \in upserts
  BY <1>1 DEF Present, Diff, EmptyInventory
<1>6. QED BY <1>2, <1>3, <1>4, <1>5 DEF RowAfter

\* The batch of number n, as a difference.
LEMMA BatchAt ==
  ASSUME IInv, NEW n \in BatchIds
  PROVE  /\ hist[n].inv \in Inventory /\ hist[n].batch.full \in BOOLEAN
         /\ hist[n].batch.full => hist[n].batch = Diff(EmptyInventory, hist[n].inv, TRUE)
         /\ ~hist[n].batch.full =>
              /\ n # 1 /\ n - 1 \in BatchIds /\ hist[n - 1].inv \in Inventory
              /\ hist[n].batch = Diff(hist[n - 1].inv, hist[n].inv, FALSE)
<1>1. hist[n].inv \in Inventory /\ hist[n].batch.full \in BOOLEAN
  BY HistoryEntry DEF IInv, Batch
<1>2. /\ n = 1 => hist[n].batch.full
      /\ hist[n].batch = Diff(IF hist[n].batch.full THEN EmptyInventory
                              ELSE hist[n - 1].inv,
                              hist[n].inv, hist[n].batch.full)
  BY DEF IInv, Chained
<1>3. CASE hist[n].batch.full
  <2>1. hist[n].batch.full = TRUE
    BY <1>1, <1>3
  <2>2. QED BY <1>1, <1>2, <1>3, <2>1
<1>4. CASE ~hist[n].batch.full
  <2>1. hist[n].batch.full = FALSE
    BY <1>1, <1>4
  <2>2. n # 1 /\ n - 1 \in BatchIds
    BY <1>2, <1>4, LedgerTyped DEF BatchIds
  <2>3. hist[n - 1].inv \in Inventory
    BY <2>2, HistoryEntry DEF IInv
  <2>4. QED BY <1>1, <1>2, <1>4, <2>1, <2>2, <2>3
<1>5. QED BY <1>3, <1>4

LEMMA ListedNext ==
  ASSUME DistinctRows, IInv, Sequential, Listed, [Next]_vars
  PROVE  Listed'
<1> SUFFICES ASSUME lost' = {}, ledger' # <<>>
             PROVE  \A i \in Present(hist'[Last(ledger)'].inv) : rows'[RowOf(i)] # NoAttr
  BY DEF Listed
<1>1. lost = {} /\ \A k \in DOMAIN ledger : ledger[k] = k
  BY LostGrows DEF Sequential
<1>2. CASE ~ \E r \in ReqIds : Ingest(r)
  <2>1. UNCHANGED <<ledger, rows>> /\ \A m \in BatchIds : hist'[m] = hist[m]
    BY <1>2, OnlyIngestWrites
  <2>2. Last(ledger) \in BatchIds
    <3>1. Len(ledger) \in DOMAIN ledger
      BY <2>1, LedgerTyped
    <3>2. QED BY <3>1, LedgerTyped DEF Last
  <2>3. Last(ledger)' = Last(ledger)
    BY <2>1 DEF Last
  <2>4. QED BY <1>1, <2>1, <2>2, <2>3 DEF Listed
<1>3. CASE \E r \in ReqIds : Ingest(r)
  <2> DEFINE n == Len(ledger) + 1
  <2>1. /\ n \in BatchIds /\ ledger' = Append(ledger, n) /\ UNCHANGED hist
        /\ rows' \in Applied(rows, hist[n].batch)
    BY <1>1, <1>3, IngestNext
  <2>2. Last(ledger)' = n
    BY <1>1, <2>1, LedgerAppended
  <2>3. rows \in Table
    BY DEF IInv, TypeOK
  <2> HIDE DEF n
  <2>4. ASSUME NEW i \in Present(hist[n].inv)
        PROVE  rows'[RowOf(i)] # NoAttr
    <3>1. CASE hist[n].batch.full
      <4>1. hist[n].inv \in Inventory /\ hist[n].batch = Diff(EmptyInventory, hist[n].inv, TRUE)
        BY <2>1, <3>1, BatchAt
      <4>2. rows' \in Applied(rows, Diff(EmptyInventory, hist[n].inv, TRUE))
        BY <2>1, <4>1
      <4>3. \A j \in Present(hist[n].inv) : rows'[RowOf(j)] # NoAttr
        BY <2>3, <4>1, <4>2, SnapshotLists
      <4>4. QED BY <2>4, <4>3
    <3>2. CASE ~hist[n].batch.full
      <4>1. /\ hist[n].inv \in Inventory /\ n # 1
            /\ hist[n - 1].inv \in Inventory
            /\ hist[n].batch = Diff(hist[n - 1].inv, hist[n].inv, FALSE)
        BY <2>1, <3>2, BatchAt
      <4>2. ledger # <<>> /\ Last(ledger) = n - 1
        <5>1. Len(ledger) \in DOMAIN ledger /\ n - 1 = Len(ledger)
          BY <4>1, LedgerTyped DEF n
        <5>2. QED BY <5>1, <1>1 DEF Last
      <4>3. \A j \in Present(hist[n - 1].inv) : rows[RowOf(j)] # NoAttr
        BY <1>1, <4>2 DEF Listed
      <4>4. rows' \in Applied(rows, Diff(hist[n - 1].inv, hist[n].inv, FALSE))
        BY <2>1, <4>1
      <4>5. \A j \in Present(hist[n].inv) : rows'[RowOf(j)] # NoAttr
        BY <2>3, <4>1, <4>3, <4>4, DeltaLists
      <4>6. QED BY <2>4, <4>5
    <3>3. QED BY <3>1, <3>2
  <2>5. QED BY <2>1, <2>2, <2>4
<1>4. QED BY <1>2, <1>3

\* Once the spool is drained and nothing was lost, every identity that the agent
\* observes has a row, also of a source the snapshot had nothing of.
THEOREM DrainedIsListed ==
  ASSUME DistinctRows
  PROVE  Spec => []ObservedIsListed
<1>1. Init => Listed
  BY DEF Init, Listed
<1>2. IInv /\ Sequential /\ Listed /\ [Next]_vars => Listed'
  BY ListedNext
<1>3. ASSUME IInv, Sequential, Listed PROVE ObservedIsListed
  <2> SUFFICES ASSUME Drained PROVE \A i \in Present(last) : rows[RowOf(i)] # NoAttr
    BY DEF ObservedIsListed
  <2>1. lost = {} /\ ledger # <<>> /\ last = hist[Last(ledger)].inv
    BY <1>3, DrainedLedger DEF Drained
  <2>2. QED BY <1>3, <2>1 DEF Listed
<1>4. QED BY <1>1, <1>2, <1>3, Invariance, SequentialInvariant, PTL DEF Spec

-----------------------------------------------------------------------------
(* Delivery implements Mirror. *)

\* No collection comes back without anything of a source.
EverySource ==
  \A c \in Collections, s \in Sources : \E i \in Present(c) : SourceOf[i] = s

\* No push fails, the cap is never reached, and both collectors answer.
Lossless ==
  /\ "push" \notin Faults
  /\ MaxBatches <= SpoolMax
  /\ EverySource

\* Nothing is lost, and every full snapshot has something of each source.
Complete ==
  /\ lost = {}
  /\ Len(spool) <= Len(hist)
  /\ \A n \in BatchIds : hist[n].batch.full =>
       \A s \in Sources : \E i \in Present(hist[n].inv) : SourceOf[i] = s

\* The server shows the inventory it ingested last.
Current ==
  ledger # <<>> => \A s \in Sources : Shows(rows, hist[Last(ledger)].inv, s)

\* A step adds to the history at most one batch, of an inventory.
Collected ==
  \/ hist' = hist
  \/ \E cur \in Inventory, b \in Batch : hist' = Append(hist, [inv |-> cur, batch |-> b])

LEMMA CollectComplete ==
  ASSUME IInv, Complete, Lossless, NEW cur \in Inventory, NEW full \in BOOLEAN,
         CollectAndSpool(cur, full), full => cur \in Collections
  PROVE  Complete' /\ Collected
<1> DEFINE b == Diff(last, cur, full)
           e == [inv |-> cur, batch |-> b]
<1>1. CASE UNCHANGED <<spool, hist, lost>>
  BY <1>1 DEF Complete, BatchIds, Collected
<1>2. CASE ~UNCHANGED <<spool, hist, lost>>
  <2>1. Len(hist) < MaxBatches /\ hist' = Append(hist, e) /\ Push(Len(hist) + 1)
    BY <1>2 DEF CollectAndSpool
  <2>2. b \in Batch /\ b.full = full /\ spool \in Seq(Nat)
    <3>1. last \in Inventory /\ spool \in Seq(Nat)
      BY DEF IInv, TypeOK
    <3>2. QED BY <3>1, DiffIsBatch DEF Diff
  <2> HIDE DEF b
  <2>3. ~OverCap
    BY <2>1, <2>2, LedgerTyped, DeliveryAssumption DEF Complete, Lossless, OverCap
  <2>4. WithinCap = spool
    BY <2>3 DEF WithinCap
  <2>5. spool' = Append(spool, Len(hist) + 1) /\ lost' = lost
    BY <2>1, <2>4 DEF Push, Lossless
  <2>6. Len(hist') = Len(hist) + 1 /\ Len(spool') = Len(spool) + 1
    BY <2>1, <2>2, <2>5, LedgerTyped
  <2>7. ASSUME NEW n \in BatchIds', hist'[n].batch.full, NEW s \in Sources
        PROVE  \E i \in Present(hist'[n].inv) : SourceOf[i] = s
    <3>1. CASE n \in BatchIds
      <4>1. hist'[n] = hist[n]
        BY <2>1, <3>1, LedgerTyped DEF BatchIds
      <4>2. QED BY <2>7, <3>1, <4>1 DEF Complete
    <3>2. CASE n \notin BatchIds
      <4>1. n = Len(hist) + 1
        BY <2>6, <3>2, LedgerTyped DEF BatchIds
      <4>2. hist'[n] = e
        BY <2>1, <4>1, LedgerTyped
      <4>3. full
        BY <2>2, <2>7, <4>2
      <4>4. QED BY <4>2, <4>3 DEF Lossless, EverySource
    <3>3. QED BY <3>1, <3>2
  <2>8. Collected
    BY <2>1, <2>2 DEF Collected
  <2>9. QED BY <2>2, <2>5, <2>6, <2>7, <2>8, LedgerTyped DEF Complete
<1>3. QED BY <1>1, <1>2

LEMMA CompleteNext ==
  ASSUME IInv, Complete, Lossless, [Next]_vars
  PROVE  Complete' /\ Collected
<1>1. CASE Start
  <2>1. PICK cur \in Collections : CollectAndSpool(cur, TRUE)
    BY <1>1 DEF Start
  <2>2. cur \in Inventory
    BY DeliveryAssumption
  <2>3. QED BY <2>1, <2>2, CollectComplete
<1>2. ASSUME NEW s \in Sources, Tick(s)
      PROVE  Complete' /\ Collected
  <2>1. PICK c \in Collections :
          CollectAndSpool([i \in Items |-> IF SourceOf[i] = s THEN c[i] ELSE last[i]],
                          FALSE)
    BY <1>2 DEF Tick
  <2> DEFINE cur == [i \in Items |-> IF SourceOf[i] = s THEN c[i] ELSE last[i]]
  <2>2. cur \in Inventory
    BY DeliveryAssumption DEF Inventory, IInv, TypeOK
  <2> HIDE DEF cur
  <2>3. CollectAndSpool(cur, FALSE)
    BY <2>1 DEF cur
  <2>4. QED BY <2>2, <2>3, CollectComplete
<1>3. CASE ReceiveAccepted
  <2>1. UNCHANGED <<hist, lost>> /\ (spool' = Tail(spool) \/ spool' = spool)
    BY <1>3 DEF ReceiveAccepted
  <2>2. spool # <<>> /\ spool \in Seq(Nat)
    BY <1>3 DEF ReceiveAccepted, IInv, Control, TypeOK
  <2>3. Len(spool') <= Len(hist)
    BY <2>1, <2>2, LedgerTyped DEF Complete
  <2>4. QED BY <2>1, <2>3 DEF Complete, Collected, BatchIds
<1>4. ASSUME UNCHANGED <<spool, hist, lost>>
      PROVE  Complete' /\ Collected
  BY <1>4 DEF Complete, Collected, BatchIds
<1>5. CASE \/ Crash \/ PostHead \/ PeekFails \/ Retry \/ Timeout
           \/ ReceiveRefused \/ ReceiveError \/ Decommission
  BY <1>4, <1>5 DEF Crash, PostHead, PeekFails, Retry, Timeout, ReceiveRefused,
     ReceiveError, Decommission, agentVars
<1>6. ASSUME NEW r \in ReqIds,
             \/ Admit(r) \/ RejectBody(r) \/ RejectAgent(r)
             \/ CheckSeen(r) \/ CheckFails(r)
             \/ Ingest(r) \/ IngestFails(r) \/ Abort(r)
      PROVE  UNCHANGED <<spool, hist, lost>>
  BY <1>6 DEF Admit, RejectBody, RejectAgent, CheckSeen, CheckFails, Ingest,
     IngestFails, Abort, serverIdle, agentVars
<1>7. CASE UNCHANGED vars
  BY <1>4, <1>7 DEF vars, agentVars
<1>8. QED BY <1>1, <1>2, <1>3, <1>4, <1>5, <1>6, <1>7 DEF Next, Agent, Server

LEMMA CurrentNext ==
  ASSUME DistinctRows, IInv, Sequential, Complete, Current, [Next]_vars
  PROVE  Current'
<1> SUFFICES ASSUME ledger' # <<>>, NEW s \in Sources
             PROVE  Shows(rows', hist'[Last(ledger)'].inv, s)
  BY DEF Current
<1>1. lost = {} /\ \A k \in DOMAIN ledger : ledger[k] = k
  BY DEF Sequential, Complete
<1>2. CASE ~ \E r \in ReqIds : Ingest(r)
  <2>1. UNCHANGED <<ledger, rows>> /\ \A m \in BatchIds : hist'[m] = hist[m]
    BY <1>2, OnlyIngestWrites
  <2>2. Last(ledger) \in BatchIds
    <3>1. Len(ledger) \in DOMAIN ledger
      BY <2>1, LedgerTyped
    <3>2. QED BY <3>1, LedgerTyped DEF Last
  <2>3. Last(ledger)' = Last(ledger)
    BY <2>1 DEF Last
  <2>4. QED BY <2>1, <2>2, <2>3 DEF Current
<1>3. CASE \E r \in ReqIds : Ingest(r)
  <2> DEFINE n == Len(ledger) + 1
  <2>1. /\ n \in BatchIds /\ ledger' = Append(ledger, n) /\ UNCHANGED hist
        /\ rows' \in Applied(rows, hist[n].batch)
    BY <1>1, <1>3, IngestNext
  <2>2. Last(ledger)' = n
    BY <1>1, <2>1, LedgerAppended
  <2>3. rows \in Table
    BY DEF IInv, TypeOK
  <2> HIDE DEF n
  <2>4. Shows(rows', hist[n].inv, s)
    <3>1. CASE hist[n].batch.full
      <4>1. hist[n].inv \in Inventory /\ hist[n].batch = Diff(EmptyInventory, hist[n].inv, TRUE)
        BY <2>1, <3>1, BatchAt
      <4>2. \E i \in Present(hist[n].inv) : SourceOf[i] = s
        BY <2>1, <3>1 DEF Complete
      <4>3. QED BY <2>1, <2>3, <4>1, <4>2, SnapshotApplied
    <3>2. CASE ~hist[n].batch.full
      <4>1. /\ hist[n].inv \in Inventory /\ n # 1
            /\ hist[n - 1].inv \in Inventory
            /\ hist[n].batch = Diff(hist[n - 1].inv, hist[n].inv, FALSE)
        BY <2>1, <3>2, BatchAt
      <4>2. ledger # <<>> /\ Last(ledger) = n - 1
        <5>1. Len(ledger) \in DOMAIN ledger /\ n - 1 = Len(ledger)
          BY <4>1, LedgerTyped DEF n
        <5>2. QED BY <5>1, <1>1 DEF Last
      <4>3. Shows(rows, hist[n - 1].inv, s)
        BY <4>2 DEF Current
      <4>4. QED BY <2>1, <2>3, <4>1, <4>3, DeltaApplied
    <3>3. QED BY <3>1, <3>2
  <2>5. QED BY <2>1, <2>2, <2>4
<1>4. QED BY <1>2, <1>3

\* The vocabulary of Mirror is that of Delivery.
LEMMA SameWords ==
  /\ Abstract!Inventory = Inventory
  /\ Abstract!Sources = Sources
  /\ Abstract!Table = Table
  /\ \A t, inv, s : Abstract!Shows(t, inv, s) <=> Shows(t, inv, s)
BY DEF Abstract!Inventory, Inventory, Abstract!AttrOrNone, AttrOrNone,
   Abstract!Sources, Sources, Abstract!Table, Table, Abstract!RowIds, RowIds,
   Abstract!RowsOf, RowsOf, Abstract!RowOf, RowOf, Abstract!Shows, Shows,
   Abstract!RowShows, RowShows, Abstract!Present, Present

\* What Mirror's variable collected stands for.
Inventories == [n \in BatchIds |-> hist[n].inv]

LEMMA InventoriesTyped ==
  ASSUME IInv
  PROVE  Inventories \in Seq(Inventory) /\ Len(Inventories) = Len(hist)
<1>1. \A n \in 1..Len(hist) : hist[n].inv \in Inventory
  BY HistoryEntry DEF IInv, BatchIds
<1>2. Len(hist) \in Nat
  BY LedgerTyped
<1>3. QED BY <1>1, <1>2 DEF Inventories, BatchIds

LEMMA InventoriesAppended ==
  ASSUME IInv, NEW cur \in Inventory, NEW b \in Batch,
         hist' = Append(hist, [inv |-> cur, batch |-> b])
  PROVE  Inventories' = Append(Inventories, cur)
<1> DEFINE e == [inv |-> cur, batch |-> b]
<1>1. /\ Inventories \in Seq(Inventory) /\ Len(Inventories) = Len(hist)
      /\ Len(hist) \in Nat
  BY InventoriesTyped, LedgerTyped
<1>2. Len(hist') = Len(hist) + 1 /\ hist'[Len(hist) + 1] = e
      /\ \A n \in 1..Len(hist) : hist'[n] = hist[n]
  BY LedgerTyped
<1>3. Inventories' \in Seq(Inventory) /\ Len(Inventories') = Len(hist')
  <2>1. \A n \in 1..(Len(hist) + 1) : hist'[n].inv \in Inventory
    BY <1>1, <1>2, HistoryEntry DEF IInv, BatchIds
  <2>2. Inventories' = [n \in 1..(Len(hist) + 1) |-> hist'[n].inv]
    BY <1>2 DEF Inventories, BatchIds
  <2>3. QED BY <1>1, <1>2, <2>1, <2>2
<1>4. \A n \in 1..(Len(hist) + 1) :
        Inventories'[n] = IF n <= Len(hist) THEN Inventories[n] ELSE cur
  BY <1>1, <1>2 DEF Inventories, BatchIds
<1>5. /\ Append(Inventories, cur) \in Seq(Inventory)
      /\ Len(Append(Inventories, cur)) = Len(hist) + 1
      /\ \A n \in 1..(Len(hist) + 1) :
           Append(Inventories, cur)[n] = IF n <= Len(hist) THEN Inventories[n] ELSE cur
  BY <1>1
<1>6. QED BY <1>1, <1>2, <1>3, <1>4, <1>5, SeqEqual

LEMMA MirrorInit == Init => Abstract!Init
<1> SUFFICES ASSUME Init PROVE Abstract!Init
  OBVIOUS
<1>1. hist = <<>> /\ ledger = <<>> /\ rows \in Leftovers
  BY DEF Init
<1>2. [n \in BatchIds |-> hist[n].inv] = <<>> /\ Len(ledger) = 0
  BY <1>1 DEF BatchIds
<1>3. QED BY <1>1, <1>2 DEF Abstract!Init

LEMMA MirrorNext ==
  ASSUME IInv, IInv', Sequential, Complete, Current', Collected, [Next]_vars
  PROVE  [Abstract!Next]_(Abstract!vars)
<1>1. CASE \E r \in ReqIds : Ingest(r)
  <2> DEFINE n == Len(ledger) + 1
  <2>1. lost = {} /\ \A k \in DOMAIN ledger : ledger[k] = k
    BY DEF Sequential, Complete
  <2>2. /\ n \in BatchIds /\ ledger' = Append(ledger, n) /\ UNCHANGED hist
    BY <1>1, <2>1, IngestNext
  <2>3. Last(ledger)' = n /\ Len(ledger') = n /\ ledger' # <<>>
    BY <2>1, <2>2, LedgerAppended
  <2>4. \A s \in Sources : Shows(rows', hist[n].inv, s)
    BY <2>2, <2>3 DEF Current
  <2>5. rows' \in Table
    BY DEF IInv, TypeOK
  <2>6. Inventories' = Inventories /\ Inventories[n] = hist[n].inv
    BY <2>2 DEF Inventories, BatchIds
  <2>7. Len(ledger) < Len(Inventories)
    BY <2>2, InventoriesTyped, LedgerTyped DEF BatchIds
  <2>8. rows' \in {t \in Table : \A s \in Sources : Shows(t, Inventories[Len(ledger')], s)}
    BY <2>3, <2>4, <2>5, <2>6
  <2>9. Abstract!Publish
    BY <2>3, <2>6, <2>7, <2>8, SameWords DEF Abstract!Publish, Inventories
  <2>10. QED BY <2>9 DEF Abstract!Next
<1>2. CASE ~ \E r \in ReqIds : Ingest(r)
  <2>1. UNCHANGED <<ledger, rows>>
    BY <1>2, OnlyIngestWrites
  <2>2. CASE hist' = hist
    <3>1. Inventories' = Inventories
      BY <2>2 DEF Inventories, BatchIds
    <3>2. QED BY <2>1, <3>1 DEF Abstract!vars, Inventories
  <2>3. CASE hist' # hist
    <3>1. PICK cur \in Inventory, b \in Batch :
            hist' = Append(hist, [inv |-> cur, batch |-> b])
      BY <2>3 DEF Collected
    <3>2. Inventories' = Append(Inventories, cur)
      BY <3>1, InventoriesAppended
    <3>3. Abstract!Collect
      BY <2>1, <3>2, SameWords DEF Abstract!Collect, Inventories
    <3>4. QED BY <3>3 DEF Abstract!Next
  <2>4. QED BY <2>2, <2>3
<1>3. QED BY <1>1, <1>2

\* Where no batch can be lost, no two identities share a row and both collectors
\* answer, the server's rows step through the collected inventories in order,
\* each of them once: for any number of batches, requests, retries and crashes.
THEOREM DeliveryImplementsMirror ==
  ASSUME DistinctRows, Lossless
  PROVE  Spec => ImplementsMirror
<1>1. Init => Complete /\ Current
  BY DEF Init, Complete, Current, BatchIds
<1>2. IInv /\ Complete /\ [Next]_vars => Complete' /\ Collected
  BY CompleteNext
<1>3. IInv /\ Sequential /\ Complete /\ Current /\ [Next]_vars => Current'
  BY CurrentNext
<1>4. /\ IInv /\ IInv' /\ Sequential /\ Complete /\ Current' /\ Collected /\ [Next]_vars
      => [Abstract!Next]_(Abstract!vars)
  BY MirrorNext
<1>5. Spec => [](Complete /\ Current)
  BY <1>1, <1>2, <1>3, Invariance, SequentialInvariant, PTL DEF Spec
<1>6. QED
  BY <1>2, <1>4, <1>5, Invariance, SequentialInvariant, MirrorInit, PTL
     DEF Spec, ImplementsMirror, Abstract!Spec

-----------------------------------------------------------------------------
(* Decommissioning. *)

\* Once an agent is decommissioned no request of its gets past authentication,
\* and when those that had passed are done nothing changes its rows.
THEOREM DecommissionIsFinal == Spec => DecommissionCutsOff
<1>1. ASSUME IInv, [Next]_vars, status = "decommissioned"
      PROVE  /\ Admitted' \subseteq Admitted
             /\ Admitted = {} => UNCHANGED <<ledger, rows>>
  <2>1. ASSUME NEW r \in ReqIds, reqs'[r].stage \in {"admitted", "checked"}
        PROVE  reqs[r].stage \in {"admitted", "checked"}
    <3>1. reqs \in [ReqIds -> Request] /\ awaiting \in ReqIds \cup {NoReq}
      BY <1>1 DEF IInv, TypeOK
    <3>2. CASE UNCHANGED reqs
      BY <2>1, <3>2
    <3>3. ASSUME NEW n, Send(n) PROVE reqs[r].stage \in {"admitted", "checked"}
      BY <2>1, <3>1, <3>3 DEF Send
    <3>4. ASSUME NEW x \in ReqIds, reqs' = [reqs EXCEPT ![x] = Free]
          PROVE  reqs[r].stage \in {"admitted", "checked"}
      BY <2>1, <3>1, <3>4 DEF Free
    <3>5. ASSUME NEW x \in ReqIds, NEW code, Reply(x, code)
          PROVE  reqs[r].stage \in {"admitted", "checked"}
      BY <2>1, <3>1, <3>5 DEF Reply, Free, Request
    <3>6. ASSUME NEW x \in ReqIds, reqs[x].stage = "admitted", Advance(x, "checked")
          PROVE  reqs[r].stage \in {"admitted", "checked"}
      BY <2>1, <3>1, <3>6 DEF Advance, Request
    <3>7. CASE Crash
      BY <2>1, <3>7 DEF Crash, Free
    <3>8. CASE \/ Start \/ (\E s \in Sources : Tick(s)) \/ PeekFails \/ Decommission
      BY <3>2, <3>8 DEF Start, Tick, PeekFails, Decommission
    <3>9. CASE PostHead \/ Retry
      BY <3>3, <3>9 DEF PostHead, Retry
    <3>10. CASE Timeout \/ ReceiveAccepted \/ ReceiveRefused \/ ReceiveError
      <4>1. awaiting \in ReqIds
        BY <1>1, <3>10, <3>1 DEF IInv, Control, Timeout, ReceiveAccepted, ReceiveRefused,
           ReceiveError
      <4>2. QED
        BY <3>10, <4>1, <3>2, <3>4 DEF Timeout, ReceiveAccepted, ReceiveRefused,
           ReceiveError
    <3>11. ASSUME NEW x \in ReqIds,
                  \/ Admit(x) \/ RejectBody(x) \/ RejectAgent(x)
                  \/ CheckSeen(x) \/ CheckFails(x)
                  \/ Ingest(x) \/ IngestFails(x) \/ Abort(x)
           PROVE  reqs[r].stage \in {"admitted", "checked"}
      <4>1. ~Admit(x)
        BY <1>1 DEF Admit
      <4>2. CASE \/ RejectBody(x) \/ RejectAgent(x) \/ CheckFails(x) \/ IngestFails(x)
                 \/ Ingest(x)
        BY <3>5, <4>2 DEF RejectBody, RejectAgent, CheckFails, IngestFails, Ingest
      <4>3. CASE CheckSeen(x)
        BY <3>5, <3>6, <4>3 DEF CheckSeen
      <4>4. CASE Abort(x)
        BY <3>4, <4>4 DEF Abort
      <4>5. QED BY <3>11, <4>1, <4>2, <4>3, <4>4
    <3>12. CASE UNCHANGED vars
      BY <3>2, <3>12 DEF vars
    <3>13. QED
      BY <1>1, <3>7, <3>8, <3>9, <3>10, <3>11, <3>12 DEF Next, Agent, Server
  <2>2. ASSUME Admitted = {} PROVE UNCHANGED <<ledger, rows>>
    <3>1. ~ \E r \in ReqIds : Ingest(r)
      BY <2>2 DEF Admitted, Ingest
    <3>2. QED BY <1>1, <3>1, OnlyIngestWrites
  <2>3. QED BY <2>1, <2>2 DEF Admitted
<1>2. QED BY <1>1, Invariance, PTL DEF Spec, DecommissionCutsOff
-----------------------------------------------------------------------------
(* How far full snapshots repair the host's rows. *)

\* The snapshots in the history have something of each source.
SnapshotsWhole ==
  \A n \in BatchIds : hist[n].batch.full =>
    \A s \in Sources : \E i \in Present(hist[n].inv) : SourceOf[i] = s

LEMMA WholeNext ==
  ASSUME EverySource, IInv, SnapshotsWhole, [Next]_vars
  PROVE  SnapshotsWhole'
<1>1. Len(hist) \in Nat /\ hist \in Seq([inv : Inventory, batch : Batch])
  BY LedgerTyped
<1>2. ASSUME NEW cur, NEW full \in BOOLEAN, CollectAndSpool(cur, full),
             full => cur \in Collections
      PROVE  SnapshotsWhole'
  <2> DEFINE e == [inv |-> cur, batch |-> Diff(last, cur, full)]
  <2>1. CASE UNCHANGED hist
    BY <2>1 DEF SnapshotsWhole, BatchIds
  <2>2. CASE hist' = Append(hist, e)
    <3>1. SUFFICES ASSUME NEW n \in BatchIds', hist'[n].batch.full, NEW s \in Sources
                   PROVE  \E i \in Present(hist'[n].inv) : SourceOf[i] = s
      BY DEF SnapshotsWhole
    <3>2. CASE n \in BatchIds
      <4>1. hist'[n] = hist[n]
        BY <1>1, <2>2, <3>2 DEF BatchIds
      <4>2. QED BY <3>1, <3>2, <4>1 DEF SnapshotsWhole
    <3>3. CASE n \notin BatchIds
      <4>1. hist'[n] = e
        BY <1>1, <2>2, <3>3 DEF BatchIds
      <4>2. full
        BY <3>1, <4>1 DEF Diff
      <4>3. QED BY <1>2, <4>1, <4>2 DEF EverySource
    <3>4. QED BY <3>2, <3>3
  <2>3. QED BY <1>2, <2>1, <2>2 DEF CollectAndSpool
<1>3. CASE Start \/ \E s \in Sources : Tick(s)
  BY <1>2, <1>3 DEF Start, Tick
<1>4. CASE UNCHANGED hist
  BY <1>4 DEF SnapshotsWhole, BatchIds
<1>5. CASE \/ Crash \/ PostHead \/ PeekFails \/ Retry \/ Timeout
           \/ ReceiveAccepted \/ ReceiveRefused \/ ReceiveError \/ Decommission
  BY <1>4, <1>5 DEF Crash, PostHead, PeekFails, Retry, Timeout, ReceiveAccepted,
     ReceiveRefused, ReceiveError, Decommission
<1>6. ASSUME NEW r \in ReqIds,
             \/ Admit(r) \/ RejectBody(r) \/ RejectAgent(r)
             \/ CheckSeen(r) \/ CheckFails(r)
             \/ Ingest(r) \/ IngestFails(r) \/ Abort(r)
      PROVE  UNCHANGED hist
  BY <1>6 DEF Admit, RejectBody, RejectAgent, CheckSeen, CheckFails, Ingest,
     IngestFails, Abort, serverIdle
<1>7. CASE UNCHANGED vars
  BY <1>4, <1>7 DEF vars
<1>8. QED BY <1>3, <1>4, <1>5, <1>6, <1>7 DEF Next, Agent, Server

\* A snapshot that has something of each source deletes all rows but its own.
LEMMA SnapshotReconciles ==
  ASSUME NEW b \in Inventory, NEW t, NEW u \in Applied(t, Diff(EmptyInventory, b, TRUE)),
         \A s \in Sources : \E i \in Present(b) : SourceOf[i] = s,
         NEW w \in RowIds, u[w] # NoAttr
  PROVE  w \in RowsOf(Present(Diff(EmptyInventory, b, TRUE).upsert))
<1> DEFINE d == Diff(EmptyInventory, b, TRUE)
<1>1. \A i \in Items : d.upsert[i] = b[i]
  BY DEF Diff, EmptyInventory, Inventory
<1>2. Present(d.upsert) = Present(b)
  BY <1>1 DEF Present
<1>3. w[2] \in Sources
  BY InventoryAssumption DEF RowIds, RowsOf, RowOf
<1>4. d.full /\ \E i \in Present(d.upsert) : SourceOf[i] = w[2]
  BY <1>2, <1>3 DEF Diff
<1>5. u[w] \in RowAfter(t, d, w)
  BY DEF Applied
<1> HIDE DEF d
<1>6. CASE {i \in Present(d.upsert) : RowOf(i) = w} = {}
  BY <1>4, <1>5, <1>6 DEF RowAfter
<1>7. CASE {i \in Present(d.upsert) : RowOf(i) = w} # {}
  BY <1>7 DEF RowsOf, d
<1>8. QED BY <1>6, <1>7

LEMMA ReconcilesNext ==
  ASSUME IInv, SnapshotsWhole, FullSnapshotReconciles, [Next]_vars
  PROVE  FullSnapshotReconciles'
<1>1. CASE ~ \E r \in ReqIds : Ingest(r)
  <2>1. UNCHANGED <<ledger, rows>> /\ \A m \in BatchIds : hist'[m] = hist[m]
    BY <1>1, OnlyIngestWrites
  <2>2. Last(ledger)' = Last(ledger)
    BY <2>1 DEF Last
  <2>3. ledger # <<>> => Last(ledger) \in BatchIds
    <3>1. ledger # <<>> => Len(ledger) \in DOMAIN ledger
      BY LedgerTyped
    <3>2. QED BY <3>1, LedgerTyped DEF Last
  <2>4. QED BY <2>1, <2>2, <2>3 DEF FullSnapshotReconciles
<1>2. ASSUME NEW r \in ReqIds, Ingest(r) PROVE FullSnapshotReconciles'
  <2> DEFINE n == reqs[r].batch
  <2>1. /\ UNCHANGED hist
        /\ ledger' = Append(ledger, n)
        /\ rows' \in Applied(rows, hist[n].batch)
        /\ n \in BatchIds
    BY <1>2 DEF Ingest, IInv, Known, InFlight
  <2> HIDE DEF n
  <2>2. Last(ledger)' = n
    BY <2>1, LedgerTyped DEF Last, BatchIds
  <2>3. ASSUME hist[n].batch.full, NEW w \in RowIds, rows'[w] # NoAttr
        PROVE  w \in RowsOf(Present(hist[n].batch.upsert))
    <3>1. hist[n].inv \in Inventory /\ hist[n].batch = Diff(EmptyInventory, hist[n].inv, TRUE)
      BY <2>1, <2>3, BatchAt
    <3>2. \A s \in Sources : \E i \in Present(hist[n].inv) : SourceOf[i] = s
      BY <2>1, <2>3 DEF SnapshotsWhole
    <3>3. QED BY <2>1, <2>3, <3>1, <3>2, SnapshotReconciles
  <2>4. QED BY <2>1, <2>2, <2>3 DEF FullSnapshotReconciles
<1>3. QED BY <1>1, <1>2

\* The comment on IngestBatch's reconcile is right where every collection has
\* something of each source, whatever is lost, late, repeated or shares rows:
\* a full snapshot leaves the host no row but those of its payload.
THEOREM SnapshotReplacesRows ==
  ASSUME EverySource
  PROVE  Spec => []FullSnapshotReconciles
<1>1. Init => SnapshotsWhole /\ FullSnapshotReconciles
  BY DEF Init, SnapshotsWhole, BatchIds, FullSnapshotReconciles
<1>2. IInv /\ SnapshotsWhole /\ [Next]_vars => SnapshotsWhole'
  BY WholeNext
<1>3. IInv /\ SnapshotsWhole /\ FullSnapshotReconciles /\ [Next]_vars
        => FullSnapshotReconciles'
  BY ReconcilesNext
<1>4. QED BY <1>1, <1>2, <1>3, Invariance, PTL DEF Spec

\* While no batch was ingested after it had been dropped, what is ingested last
\* is the newest of what is ingested.
LEMMA NewestIsLast ==
  ASSUME IInv, lost \cap Range(ledger) = {}, Len(hist) \in Range(ledger)
  PROVE  Len(ledger) \in DOMAIN ledger /\ Last(ledger) = Len(hist)
<1>1. PICK k \in DOMAIN ledger : ledger[k] = Len(hist)
  BY DEF Range
<1>2. k \in 1..Len(ledger) /\ Len(ledger) \in DOMAIN ledger
  BY LedgerTyped
<1>3. k = Len(ledger)
  <2>1. SUFFICES ASSUME k < Len(ledger) PROVE FALSE
    BY <1>2, LedgerTyped
  <2> DEFINE j == Len(ledger)
  <2>2. ledger[j] \in BatchIds /\ ledger[j] \in Range(ledger)
    BY <1>2, LedgerTyped
  <2>3. ledger[j] # ledger[k]
    BY <1>1, <1>2, <2>1 DEF IInv, AtMostOnce, IsInjective
  <2>4. ledger[j] < ledger[k]
    BY <1>1, <2>2, <2>3, LedgerTyped DEF BatchIds
  <2>5. ledger[j] \in lost
    BY <1>1, <1>2, <2>1, <2>4 DEF IInv, InOrder
  <2>6. QED BY <2>2, <2>5
<1>4. QED BY <1>1, <1>2, <1>3 DEF Last

\* A full snapshot that is ingested last repairs the rows, unless a batch that
\* the cap had dropped was ingested all the same: the late handler of such a
\* batch is the only thing that FullSnapshotHeals has to fear.
THEOREM SnapshotHeals ==
  ASSUME DistinctRows
  PROVE  Spec => [](lost \cap Range(ledger) = {} => FullSnapshotHeals)
<1>1. ASSUME IInv, Mirrored, lost \cap Range(ledger) = {}
      PROVE  FullSnapshotHeals
  <2> DEFINE n == Len(hist)
  <2>1. SUFFICES ASSUME n \in Range(ledger), hist[n].batch.full,
                        NEW s \in Sources, Covered(s)
                 PROVE  Shows(rows, hist[n].inv, s)
    BY DEF FullSnapshotHeals
  <2>2. Len(ledger) \in DOMAIN ledger /\ Last(ledger) = n
    BY <1>1, <2>1, NewestIsLast
  <2>3. n \in Nat /\ BatchIds = 1..n
    BY <1>1, LedgerTyped DEF BatchIds
  <2>4. PICK m \in BatchIds :
          /\ \E i \in Present(hist[m].inv) : SourceOf[i] = s
          /\ \A l \in (m + 1)..n : ~hist[l].batch.full
    BY <2>1 DEF Covered
  <2>5. m = n
    <3>1. SUFFICES ASSUME m # n PROVE FALSE
      OBVIOUS
    <3>2. n \in (m + 1)..n
      BY <2>3, <3>1
    <3>3. QED BY <2>1, <2>4, <3>2
  <2>6. AnchoredAt(Len(ledger), s)
    <3>1. ledger[Len(ledger)] = n /\ (Len(ledger) + 1)..Len(ledger) = {}
      BY <1>1, <2>2, LedgerTyped DEF Last
    <3>2. QED BY <2>1, <2>4, <2>5, <3>1 DEF AnchoredAt
  <2>7. QED BY <1>1, <2>2, <2>6 DEF Mirrored
<1>2. QED BY <1>1, ServerMirrorsAgent, Invariance, PTL
=============================================================================

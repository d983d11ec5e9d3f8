--------------------------- MODULE IngestTxProofs ---------------------------
(***************************************************************************)
(* Proofs about IngestTx, for any number of hosts, batches, handlers and   *)
(* connections: one writer per host, no batch acknowledged that is not     *)
(* committed, one catalog row per key that stays, no dangling host row.    *)
(***************************************************************************)
EXTENDS IngestTx, TLAPS, FiniteSetTheorems

HandlerStages == {"idle", "check", "begin", "record"} \cup Recording

LEMMA InitIInv == Init => IInv
<1> SUFFICES ASSUME Init PROVE IInv
  OBVIOUS
<1>1. InTx = {} /\ \A h \in Handlers : ~Recorded(h)
  BY DEF Init, InTx, Recorded, Recording
<1>2. Cardinality(InTx) <= PoolSize
  BY <1>1, FS_EmptySet, IngestAssumption
<1>3. Fresh \in Tx
  BY DEF Fresh, Tx
<1>4. TypeOK
  BY <1>2, <1>3, IngestAssumption DEF Init, TypeOK
<1>5. Serving /\ AcceptedIsIngested
  BY DEF Init, Serving, AcceptedIsIngested
<1>6. Applying
  BY DEF Init, Applying
<1>7. Exclusive /\ IdsNameKeys /\ EntriesFit /\ Deduped /\ Referenced
  BY DEF Init, Fresh, Exclusive, IdsNameKeys, EntriesFit, Deduped, Referenced
<1>8. QED BY <1>1, <1>4, <1>5, <1>6, <1>7 DEF IInv, Unpublished, SingleWriter

-----------------------------------------------------------------------------
(* What several steps have in common. *)

\* A step that puts no transaction into the pool does not overdraw it.
LEMMA PoolKept ==
  ASSUME TypeOK, InTx' \subseteq InTx
  PROVE  Cardinality(InTx') <= PoolSize
<1>1. IsFiniteSet(InTx)
  BY FS_Subset, IngestAssumption DEF InTx
<1>2. Cardinality(InTx') <= Cardinality(InTx)
  BY <1>1, FS_Subset
<1>3. Cardinality(InTx) \in Nat /\ Cardinality(InTx') \in Nat
  BY <1>1, FS_Subset, FS_CardinalityType
<1>4. QED BY <1>2, <1>3, IngestAssumption DEF TypeOK

\* A step from one stage of a transaction to another, or of none to none.
LEMMA GotoTyped ==
  ASSUME TypeOK, NEW h \in Handlers, NEW s \in HandlerStages, Goto(h, s),
         h \in InTx \/ s \notin {"record"} \cup Recording
  PROVE  pc' \in [Handlers -> HandlerStages] /\ Cardinality(InTx') <= PoolSize
<1>1. pc' \in [Handlers -> HandlerStages]
  BY DEF TypeOK, Goto, HandlerStages
<1>2. InTx' \subseteq InTx
  BY DEF TypeOK, Goto, InTx, Recorded
<1>3. QED BY <1>1, <1>2, PoolKept

\* While no request comes or ends, handlers serve what they served.
LEMMA ServingKept ==
  ASSUME TypeOK, Serving, UNCHANGED <<agentVars, job>>,
         \A h \in Handlers : pc[h] = "idle" <=> pc'[h] = "idle"
  PROVE  Serving'
BY DEF TypeOK, Serving, agentVars

\* While no transaction writes, the tables keep their shape.
LEMMA TablesKept ==
  ASSUME IInv, UNCHANGED <<catalog, software, tx>>
  PROVE  Exclusive' /\ IdsNameKeys' /\ EntriesFit' /\ Deduped' /\ Referenced'
BY DEF IInv, Exclusive, IdsNameKeys, EntriesFit, Deduped, Referenced

\* Nor does a transaction that ends without a commit change it.
LEMMA TablesKeptByRollback ==
  ASSUME IInv, NEW h \in Handlers, catalog' = catalog, software' = software,
         \A g \in Handlers : tx'[g] = IF g = h THEN Fresh ELSE tx[g]
  PROVE  Exclusive' /\ IdsNameKeys' /\ EntriesFit' /\ Deduped' /\ Referenced'
<1>1. Fresh.entries = {} /\ Fresh.put = {}
  BY DEF Fresh
<1>2. Exclusive'
  BY <1>1 DEF IInv, Exclusive
<1>3. IdsNameKeys'
  BY <1>1 DEF IInv, IdsNameKeys
<1>4. EntriesFit'
  BY <1>1 DEF IInv, EntriesFit
<1>5. QED BY <1>2, <1>3, <1>4 DEF IInv, Deduped, Referenced

\* The end of a request: what the agents and the other handlers know of it.
LEMMA AnswerEffect ==
  ASSUME IInv, NEW h \in Handlers, pc[h] # "idle", NEW code \in {200, 500},
         Answer(h, code), ledger \subseteq ledger',
         code = 200 => job[h] \in ledger'
  PROVE  /\ \A g \in Handlers : pc'[g] = IF g = h THEN "idle" ELSE pc[g]
         /\ \A g \in Handlers : g # h => job'[g] = job[g] /\ tx'[g] = tx[g]
         /\ pc' \in [Handlers -> HandlerStages]
         /\ job' \in [Handlers -> (Hosts \X Nat) \cup {NoJob}]
         /\ tx' \in [Handlers -> Tx]
         /\ head' \in [Hosts -> Nat]
         /\ awaiting' \in [Hosts -> Handlers \cup {NoHandler}]
         /\ Cardinality(InTx') <= PoolSize
         /\ Serving' /\ AcceptedIsIngested' /\ Applying'
<1> DEFINE a == job[h][1]
<1>1. /\ pc' = [pc EXCEPT ![h] = "idle"]
      /\ job' = [job EXCEPT ![h] = NoJob]
      /\ tx' = [tx EXCEPT ![h] = Fresh]
  BY DEF Answer
<1>2. /\ \A g \in Handlers : pc'[g] = IF g = h THEN "idle" ELSE pc[g]
      /\ \A g \in Handlers : g # h => job'[g] = job[g] /\ tx'[g] = tx[g]
      /\ tx'[h] = Fresh
  BY <1>1 DEF IInv, TypeOK
<1>3. pc' \in [Handlers -> HandlerStages]
  BY <1>1 DEF IInv, TypeOK, HandlerStages
<1>4. /\ job' \in [Handlers -> (Hosts \X Nat) \cup {NoJob}]
      /\ tx' \in [Handlers -> Tx]
  <2>1. Fresh \in Tx
    BY DEF Fresh, Tx
  <2>2. QED BY <1>1, <2>1 DEF IInv, TypeOK
<1>5. a \in Hosts /\ job[h] \in Hosts \X Nat
  BY DEF IInv, Serving
<1>6. /\ head' \in [Hosts -> Nat]
      /\ awaiting' \in [Hosts -> Handlers \cup {NoHandler}]
      /\ \A b \in Hosts : b # a => head'[b] = head[b] /\ awaiting'[b] = awaiting[b]
      /\ awaiting[a] # h => head'[a] = head[a] /\ awaiting'[a] = awaiting[a]
      /\ awaiting[a] = h => /\ awaiting'[a] = NoHandler
                            /\ head'[a] = IF code = 200 THEN head[a] + 1 ELSE head[a]
  <2>1. CASE awaiting[a] # h
    BY <2>1, <1>5 DEF Answer, IInv, TypeOK, agentVars
  <2>2. CASE awaiting[a] = h
    BY <2>2, <1>5 DEF Answer, IInv, TypeOK
  <2>3. QED BY <2>1, <2>2
<1>7. Cardinality(InTx') <= PoolSize
  <2>1. InTx' \subseteq InTx
    BY <1>2 DEF InTx, Recorded, Recording
  <2>2. QED BY <2>1, PoolKept DEF IInv
<1>8. \A b \in Hosts : head[b] \in Nat /\ head'[b] \in Nat /\ head[b] <= head'[b]
  BY <1>6 DEF IInv, TypeOK
<1>9. Serving'
  <2>1. ASSUME NEW g \in Handlers, pc'[g] # "idle"
        PROVE  /\ job'[g] \in Hosts \X Nat
               /\ job'[g][2] \in DOMAIN Payloads[job'[g][1]]
               /\ job'[g][2] <= head'[job'[g][1]]
    <3>1. g # h /\ pc[g] # "idle" /\ job'[g] = job[g]
      BY <2>1, <1>2
    <3>2. /\ job[g] \in Hosts \X Nat
          /\ job[g][2] \in DOMAIN Payloads[job[g][1]]
          /\ job[g][2] <= head[job[g][1]]
      BY <3>1 DEF IInv, Serving
    <3>3. job[g][1] \in Hosts /\ job[g][2] \in Nat
      BY <3>2
    <3>4. job[g][2] <= head'[job[g][1]]
      BY <3>2, <3>3, <1>8
    <3>5. QED BY <3>1, <3>2, <3>4
  <2>2. ASSUME NEW b \in Hosts, awaiting'[b] # NoHandler
        PROVE  pc'[awaiting'[b]] # "idle" /\ job'[awaiting'[b]] = <<b, head'[b]>>
    <3>1. awaiting'[b] = awaiting[b] /\ head'[b] = head[b]
      BY <2>2, <1>6
    <3>2. pc[awaiting[b]] # "idle" /\ job[awaiting[b]] = <<b, head[b]>>
      BY <2>2, <3>1 DEF IInv, Serving
    <3>3. awaiting[b] \in Handlers
      BY <2>2, <3>1 DEF IInv, TypeOK
    <3>4. awaiting[b] # h
      <4>1. SUFFICES ASSUME awaiting[b] = h PROVE FALSE
        OBVIOUS
      <4>2. b = a
        BY <4>1, <3>2
      <4>3. QED BY <4>1, <4>2, <1>6, <2>2
    <3>5. QED BY <3>1, <3>2, <3>3, <3>4, <1>2
  <2>3. QED BY <2>1, <2>2 DEF Serving
<1>10. AcceptedIsIngested'
  <2>1. SUFFICES ASSUME NEW b \in Hosts, NEW n \in 1..(head'[b] - 1)
                 PROVE  <<b, n>> \in ledger'
    BY DEF AcceptedIsIngested
  <2>2. CASE n \in 1..(head[b] - 1)
    BY <2>2 DEF IInv, AcceptedIsIngested
  <2>3. CASE n \notin 1..(head[b] - 1)
    <3>1. b = a /\ awaiting[a] = h /\ code = 200 /\ n = head[b]
      BY <2>3, <1>6, <1>8
    <3>2. job[h] = <<b, n>>
      <4>1. awaiting[b] # NoHandler
        BY <3>1, IngestAssumption
      <4>2. QED BY <3>1, <4>1 DEF IInv, Serving
    <3>3. QED BY <3>1, <3>2
  <2>4. QED BY <2>2, <2>3
<1>11. Applying'
  <2>1. SUFFICES ASSUME NEW g \in Handlers
                 PROVE  /\ pc'[g] \notin {"apply", "reconcile", "commit"} => tx'[g] = Fresh
                        /\ pc'[g] = "apply" => tx'[g].done < Len(PayloadOf(g)'.deltas)
    BY DEF Applying
  <2>2. CASE g = h
    BY <2>2, <1>2
  <2>3. CASE g # h
    BY <2>3, <1>2 DEF IInv, Applying, PayloadOf
  <2>4. QED BY <2>2, <2>3
<1>12. QED BY <1>2, <1>3, <1>4, <1>6, <1>7, <1>9, <1>10, <1>11

-----------------------------------------------------------------------------
(* The steps. *)

\* A request that ends without a commit.
LEMMA RollbackStep ==
  ASSUME IInv, NEW h \in Handlers, pc[h] # "idle", NEW code \in {200, 500},
         Answer(h, code), code = 200 => job[h] \in ledger,
         UNCHANGED dbVars, faults' \in 0..MaxFaults
  PROVE  IInv'
<1>1. UNCHANGED <<ledger, catalog, software>>
  BY DEF dbVars
<1>2. ledger \subseteq ledger' /\ (code = 200 => job[h] \in ledger')
  BY <1>1
<1>3. TypeOK'
  BY <1>1, <1>2, AnswerEffect DEF IInv, TypeOK, HandlerStages
<1>4. Exclusive' /\ IdsNameKeys' /\ EntriesFit' /\ Deduped' /\ Referenced'
  <2>1. \A g \in Handlers : tx'[g] = IF g = h THEN Fresh ELSE tx[g]
    BY DEF Answer, IInv, TypeOK
  <2>2. QED BY <2>1, <1>1, TablesKeptByRollback
<1>5. \A g \in Handlers : Recorded(g)' => Recorded(g) /\ g # h /\ job'[g] = job[g]
  BY <1>2, AnswerEffect DEF Recorded, Recording
<1>6. Unpublished'
  BY <1>1, <1>5 DEF IInv, Unpublished
<1>7. SingleWriter'
  BY <1>5 DEF IInv, SingleWriter
<1>8. Serving' /\ AcceptedIsIngested' /\ Applying'
  BY <1>2, AnswerEffect
<1>9. QED BY <1>3, <1>4, <1>6, <1>7, <1>8 DEF IInv

LEMMA FaultTyped ==
  ASSUME TypeOK, Fault
  PROVE  faults' \in 0..MaxFaults
BY IngestAssumption DEF TypeOK, Fault

LEMMA SendStep ==
  ASSUME IInv, NEW a \in Hosts, NEW h \in Handlers, Send(a, h)
  PROVE  IInv'
<1>1. /\ UNCHANGED <<ledger, catalog, software, tx, head, faults>>
      /\ pc[h] = "idle"
      /\ awaiting[a] = NoHandler
      /\ head[a] \in DOMAIN Payloads[a]
  BY DEF Send, dbVars
<1>2. /\ \A g \in Handlers : pc'[g] = IF g = h THEN "check" ELSE pc[g]
      /\ \A g \in Handlers : job'[g] = IF g = h THEN <<a, head[a]>> ELSE job[g]
      /\ \A b \in Hosts : awaiting'[b] = IF b = a THEN h ELSE awaiting[b]
  BY DEF Send, IInv, TypeOK
<1>3. TypeOK'
  <2>1. pc' \in [Handlers -> HandlerStages]
    BY DEF Send, IInv, TypeOK, HandlerStages
  <2>2. /\ job' \in [Handlers -> (Hosts \X Nat) \cup {NoJob}]
        /\ awaiting' \in [Hosts -> Handlers \cup {NoHandler}]
    BY DEF Send, IInv, TypeOK
  <2>3. InTx' \subseteq InTx
    BY <1>2 DEF InTx, Recorded, Recording
  <2>4. Cardinality(InTx') <= PoolSize
    BY <2>3, PoolKept DEF IInv
  <2>5. QED BY <1>1, <2>1, <2>2, <2>4 DEF IInv, TypeOK, HandlerStages
<1>4. Serving'
  <2>1. head[a] \in Nat
    BY DEF IInv, TypeOK
  <2>2. ASSUME NEW g \in Handlers, pc'[g] # "idle"
        PROVE  /\ job'[g] \in Hosts \X Nat
               /\ job'[g][2] \in DOMAIN Payloads[job'[g][1]]
               /\ job'[g][2] <= head'[job'[g][1]]
    <3>1. CASE g = h
      BY <3>1, <1>1, <1>2, <2>1
    <3>2. CASE g # h
      BY <3>2, <2>2, <1>1, <1>2 DEF IInv, Serving
    <3>3. QED BY <3>1, <3>2
  <2>3. ASSUME NEW b \in Hosts, awaiting'[b] # NoHandler
        PROVE  pc'[awaiting'[b]] # "idle" /\ job'[awaiting'[b]] = <<b, head'[b]>>
    <3>1. CASE b = a
      BY <3>1, <1>1, <1>2
    <3>2. CASE b # a
      <4>1. /\ awaiting'[b] = awaiting[b]
            /\ awaiting[b] \in Handlers
            /\ pc[awaiting[b]] # "idle"
            /\ job[awaiting[b]] = <<b, head[b]>>
        BY <3>2, <2>3, <1>2 DEF IInv, Serving, TypeOK
      <4>2. QED BY <4>1, <1>1, <1>2
    <3>3. QED BY <3>1, <3>2
  <2>4. QED BY <2>2, <2>3 DEF Serving
<1>5. \A g \in Handlers : Recorded(g)' => Recorded(g) /\ job'[g] = job[g]
  BY <1>1, <1>2 DEF Recorded, Recording
<1>6. Unpublished' /\ SingleWriter'
  BY <1>1, <1>5 DEF IInv, Unpublished, SingleWriter
<1>7. Applying'
  <2>1. ASSUME NEW g \in Handlers, pc'[g] = "apply"
        PROVE  pc[g] = "apply" /\ PayloadOf(g)' = PayloadOf(g)
    BY <2>1, <1>1, <1>2 DEF PayloadOf
  <2>2. \A g \in Handlers : pc'[g] \notin {"apply", "reconcile", "commit"} =>
                            pc[g] \notin {"apply", "reconcile", "commit"}
    BY <1>1, <1>2
  <2>3. QED BY <1>1, <2>1, <2>2 DEF IInv, Applying
<1>8. AcceptedIsIngested'
  BY <1>1 DEF IInv, AcceptedIsIngested
<1>9. QED BY <1>1, <1>3, <1>4, <1>6, <1>7, <1>8, TablesKept DEF IInv

LEMMA TimeOutStep ==
  ASSUME IInv, NEW a \in Hosts, TimeOut(a)
  PROVE  IInv'
<1>1. UNCHANGED <<ledger, catalog, software, pc, job, tx, head>>
  BY DEF TimeOut, dbVars
<1>2. \A b \in Hosts : awaiting'[b] = IF b = a THEN NoHandler ELSE awaiting[b]
  BY DEF TimeOut, IInv, TypeOK
<1>3. InTx' = InTx
  BY <1>1 DEF InTx, Recorded
<1>4. TypeOK'
  <2>1. awaiting' \in [Hosts -> Handlers \cup {NoHandler}]
    BY DEF TimeOut, IInv, TypeOK
  <2>2. faults' \in 0..MaxFaults
    BY FaultTyped DEF TimeOut, IInv
  <2>3. QED BY <1>1, <1>3, <2>1, <2>2 DEF IInv, TypeOK
<1>5. Serving'
  BY <1>1, <1>2 DEF IInv, Serving
<1>6. Unpublished' /\ SingleWriter' /\ AcceptedIsIngested'
  BY <1>1 DEF IInv, Unpublished, SingleWriter, AcceptedIsIngested, Recorded
<1>7. Applying'
  BY <1>1 DEF IInv, Applying, PayloadOf
<1>8. QED BY <1>1, <1>4, <1>5, <1>6, <1>7, TablesKept DEF IInv

\* A handler goes on and changes nothing but where it is.
LEMMA StageStep ==
  ASSUME IInv, NEW h \in Handlers, NEW s \in HandlerStages \ {"idle"},
         pc[h] # "idle", Goto(h, s),
         UNCHANGED <<dbVars, agentVars, job, tx, faults>>,
         Cardinality(InTx') <= PoolSize,
         SingleWriter', Unpublished', Applying'
  PROVE  IInv'
<1>1. UNCHANGED <<ledger, catalog, software, head, awaiting, job, tx, faults>>
  BY DEF dbVars, agentVars
<1>2. /\ pc' \in [Handlers -> HandlerStages]
      /\ \A g \in Handlers : pc'[g] = IF g = h THEN s ELSE pc[g]
  BY DEF Goto, IInv, TypeOK, HandlerStages
<1>3. TypeOK'
  BY <1>1, <1>2 DEF IInv, TypeOK, HandlerStages
<1>4. Serving'
  BY <1>1, <1>2, ServingKept DEF IInv, agentVars
<1>5. AcceptedIsIngested'
  BY <1>1 DEF IInv, AcceptedIsIngested
<1>6. QED BY <1>1, <1>3, <1>4, <1>5, TablesKept DEF IInv

LEMMA CheckSeenStep ==
  ASSUME IInv, NEW h \in Handlers, CheckSeen(h)
  PROVE  IInv'
<1>1. pc[h] = "check" /\ UNCHANGED dbVars /\ UNCHANGED faults
  BY DEF CheckSeen
<1>2. CASE job[h] \in ledger
  <2>1. Answer(h, 200) /\ faults' \in 0..MaxFaults
    BY <1>1, <1>2 DEF CheckSeen, IInv, TypeOK
  <2>2. QED BY <1>1, <1>2, <2>1, RollbackStep
<1>3. CASE job[h] \notin ledger
  <2>1. Goto(h, "begin") /\ UNCHANGED <<agentVars, job, tx>>
    BY <1>3 DEF CheckSeen
  <2>2. UNCHANGED <<ledger, job, tx>>
    BY <1>1, <2>1 DEF dbVars
  <2>3. \A g \in Handlers : pc'[g] = IF g = h THEN "begin" ELSE pc[g]
    BY <2>1 DEF Goto, IInv, TypeOK
  <2>4. \A g \in Handlers : Recorded(g)' <=> Recorded(g)
    BY <1>1, <2>3 DEF Recorded, Recording
  <2>5. SingleWriter' /\ Unpublished'
    BY <2>2, <2>4 DEF IInv, SingleWriter, Unpublished
  <2>6. Applying'
    BY <1>1, <2>2, <2>3 DEF IInv, Applying, PayloadOf
  <2>7. "begin" \in HandlerStages /\ "begin" \notin {"record"} \cup Recording
    BY DEF HandlerStages, Recording
  <2>8. Cardinality(InTx') <= PoolSize
    BY <2>1, <2>7, GotoTyped DEF IInv
  <2>9. QED BY <1>1, <2>1, <2>5, <2>6, <2>7, <2>8, StageStep
<1>4. QED BY <1>2, <1>3

LEMMA BeginStep ==
  ASSUME IInv, NEW h \in Handlers, Begin(h)
  PROVE  IInv'
<1>1. /\ pc[h] = "begin" /\ ConnectionFree
      /\ Goto(h, "record")
      /\ UNCHANGED <<dbVars, agentVars, job, tx, faults>>
  BY DEF Begin
<1>2. UNCHANGED <<ledger, job, tx>>
  BY <1>1 DEF dbVars
<1>3. \A g \in Handlers : pc'[g] = IF g = h THEN "record" ELSE pc[g]
  BY <1>1 DEF Goto, IInv, TypeOK
<1>4. \A g \in Handlers : Recorded(g)' <=> Recorded(g)
  BY <1>1, <1>3 DEF Recorded, Recording
<1>5. SingleWriter' /\ Unpublished'
  BY <1>2, <1>4 DEF IInv, SingleWriter, Unpublished
<1>6. Applying'
  BY <1>1, <1>2, <1>3 DEF IInv, Applying, PayloadOf
<1>7. Cardinality(InTx') <= PoolSize
  <2>1. InTx' = InTx \cup {h}
    BY <1>3, <1>4 DEF InTx
  <2>2. IsFiniteSet(InTx)
    BY FS_Subset, IngestAssumption DEF InTx
  <2>3. Cardinality(InTx') <= Cardinality(InTx) + 1
    BY <2>1, <2>2, FS_AddElement, FS_CardinalityType
  <2>4. Cardinality(InTx) \in Nat /\ Cardinality(InTx') \in Nat
    BY <2>1, <2>2, FS_AddElement, FS_CardinalityType
  <2>5. QED BY <1>1, <2>3, <2>4, IngestAssumption DEF ConnectionFree
<1>8. "record" \in HandlerStages \ {"idle"}
  BY DEF HandlerStages
<1>9. QED BY <1>1, <1>5, <1>6, <1>7, <1>8, StageStep

LEMMA RecordBatchStep ==
  ASSUME IInv, NEW h \in Handlers, RecordBatch(h)
  PROVE  IInv'
<1>1. /\ pc[h] = "record" /\ ~BatchHeld(h) /\ job[h] \notin ledger
      /\ Goto(h, "host")
      /\ UNCHANGED <<dbVars, agentVars, job, tx, faults>>
  BY DEF RecordBatch
<1>2. UNCHANGED <<ledger, job, tx>>
  BY <1>1 DEF dbVars
<1>3. \A g \in Handlers : pc'[g] = IF g = h THEN "host" ELSE pc[g]
  BY <1>1 DEF Goto, IInv, TypeOK
<1>4. \A g \in Handlers : Recorded(g)' <=> Recorded(g) \/ g = h
  BY <1>1, <1>3 DEF Recorded, Recording
<1>5. Unpublished'
  BY <1>1, <1>2, <1>4 DEF IInv, Unpublished
\* An uncommitted batch is the one at the head of its spool.
<1>6. ASSUME NEW g \in Handlers, pc[g] # "idle", job[g] \notin ledger
      PROVE  job[g] = <<job[g][1], head[job[g][1]]>>
  <2>1. /\ job[g] \in Hosts \X Nat
        /\ job[g][2] \in DOMAIN Payloads[job[g][1]]
        /\ job[g][2] <= head[job[g][1]]
    BY <1>6 DEF IInv, Serving
  <2>2. head[job[g][1]] \in Nat /\ job[g][1] \in Hosts
    BY <2>1 DEF IInv, TypeOK
  <2>3. Payloads[job[g][1]] \in Seq(Payload)
    BY <2>2, IngestAssumption
  <2>4. job[g][2] \in Nat /\ job[g][2] >= 1
    BY <2>1, <2>3
  <2>5. job[g] = <<job[g][1], job[g][2]>>
    BY <2>1
  <2>6. job[g][2] \notin 1..(head[job[g][1]] - 1)
    BY <1>6, <2>2, <2>5 DEF IInv, AcceptedIsIngested
  <2>7. job[g][2] = head[job[g][1]]
    BY <2>1, <2>2, <2>4, <2>6
  <2>8. QED BY <2>5, <2>7
<1>7. SingleWriter'
  <2>1. ASSUME NEW g \in Handlers, Recorded(g), job[g][1] = job[h][1]
        PROVE  g = h
    <3>1. pc[g] # "idle" /\ job[g] \notin ledger
      BY <2>1 DEF IInv, Unpublished, Recorded, Recording
    <3>2. job[g] = job[h]
      BY <1>1, <1>6, <2>1, <3>1
    <3>3. QED BY <1>1, <2>1, <3>2 DEF BatchHeld
  <2>2. QED BY <1>2, <1>4, <2>1 DEF IInv, SingleWriter
<1>8. Applying'
  BY <1>1, <1>2, <1>3 DEF IInv, Applying, PayloadOf
<1>9. "host" \in HandlerStages \ {"idle"} /\ h \in InTx
  BY <1>1 DEF HandlerStages, Recording, InTx
<1>10. Cardinality(InTx') <= PoolSize
  BY <1>1, <1>9, GotoTyped DEF IInv
<1>11. QED BY <1>1, <1>5, <1>7, <1>8, <1>9, <1>10, StageStep

\* The batch a handler serves, and the stage after some of its deltas.
LEMMA PayloadTyped ==
  ASSUME IInv, NEW h \in Handlers, pc[h] # "idle"
  PROVE  /\ job[h][1] \in Hosts
         /\ PayloadOf(h) \in Payload
         /\ Len(PayloadOf(h).deltas) \in Nat
         /\ \A done \in Nat : Stage(h, done) \in {"apply", "reconcile", "commit"}
<1>1. job[h] \in Hosts \X Nat /\ job[h][2] \in DOMAIN Payloads[job[h][1]]
  BY DEF IInv, Serving
<1>2. job[h][1] \in Hosts
  BY <1>1
<1>3. Payloads[job[h][1]] \in Seq(Payload)
  BY <1>2, IngestAssumption
<1>4. PayloadOf(h) \in Payload
  BY <1>1, <1>3 DEF PayloadOf
<1>5. PayloadOf(h).deltas \in Seq(Delta)
  BY <1>4 DEF Payload
<1>6. QED BY <1>2, <1>4, <1>5 DEF Stage

LEMMA FetchHostStep ==
  ASSUME IInv, NEW h \in Handlers, FetchHost(h)
  PROVE  IInv'
<1> DEFINE s == Stage(h, 0)
<1>1. /\ pc[h] = "host" /\ Goto(h, s)
      /\ UNCHANGED <<dbVars, agentVars, job, tx, faults>>
  BY DEF FetchHost
<1>2. UNCHANGED <<ledger, job, tx>>
  BY <1>1 DEF dbVars
<1>3. s \in {"apply", "reconcile", "commit"}
  BY <1>1, PayloadTyped
<1>4. \A g \in Handlers : pc'[g] = IF g = h THEN s ELSE pc[g]
  BY <1>1 DEF Goto, IInv, TypeOK
<1>5. \A g \in Handlers : Recorded(g)' <=> Recorded(g)
  BY <1>1, <1>3, <1>4 DEF Recorded, Recording
<1>6. SingleWriter' /\ Unpublished'
  BY <1>2, <1>5 DEF IInv, SingleWriter, Unpublished
<1>7. Applying'
  <2>1. tx[h] = Fresh
    BY <1>1 DEF IInv, Applying
  <2>2. s = "apply" => tx[h].done < Len(PayloadOf(h).deltas)
    BY <2>1 DEF Stage, Fresh
  <2>3. QED BY <1>2, <1>3, <1>4, <2>2 DEF IInv, Applying, PayloadOf
<1>8. s \in HandlerStages \ {"idle"} /\ h \in InTx
  BY <1>1, <1>3 DEF HandlerStages, Recording, InTx, Recorded
<1>9. Cardinality(InTx') <= PoolSize
  BY <1>1, <1>8, GotoTyped DEF IInv
<1>10. QED BY <1>1, <1>6, <1>7, <1>8, <1>9, StageStep

-----------------------------------------------------------------------------
(* The steps that write. *)

\* upsertCatalog writes the row of its key that the transaction sees.
LEMMA UpsertEffect ==
  ASSUME IInv, NEW h \in Handlers, NEW d \in Delta
  PROVE  LET e == UpsertCatalog(h, d)
             k == CatalogOf[d.item]
         IN /\ e \in Entry /\ e.key = k /\ e.id[1] = k
            /\ \A c \in catalog \cup tx[h].entries : c.key = k => c.id = e.id
<1> DEFINE k == CatalogOf[d.item]
           present == {c \in CatalogSeen(h) : c.key = k}
           e == UpsertCatalog(h, d)
<1>1. d.item \in Items /\ d.attr \in Attrs /\ k \in Keys
  BY DEF Delta, Keys
<1>2. SourceOf[d.item] \in Sources /\ SignedIn[d.attr] \in BOOLEAN
  BY <1>1, InventoryAssumption, IngestAssumption
<1>3. tx[h].entries \subseteq Entry /\ catalog \subseteq Entry
  BY DEF IInv, TypeOK, Tx
<1>4. CatalogSeen(h) \subseteq catalog \cup tx[h].entries
  BY DEF CatalogSeen
<1>5. CASE present # {}
  <2> DEFINE p == CHOOSE c \in present : TRUE
  <2>1. p \in present
    BY <1>5
  <2>2. p \in catalog \cup tx[h].entries /\ p.key = k /\ p \in Entry
    BY <2>1, <1>3, <1>4
  <2>3. e = [p EXCEPT !.source = SourceOf[d.item]]
    BY <1>5 DEF UpsertCatalog
  <2>4. e \in Entry /\ e.key = k /\ e.id = p.id
    BY <2>2, <2>3, <1>2 DEF Entry
  <2>5. p.id[1] = k
    BY <2>2 DEF IInv, IdsNameKeys
  <2>6. \A c \in catalog \cup tx[h].entries : c.key = k => c.id = p.id
    BY <2>2 DEF IInv, EntriesFit, Deduped
  <2>7. QED BY <2>4, <2>5, <2>6
<1>6. CASE present = {}
  <2>1. e = [id |-> <<k, h>>, key |-> k, item |-> d.item,
             signed |-> SignedIn[d.attr], source |-> SourceOf[d.item]]
    BY <1>6 DEF UpsertCatalog
  <2>2. e \in Entry /\ e.key = k /\ e.id[1] = k
    BY <2>1, <1>1, <1>2 DEF Entry, Ids
  <2>3. ASSUME NEW c \in catalog \cup tx[h].entries, c.key = k
        PROVE  FALSE
    <3>1. c \notin CatalogSeen(h)
      BY <1>6, <2>3
    <3>2. c \in catalog /\ \E f \in tx[h].entries : f.id = c.id
      BY <3>1 DEF CatalogSeen
    <3>3. PICK f \in tx[h].entries : f.id = c.id
      BY <3>2
    <3>4. f.key = k
      BY <3>2, <3>3, <2>3 DEF IInv, IdsNameKeys
    <3>5. f \in CatalogSeen(h)
      BY DEF CatalogSeen
    <3>6. QED BY <3>4, <3>5, <1>6
  <2>4. QED BY <2>2, <2>3
<1>7. QED BY <1>5, <1>6

\* A transaction writes one catalog row, of a key that no other one has written.
LEMMA WriteFits ==
  ASSUME IInv, NEW h \in Handlers, NEW e \in Entry, NEW row, row.id = e.id,
         catalog' = catalog, e.id[1] = e.key,
         \A c \in catalog \cup tx[h].entries : c.key = e.key => c.id = e.id,
         tx'[h].entries = {c \in tx[h].entries : c.key # e.key} \cup {e},
         tx'[h].put \subseteq tx[h].put \cup {row},
         \A g \in Handlers : g # h => tx'[g] = tx[g],
         \A g \in Handlers : g # h => \A c \in tx[g].entries : c.key # e.key
  PROVE  Exclusive' /\ IdsNameKeys' /\ EntriesFit'
<1>1. Exclusive /\ IdsNameKeys /\ EntriesFit
  BY DEF IInv
<1>2. /\ e \in tx'[h].entries
      /\ \A c \in tx'[h].entries : c = e \/ (c \in tx[h].entries /\ c.key # e.key)
      /\ \A c \in tx[h].entries : c.key # e.key => c \in tx'[h].entries
  OBVIOUS
<1>3. Exclusive'
  <2>1. ASSUME NEW g \in Handlers, g # h, NEW c \in tx'[h].entries,
               NEW d \in tx'[g].entries
        PROVE  c.key # d.key
    <3>1. d \in tx[g].entries /\ d.key # e.key
      BY <2>1
    <3>2. CASE c = e
      BY <3>1, <3>2
    <3>3. CASE c \in tx[h].entries
      BY <3>1, <3>3, <2>1, <1>1 DEF Exclusive
    <3>4. QED BY <3>2, <3>3, <1>2
  <2>2. ASSUME NEW f \in Handlers, NEW g \in Handlers, f # g,
               NEW b \in tx'[f].entries, NEW c \in tx'[g].entries
        PROVE  b.key # c.key
    <3>1. CASE f = h
      BY <3>1, <2>1, <2>2
    <3>2. CASE g = h
      BY <3>2, <2>1, <2>2
    <3>3. CASE f # h /\ g # h
      BY <3>3, <2>2, <1>1 DEF Exclusive
    <3>4. QED BY <3>1, <3>2, <3>3
  <2>3. QED BY <2>2 DEF Exclusive
<1>4. IdsNameKeys'
  <2>1. ASSUME NEW g \in Handlers, NEW c \in tx'[g].entries
        PROVE  c.id[1] = c.key
    <3>1. CASE g = h
      BY <3>1, <2>1, <1>1, <1>2 DEF IdsNameKeys
    <3>2. CASE g # h
      BY <3>2, <2>1, <1>1 DEF IdsNameKeys
    <3>3. QED BY <3>1, <3>2
  <2>2. QED BY <2>1, <1>1 DEF IdsNameKeys
<1>5. EntriesFit'
  <2>1. ASSUME NEW g \in Handlers, g # h
        PROVE  /\ \A c \in tx'[g].entries, b \in catalog' : c.key = b.key => c.id = b.id
               /\ \A c, b \in tx'[g].entries : c.key = b.key => c = b
               /\ \A r \in tx'[g].put : \E c \in tx'[g].entries : c.id = r.id
    <3>1. tx'[g] = tx[g]
      BY <2>1
    <3>2. QED BY <3>1, <1>1 DEF EntriesFit
  <2>2. ASSUME NEW c \in tx'[h].entries, NEW b \in catalog', c.key = b.key
        PROVE  c.id = b.id
    <3>1. CASE c = e
      BY <3>1, <2>2
    <3>2. CASE c \in tx[h].entries
      BY <3>2, <2>2, <1>1 DEF EntriesFit
    <3>3. QED BY <3>1, <3>2, <1>2
  <2>3. ASSUME NEW c \in tx'[h].entries, NEW b \in tx'[h].entries, c.key = b.key
        PROVE  c = b
    BY <2>3, <1>1, <1>2 DEF EntriesFit
  <2>4. ASSUME NEW r \in tx'[h].put
        PROVE  \E c \in tx'[h].entries : c.id = r.id
    <3>1. CASE r \in tx[h].put
      <4>1. PICK c \in tx[h].entries : c.id = r.id
        BY <3>1, <1>1 DEF EntriesFit
      <4>2. CASE c.key = e.key
        BY <4>1, <4>2, <1>2
      <4>3. CASE c.key # e.key
        BY <4>1, <4>3, <1>2
      <4>4. QED BY <4>2, <4>3
    <3>2. CASE r = row
      BY <3>2, <1>2
    <3>3. QED BY <3>1, <3>2, <2>4
  <2>5. QED BY <2>1, <2>2, <2>3, <2>4 DEF EntriesFit
<1>6. QED BY <1>3, <1>4, <1>5

LEMMA ApplyDeltaStep ==
  ASSUME IInv, NEW h \in Handlers, ApplyDelta(h)
  PROVE  IInv'
<1> DEFINE d == NextDelta(h)
           e == UpsertCatalog(h, d)
           pk == <<e.id, SourceOf[d.item]>>
           row == [host |-> job[h][1], id |-> e.id, source |-> SourceOf[d.item],
                   attr |-> d.attr]
           upsert == d.op = "upsert"
           new == [done    |-> tx[h].done + 1,
                   entries |-> {c \in tx[h].entries : c.key # e.key} \cup {e},
                   put     |-> {r \in tx[h].put : Pk(r) # pk} \cup
                               IF upsert THEN {row} ELSE {},
                   touched |-> tx[h].touched \cup {pk},
                   seen    |-> tx[h].seen \cup IF upsert THEN {pk} ELSE {}]
           s == Stage(h, tx[h].done + 1)
<1>1. /\ pc[h] = "apply" /\ ~KeyHeld(h, NextKey(h)) /\ Goto(h, s)
      /\ UNCHANGED <<ledger, catalog, software, head, awaiting, job, faults>>
  BY DEF ApplyDelta, dbVars, agentVars
<1>2. tx' = [tx EXCEPT ![h] = new]
  BY DEF ApplyDelta
<1>3. tx[h] \in Tx /\ tx[h].done \in Nat
  BY DEF IInv, TypeOK, Tx
<1>4. d \in Delta /\ job[h][1] \in Hosts
  <2>1. PayloadOf(h) \in Payload /\ job[h][1] \in Hosts
    BY <1>1, PayloadTyped
  <2>2. tx[h].done < Len(PayloadOf(h).deltas) /\ PayloadOf(h).deltas \in Seq(Delta)
    BY <1>1, <2>1 DEF IInv, Applying, Payload
  <2>3. tx[h].done + 1 \in 1..Len(PayloadOf(h).deltas)
    BY <2>2, <1>3
  <2>4. QED BY <2>1, <2>2, <2>3 DEF NextDelta
<1>5. /\ e \in Entry /\ e.key = NextKey(h) /\ e.id[1] = e.key
      /\ \A c \in catalog \cup tx[h].entries : c.key = e.key => c.id = e.id
  BY <1>4, UpsertEffect DEF NextKey
<1>6. \A g \in Handlers : tx'[g] = IF g = h THEN new ELSE tx[g]
  BY <1>2 DEF IInv, TypeOK
<1>7. /\ s \in {"apply", "reconcile", "commit"}
      /\ \A g \in Handlers : pc'[g] = IF g = h THEN s ELSE pc[g]
  BY <1>1, <1>3, PayloadTyped DEF Goto, IInv, TypeOK
<1>8. TypeOK'
  <2>1. new \in Tx
    <3>1. SourceOf[d.item] \in Sources /\ e.id \in Ids /\ d.attr \in Attrs
      BY <1>4, <1>5, InventoryAssumption DEF Delta, Entry
    <3>2. pk \in Ids \X Sources
      BY <3>1
    <3>3. row \in Row
      BY <3>1, <1>4 DEF Row, AttrOrNone
    <3>4. {c \in tx[h].entries : c.key # e.key} \cup {e} \in SUBSET Entry
      BY <1>3, <1>5 DEF Tx
    <3>5. {r \in tx[h].put : Pk(r) # pk} \cup (IF upsert THEN {row} ELSE {})
            \in SUBSET Row
      BY <1>3, <3>3 DEF Tx
    <3>6. /\ tx[h].touched \cup {pk} \in SUBSET (Ids \X Sources)
          /\ tx[h].seen \cup (IF upsert THEN {pk} ELSE {}) \in SUBSET (Ids \X Sources)
      BY <1>3, <3>2 DEF Tx
    <3>7. QED BY <1>3, <3>4, <3>5, <3>6 DEF Tx
  <2>2. tx' \in [Handlers -> Tx]
    BY <1>2, <2>1 DEF IInv, TypeOK
  <2>3. s \in HandlerStages /\ h \in InTx
    BY <1>1, <1>7 DEF HandlerStages, Recording, InTx, Recorded
  <2>4. pc' \in [Handlers -> HandlerStages] /\ Cardinality(InTx') <= PoolSize
    BY <1>1, <2>3, GotoTyped DEF IInv
  <2>5. QED BY <1>1, <2>2, <2>4 DEF IInv, TypeOK, HandlerStages
<1>9. \A g \in Handlers : Recorded(g)' <=> Recorded(g)
  BY <1>1, <1>7 DEF Recorded, Recording
<1>10. SingleWriter' /\ Unpublished' /\ AcceptedIsIngested'
  BY <1>1, <1>9 DEF IInv, SingleWriter, Unpublished, AcceptedIsIngested
<1>11. Serving'
  BY <1>1, <1>7, ServingKept DEF IInv, agentVars
<1>12. Applying'
  <2>1. s = "apply" => new.done < Len(PayloadOf(h).deltas)
    BY DEF Stage
  <2>2. QED BY <1>1, <1>6, <1>7, <2>1 DEF IInv, Applying, PayloadOf
<1>13. /\ tx'[h].entries = {c \in tx[h].entries : c.key # e.key} \cup {e}
       /\ tx'[h].put \subseteq tx[h].put \cup {row}
       /\ row.id = e.id
       /\ \A g \in Handlers : g # h => tx'[g] = tx[g]
  <2>1. tx'[h] = new /\ \A g \in Handlers : g # h => tx'[g] = tx[g]
    <3> HIDE DEF new
    <3>1. QED BY <1>6
  <2>2. new.entries = {c \in tx[h].entries : c.key # e.key} \cup {e}
    <3> HIDE DEF e
    <3>1. QED OBVIOUS
  <2>3. new.put = {r \in tx[h].put : Pk(r) # pk} \cup IF upsert THEN {row} ELSE {}
    <3> HIDE DEF pk, row, upsert
    <3>1. QED OBVIOUS
  <2>4. row.id = e.id
    OBVIOUS
  <2>5. {r \in tx[h].put : Pk(r) # pk} \cup (IF upsert THEN {row} ELSE {})
          \subseteq tx[h].put \cup {row}
    <3> HIDE DEF pk, row, upsert
    <3>1. QED OBVIOUS
  <2> HIDE DEF new, e, pk, row, upsert
  <2>6. QED BY <2>1, <2>2, <2>3, <2>4, <2>5
<1>14. \A g \in Handlers : g # h => \A c \in tx[g].entries : c.key # e.key
  BY <1>1, <1>5 DEF KeyHeld
<1>15. Exclusive' /\ IdsNameKeys' /\ EntriesFit'
  <2> HIDE DEF e, row
  <2>1. QED BY <1>1, <1>5, <1>13, <1>14, WriteFits
<1>16. Deduped' /\ Referenced'
  BY <1>1 DEF IInv, Deduped, Referenced
<1>17. QED BY <1>8, <1>10, <1>11, <1>12, <1>13, <1>14, <1>15, <1>16 DEF IInv

LEMMA ReconcileStep ==
  ASSUME IInv, NEW h \in Handlers, Reconcile(h)
  PROVE  IInv'
<1> DEFINE sources == {pk[2] : pk \in tx[h].seen}
           gone == {r \in SoftwareSeen(h) : /\ r.host = job[h][1]
                                            /\ r.source \in sources
                                            /\ Pk(r) \notin tx[h].seen}
           touched == tx[h].touched \cup {Pk(r) : r \in gone}
           put == tx[h].put \ gone
<1>1. /\ pc[h] = "reconcile" /\ Goto(h, "commit")
      /\ UNCHANGED <<ledger, catalog, software, head, awaiting, job, faults>>
  BY DEF Reconcile, dbVars, agentVars
<1>2. tx' = [tx EXCEPT ![h].touched = touched, ![h].put = put]
  BY DEF Reconcile
<1>3. gone \subseteq Row /\ \A r \in gone : Pk(r) \in Ids \X Sources
  <2>1. software \subseteq Row /\ tx[h].put \subseteq Row
    BY DEF IInv, TypeOK, Tx
  <2>2. gone \subseteq Row
    BY <2>1 DEF SoftwareSeen
  <2>3. QED BY <2>2 DEF Row, Pk
<1> HIDE DEF gone, sources
<1>4. /\ tx' \in [Handlers -> Tx]
      /\ tx'[h].entries = tx[h].entries
      /\ tx'[h].put \subseteq tx[h].put
      /\ \A g \in Handlers : g # h => tx'[g] = tx[g]
  <2>1. touched \in SUBSET (Ids \X Sources) /\ put \in SUBSET Row
    BY <1>3 DEF IInv, TypeOK, Tx
  <2> HIDE DEF touched, put
  <2>2. [tx[h] EXCEPT !.touched = touched, !.put = put] \in Tx
    <3>1. tx[h] \in Tx
      BY DEF IInv, TypeOK
    <3>2. [tx[h] EXCEPT !.touched = touched] \in Tx
      BY <2>1, <3>1 DEF Tx
    <3>3. QED BY <2>1, <3>1, <3>2 DEF Tx
  <2>3. tx' = [tx EXCEPT ![h] = [tx[h] EXCEPT !.touched = touched, !.put = put]]
    BY <1>2 DEF IInv, TypeOK
  <2>4. tx' \in [Handlers -> Tx]
    BY <2>2, <2>3 DEF IInv, TypeOK
  <2>5. /\ tx'[h] = [tx[h] EXCEPT !.touched = touched, !.put = put]
        /\ \A g \in Handlers : g # h => tx'[g] = tx[g]
    BY <2>3 DEF IInv, TypeOK
  <2>6. tx'[h].entries = tx[h].entries /\ tx'[h].put = put
    BY <2>5 DEF IInv, TypeOK, Tx
  <2>7. put \subseteq tx[h].put
    BY DEF put
  <2>8. QED BY <2>4, <2>5, <2>6, <2>7
<1>5. \A g \in Handlers : pc'[g] = IF g = h THEN "commit" ELSE pc[g]
  BY <1>1 DEF Goto, IInv, TypeOK
<1>6. TypeOK'
  <2>1. "commit" \in HandlerStages /\ h \in InTx
    BY <1>1 DEF HandlerStages, Recording, InTx, Recorded
  <2>2. pc' \in [Handlers -> HandlerStages] /\ Cardinality(InTx') <= PoolSize
    BY <1>1, <2>1, GotoTyped DEF IInv
  <2>3. QED BY <1>1, <1>4, <2>2 DEF IInv, TypeOK, HandlerStages
<1>7. \A g \in Handlers : Recorded(g)' <=> Recorded(g)
  BY <1>1, <1>5 DEF Recorded, Recording
<1>8. SingleWriter' /\ Unpublished' /\ AcceptedIsIngested'
  BY <1>1, <1>7 DEF IInv, SingleWriter, Unpublished, AcceptedIsIngested
<1>9. Serving'
  BY <1>1, <1>5, ServingKept DEF IInv, agentVars
<1>10. Applying'
  BY <1>1, <1>4, <1>5 DEF IInv, Applying, PayloadOf
<1>11. \A g \in Handlers : tx'[g].entries = tx[g].entries /\ tx'[g].put \subseteq tx[g].put
  BY <1>4
<1>12. Exclusive' /\ IdsNameKeys' /\ EntriesFit'
  <2>1. Exclusive /\ IdsNameKeys /\ EntriesFit
    BY DEF IInv
  <2>2. Exclusive'
    BY <1>11, <2>1 DEF Exclusive
  <2>3. IdsNameKeys'
    BY <1>1, <1>11, <2>1 DEF IdsNameKeys
  <2>4. EntriesFit'
    BY <1>1, <1>11, <2>1 DEF EntriesFit
  <2>5. QED BY <2>2, <2>3, <2>4
<1>13. Deduped' /\ Referenced'
  BY <1>1 DEF IInv, Deduped, Referenced
<1>14. QED BY <1>6, <1>8, <1>9, <1>10, <1>12, <1>13 DEF IInv

\* What a commit makes of the tables.
LEMMA CommitTables ==
  ASSUME IInv, NEW h \in Handlers, pc[h] = "commit",
         catalog' = CatalogSeen(h), software' = SoftwareSeen(h),
         \A g \in Handlers : tx'[g] = IF g = h THEN Fresh ELSE tx[g]
  PROVE  /\ catalog' \subseteq Entry /\ software' \subseteq Row
         /\ Exclusive' /\ IdsNameKeys' /\ EntriesFit' /\ Deduped' /\ Referenced'
<1>1. Exclusive /\ IdsNameKeys /\ EntriesFit /\ Deduped /\ Referenced
  BY DEF IInv
<1>2. /\ catalog' = {c \in catalog : c.id \notin {e.id : e \in tx[h].entries}}
                      \cup tx[h].entries
      /\ \A r \in software' : r \in software \/ r \in tx[h].put
  BY DEF CatalogSeen, SoftwareSeen
<1>3. Fresh.entries = {} /\ Fresh.put = {}
  BY DEF Fresh
<1>4. catalog' \subseteq Entry /\ software' \subseteq Row
  <2>1. catalog \subseteq Entry /\ software \subseteq Row /\ tx[h] \in Tx
    BY DEF IInv, TypeOK
  <2>2. tx[h].entries \subseteq Entry /\ tx[h].put \subseteq Row
    BY <2>1 DEF Tx
  <2>3. QED BY <2>1, <2>2, <1>2
<1>5. Exclusive'
  BY <1>1, <1>3 DEF Exclusive
<1>6. \A c \in catalog' : c \in catalog \/ c \in tx[h].entries
  BY <1>2
<1>7. IdsNameKeys'
  BY <1>1, <1>3, <1>6 DEF IdsNameKeys
<1>8. ASSUME NEW c \in catalog', NEW d \in catalog', c.key = d.key,
             d \in tx[h].entries
      PROVE  c = d
  <2>1. CASE c \in tx[h].entries
    BY <2>1, <1>8, <1>1 DEF EntriesFit
  <2>2. CASE c \notin tx[h].entries
    <3>1. c \in catalog /\ c.id \notin {e.id : e \in tx[h].entries}
      BY <2>2, <1>2
    <3>2. d.id = c.id
      BY <3>1, <1>8, <1>1 DEF EntriesFit
    <3>3. QED BY <3>1, <3>2, <1>8
  <2>3. QED BY <2>1, <2>2
<1>9. Deduped'
  <2>1. ASSUME NEW c \in catalog', NEW d \in catalog', c.key = d.key
        PROVE  c = d
    <3>1. CASE c \in tx[h].entries \/ d \in tx[h].entries
      BY <3>1, <2>1, <1>8
    <3>2. CASE c \in catalog /\ d \in catalog
      BY <3>2, <2>1, <1>1 DEF Deduped
    <3>3. QED BY <3>1, <3>2, <1>6
  <2>2. QED BY <2>1 DEF Deduped
<1>10. EntriesFit'
  <2>1. ASSUME NEW g \in Handlers
        PROVE  /\ \A c \in tx'[g].entries, b \in catalog' : c.key = b.key => c.id = b.id
               /\ \A c, b \in tx'[g].entries : c.key = b.key => c = b
               /\ \A r \in tx'[g].put : \E c \in tx'[g].entries : c.id = r.id
    <3>1. CASE g = h
      BY <3>1, <1>3
    <3>2. CASE g # h
      <4>1. tx'[g] = tx[g]
        BY <3>2
      <4>2. \A c \in tx[g].entries, b \in tx[h].entries : c.key # b.key
        BY <3>2, <1>1 DEF Exclusive
      <4>3. \A c \in tx'[g].entries, b \in catalog' : c.key = b.key => c.id = b.id
        BY <4>1, <4>2, <1>1, <1>6 DEF EntriesFit
      <4>4. QED BY <4>1, <4>3, <1>1 DEF EntriesFit
    <3>3. QED BY <3>1, <3>2
  <2>2. QED BY <2>1 DEF EntriesFit
<1>11. Referenced'
  <2>1. ASSUME NEW r \in software'
        PROVE  \E c \in catalog' : c.id = r.id
    <3>1. CASE r \in tx[h].put
      BY <3>1, <1>1, <1>2 DEF EntriesFit
    <3>2. CASE r \in software
      <4>1. PICK c \in catalog : c.id = r.id
        BY <3>2, <1>1 DEF Referenced
      <4>2. CASE c.id \in {e.id : e \in tx[h].entries}
        BY <4>1, <4>2, <1>2
      <4>3. CASE c.id \notin {e.id : e \in tx[h].entries}
        BY <4>1, <4>3, <1>2
      <4>4. QED BY <4>2, <4>3
    <3>3. QED BY <3>1, <3>2, <1>2
  <2>2. QED BY <2>1 DEF Referenced
<1>12. QED BY <1>4, <1>5, <1>7, <1>9, <1>10, <1>11

LEMMA CommitStep ==
  ASSUME IInv, NEW h \in Handlers, Commit(h)
  PROVE  IInv'
<1>1. /\ pc[h] = "commit" /\ ledger' = ledger \cup {job[h]}
      /\ catalog' = CatalogSeen(h) /\ software' = SoftwareSeen(h)
  BY DEF Commit
<1>2. /\ ledger \subseteq ledger' /\ job[h] \in ledger'
      /\ ledger' \subseteq Hosts \X Nat
  BY <1>1 DEF IInv, TypeOK, Serving
<1>3. PICK code \in {200, 500} : Answer(h, code)
  BY DEF Commit
<1>4. faults' \in 0..MaxFaults
  BY FaultTyped DEF Commit, IInv, TypeOK
<1>5. pc[h] # "idle"
  BY <1>1
<1>6. /\ \A g \in Handlers : pc'[g] = IF g = h THEN "idle" ELSE pc[g]
      /\ \A g \in Handlers : g # h => job'[g] = job[g] /\ tx'[g] = tx[g]
      /\ pc' \in [Handlers -> HandlerStages]
      /\ job' \in [Handlers -> (Hosts \X Nat) \cup {NoJob}]
      /\ tx' \in [Handlers -> Tx]
      /\ head' \in [Hosts -> Nat]
      /\ awaiting' \in [Hosts -> Handlers \cup {NoHandler}]
      /\ Cardinality(InTx') <= PoolSize
      /\ Serving' /\ AcceptedIsIngested' /\ Applying'
  BY <1>2, <1>3, <1>5, AnswerEffect
<1>7. \A g \in Handlers : tx'[g] = IF g = h THEN Fresh ELSE tx[g]
  BY <1>3 DEF Answer, IInv, TypeOK
<1>8. /\ catalog' \subseteq Entry /\ software' \subseteq Row
      /\ Exclusive' /\ IdsNameKeys' /\ EntriesFit' /\ Deduped' /\ Referenced'
  BY <1>1, <1>7, CommitTables
<1>9. TypeOK'
  BY <1>2, <1>4, <1>6, <1>8 DEF TypeOK, HandlerStages
<1>10. Recorded(h)
  BY <1>1 DEF Recorded, Recording
<1>11. \A g \in Handlers : Recorded(g)' => Recorded(g) /\ g # h /\ job'[g] = job[g]
  BY <1>6 DEF Recorded, Recording
<1>12. SingleWriter'
  BY <1>11 DEF IInv, SingleWriter
<1>13. Unpublished'
  <2>1. ASSUME NEW g \in Handlers, Recorded(g)'
        PROVE  job'[g] \notin ledger'
    <3>1. Recorded(g) /\ g # h /\ job'[g] = job[g]
      BY <2>1, <1>11
    <3>2. job[g] \notin ledger /\ job[g] # job[h]
      BY <3>1, <1>10 DEF IInv, Unpublished, SingleWriter
    <3>3. QED BY <3>1, <3>2, <1>1
  <2>2. QED BY <2>1 DEF Unpublished
<1>14. QED BY <1>6, <1>8, <1>9, <1>12, <1>13 DEF IInv

-----------------------------------------------------------------------------
(* The theorems. *)

LEMMA HandleStep ==
  ASSUME IInv, NEW h \in Handlers, Handle(h) \/ Fail(h)
  PROVE  IInv'
<1>1. CASE CheckSeen(h)
  BY <1>1, CheckSeenStep
<1>2. CASE Begin(h)
  BY <1>2, BeginStep
<1>3. CASE RecordBatch(h)
  BY <1>3, RecordBatchStep
<1>4. CASE RejectDuplicate(h)
  <2>1. /\ pc[h] # "idle" /\ Answer(h, 500) /\ UNCHANGED dbVars
        /\ faults' \in 0..MaxFaults
    BY <1>4 DEF RejectDuplicate, IInv, TypeOK
  <2>2. QED BY <2>1, RollbackStep
<1>5. CASE FetchHost(h)
  BY <1>5, FetchHostStep
<1>6. CASE ApplyDelta(h)
  BY <1>6, ApplyDeltaStep
<1>7. CASE Reconcile(h)
  BY <1>7, ReconcileStep
<1>8. CASE Commit(h)
  BY <1>8, CommitStep
<1>9. CASE BreakDeadlock(h)
  <2>1. PICK g \in Handlers : WaitsFor(h, g)
    BY <1>9 DEF BreakDeadlock
  <2>2. /\ pc[h] # "idle" /\ Answer(h, 500) /\ UNCHANGED dbVars
        /\ faults' \in 0..MaxFaults
    BY <1>9, <2>1 DEF BreakDeadlock, WaitsFor, IInv, TypeOK
  <2>3. QED BY <2>2, RollbackStep
<1>10. CASE Fail(h)
  <2>1. /\ pc[h] # "idle" /\ Answer(h, 500) /\ UNCHANGED dbVars
        /\ faults' \in 0..MaxFaults
    BY <1>10, FaultTyped DEF Fail, IInv
  <2>2. QED BY <2>1, RollbackStep
<1>11. QED
  BY <1>1, <1>2, <1>3, <1>4, <1>5, <1>6, <1>7, <1>8, <1>9, <1>10 DEF Handle

LEMMA StutterStep ==
  ASSUME IInv, UNCHANGED vars
  PROVE  IInv'
<1>1. /\ UNCHANGED <<ledger, catalog, software, pc, job, tx, head, awaiting, faults>>
      /\ UNCHANGED <<catalog, software, tx>>
      /\ UNCHANGED <<agentVars, job>>
  BY DEF vars, dbVars, agentVars
<1>2. InTx' = InTx /\ \A h \in Handlers : Recorded(h)' <=> Recorded(h)
  BY <1>1 DEF InTx, Recorded
<1>3. TypeOK'
  BY <1>1, <1>2 DEF IInv, TypeOK
<1>4. Serving'
  BY <1>1, ServingKept DEF IInv
<1>5. Unpublished' /\ SingleWriter' /\ AcceptedIsIngested' /\ Applying'
  BY <1>1, <1>2 DEF IInv, Unpublished, SingleWriter, AcceptedIsIngested, Applying,
                    PayloadOf
<1>6. Exclusive' /\ IdsNameKeys' /\ EntriesFit' /\ Deduped' /\ Referenced'
  BY <1>1, TablesKept
<1>7. QED BY <1>3, <1>4, <1>5, <1>6 DEF IInv

\* Every reachable state satisfies the inductive invariant, however the
\* handlers' statements interleave, fail and are rolled back.
THEOREM Invariance == Spec => []IInv
<1>1. ASSUME IInv, [Next]_vars PROVE IInv'
  <2>1. CASE \E a \in Hosts : TimeOut(a)
    BY <2>1, <1>1, TimeOutStep
  <2>2. CASE \E a \in Hosts : \E h \in Handlers : Send(a, h)
    BY <2>2, <1>1, SendStep
  <2>3. CASE \E h \in Handlers : Handle(h) \/ Fail(h)
    BY <2>3, <1>1, HandleStep
  <2>4. CASE UNCHANGED vars
    BY <2>4, <1>1, StutterStep
  <2>5. QED BY <2>1, <2>2, <2>3, <2>4, <1>1 DEF Next
<1>2. QED BY <1>1, InitIInv, PTL DEF Spec

\* The tables stay typed and the pool of connections is never overdrawn.
THEOREM TypeCorrect == Spec => []TypeOK
<1>1. IInv => TypeOK
  BY DEF IInv
<1>2. QED BY <1>1, Invariance, PTL

\* HandleIngest needs no lock per host: two transactions that have passed the
\* INSERT into ingest_batches are of different hosts.
THEOREM OneWriterPerHost == Spec => []SingleWriter
<1>1. IInv => SingleWriter
  BY DEF IInv
<1>2. QED BY <1>1, Invariance, PTL

\* What the agent takes off its spool is committed, whatever is answered twice,
\* too late, or after a rollback.
THEOREM AcceptedOnlyIngested == Spec => []AcceptedIsIngested
<1>1. IInv => AcceptedIsIngested
  BY DEF IInv
<1>2. QED BY <1>1, Invariance, PTL

\* One row of software_catalog per identity, though transactions insert the
\* same one at once and roll back.
THEOREM CatalogDeduped == Spec => []Deduped
<1>1. IInv => Deduped
  BY DEF IInv
<1>2. QED BY <1>1, Invariance, PTL

\* The join of host_software with software_catalog loses no row.
THEOREM NoDanglingRow == Spec => []Referenced
<1>1. IInv => Referenced
  BY DEF IInv
<1>2. QED BY <1>1, Invariance, PTL
-----------------------------------------------------------------------------
(* The catalog keeps what it was told first. *)

\* What a transaction writes under a committed key repeats its name and verdict.
Repeats(c, d) == c.key = d.key => c.item = d.item /\ c.signed = d.signed
EntriesRepeat ==
  \A h \in Handlers : \A c \in tx[h].entries, d \in catalog : Repeats(c, d)

\* upsertCatalog finds the committed row of its key: it sees it, or its
\* transaction has written it again.
LEMMA UpsertRepeats ==
  ASSUME IInv, EntriesRepeat, NEW h \in Handlers, NEW d \in Delta, NEW c \in catalog
  PROVE  Repeats(UpsertCatalog(h, d), c)
<1> DEFINE k == CatalogOf[d.item]
           present == {b \in CatalogSeen(h) : b.key = k}
           p == CHOOSE b \in present : TRUE
           e == UpsertCatalog(h, d)
<1>1. e.key = k
  BY UpsertEffect
<1>2. SUFFICES ASSUME c.key = k
               PROVE  c.item = e.item /\ c.signed = e.signed
  BY <1>1 DEF Repeats
<1>3. present # {}
  <2>1. CASE \E b \in tx[h].entries : b.id = c.id
    <3>1. PICK b \in tx[h].entries : b.id = c.id
      BY <2>1
    <3>2. b.key = k
      BY <1>2, <3>1 DEF IInv, IdsNameKeys
    <3>3. QED BY <3>2 DEF CatalogSeen
  <2>2. CASE ~\E b \in tx[h].entries : b.id = c.id
    BY <2>2, <1>2 DEF CatalogSeen
  <2>3. QED BY <2>1, <2>2
<1>4. p \in present
  BY <1>3
<1>5. p \in catalog \cup tx[h].entries /\ p.key = c.key
  BY <1>2, <1>4 DEF CatalogSeen
<1>6. p \in Entry
  BY <1>5 DEF IInv, TypeOK, Tx
<1>7. e = [p EXCEPT !.source = SourceOf[d.item]]
  BY <1>3 DEF UpsertCatalog
<1> HIDE DEF p, e
<1>8. e.item = p.item /\ e.signed = p.signed
  BY <1>6, <1>7 DEF Entry
<1>9. p.item = c.item /\ p.signed = c.signed
  <2>1. CASE p \in catalog
    BY <2>1, <1>5 DEF IInv, Deduped
  <2>2. CASE p \in tx[h].entries
    BY <2>2, <1>5 DEF EntriesRepeat, Repeats
  <2>3. QED BY <2>1, <2>2, <1>5
<1>10. QED BY <1>8, <1>9

\* A transaction that ends without a commit, or writes no catalog row.
LEMMA RepeatKept ==
  ASSUME EntriesRepeat, catalog' = catalog,
         \A g \in Handlers : tx'[g].entries \subseteq tx[g].entries
  PROVE  EntriesRepeat'
BY DEF EntriesRepeat, Repeats

LEMMA AnswerRepeats ==
  ASSUME IInv, NEW h \in Handlers, NEW code, Answer(h, code)
  PROVE  \A g \in Handlers : tx'[g].entries = IF g = h THEN {} ELSE tx[g].entries
BY DEF Answer, IInv, TypeOK, Fresh

\* What a commit does to the committed rows.
LEMMA CommitKeeps ==
  ASSUME IInv, EntriesRepeat, NEW h \in Handlers, Commit(h)
  PROVE  /\ EntriesRepeat'
         /\ \A c \in catalog : \E d \in catalog' :
              d.id = c.id /\ d.key = c.key /\ d.item = c.item /\ d.signed = c.signed
<1>1. catalog' = CatalogSeen(h)
  BY DEF Commit
<1>2. \A g \in Handlers : tx'[g].entries = IF g = h THEN {} ELSE tx[g].entries
  <2>1. \E code \in {200, 500} : Answer(h, code)
    BY DEF Commit
  <2>2. QED BY <2>1, AnswerRepeats
<1>3. EntriesRepeat'
  <2>1. SUFFICES ASSUME NEW g \in Handlers, NEW c \in tx'[g].entries, NEW d \in catalog'
                 PROVE  Repeats(c, d)
    BY DEF EntriesRepeat, Repeats
  <2>2. g # h /\ c \in tx[g].entries
    BY <1>2, <2>1
  <2>3. CASE d \in catalog
    BY <2>2, <2>3 DEF EntriesRepeat
  <2>4. CASE d \in tx[h].entries
    BY <2>2, <2>4 DEF IInv, Exclusive, Repeats
  <2>5. QED BY <1>1, <2>3, <2>4 DEF CatalogSeen
<1>4. ASSUME NEW c \in catalog
      PROVE  \E d \in catalog' :
               d.id = c.id /\ d.key = c.key /\ d.item = c.item /\ d.signed = c.signed
  <2>1. CASE \E e \in tx[h].entries : e.id = c.id
    <3>1. PICK e \in tx[h].entries : e.id = c.id
      BY <2>1
    <3>2. e.key = c.key
      BY <3>1 DEF IInv, IdsNameKeys
    <3>3. e.item = c.item /\ e.signed = c.signed
      BY <3>2 DEF EntriesRepeat, Repeats
    <3>4. QED BY <1>1, <3>1, <3>2, <3>3 DEF CatalogSeen
  <2>2. CASE ~\E e \in tx[h].entries : e.id = c.id
    BY <2>2, <1>1 DEF CatalogSeen
  <2>3. QED BY <2>1, <2>2
<1>5. QED BY <1>3, <1>4

\* Only a commit changes the catalog.
LEMMA KeepsStep ==
  ASSUME IInv, EntriesRepeat, [Next]_vars
  PROVE  /\ EntriesRepeat'
         /\ \A c \in catalog : \E d \in catalog' :
              d.id = c.id /\ d.key = c.key /\ d.item = c.item /\ d.signed = c.signed
<1>1. ASSUME catalog' = catalog,
             \A g \in Handlers : tx'[g].entries \subseteq tx[g].entries
      PROVE  EntriesRepeat' /\ catalog' = catalog
  BY <1>1, RepeatKept
<1>2. ASSUME NEW h \in Handlers, NEW code, Answer(h, code), catalog' = catalog
      PROVE  EntriesRepeat' /\ catalog' = catalog
  BY <1>2, <1>1, AnswerRepeats
<1>3. ASSUME NEW h \in Handlers, Handle(h) \/ Fail(h), ~Commit(h)
      PROVE  EntriesRepeat' /\ catalog' = catalog
  <2>1. CASE ApplyDelta(h)
    <3> DEFINE d == NextDelta(h)
               e == UpsertCatalog(h, d)
    <3>1. pc[h] = "apply" /\ catalog' = catalog
      BY <2>1 DEF ApplyDelta, dbVars
    <3>2. d \in Delta
      <4>1. PayloadOf(h) \in Payload /\ Len(PayloadOf(h).deltas) \in Nat
        BY <3>1, PayloadTyped
      <4>2. tx[h].done \in Nat /\ tx[h].done < Len(PayloadOf(h).deltas)
        BY <3>1 DEF IInv, TypeOK, Tx, Applying
      <4>3. QED BY <4>1, <4>2 DEF Payload, NextDelta
    <3>3. tx'[h].entries = {c \in tx[h].entries : c.key # e.key} \cup {e}
      BY <2>1 DEF ApplyDelta, IInv, TypeOK
    <3>4. \A g \in Handlers : g # h => tx'[g] = tx[g]
      BY <2>1 DEF ApplyDelta, IInv, TypeOK
    <3>5. \A c \in catalog : Repeats(e, c)
      BY <3>2, UpsertRepeats
    <3> HIDE DEF d, e
    <3>6. EntriesRepeat'
      BY <3>1, <3>3, <3>4, <3>5 DEF EntriesRepeat, Repeats
    <3>7. QED BY <3>1, <3>6
  <2>2. CASE RejectDuplicate(h) \/ BreakDeadlock(h) \/ Fail(h)
    BY <2>2, <1>2 DEF RejectDuplicate, BreakDeadlock, Fail, dbVars
  <2>3. CASE CheckSeen(h)
    BY <2>3, <1>1, <1>2 DEF CheckSeen, dbVars
  <2>4. CASE Begin(h) \/ RecordBatch(h) \/ FetchHost(h)
    BY <2>4, <1>1 DEF Begin, RecordBatch, FetchHost, dbVars
  <2>5. CASE Reconcile(h)
    <3>1. catalog' = catalog /\ \A g \in Handlers : tx'[g].entries = tx[g].entries
      BY <2>5 DEF Reconcile, IInv, TypeOK, Tx, dbVars
    <3>2. QED BY <3>1, <1>1
  <2>6. QED BY <1>3, <2>1, <2>2, <2>3, <2>4, <2>5 DEF Handle
<1>4. ASSUME NEW a \in Hosts, TimeOut(a) \/ \E h \in Handlers : Send(a, h)
      PROVE  EntriesRepeat' /\ catalog' = catalog
  BY <1>4, <1>1 DEF TimeOut, Send, dbVars
<1>5. CASE UNCHANGED vars
  BY <1>5, <1>1 DEF vars, dbVars
<1>6. CASE \E h \in Handlers : Commit(h)
  BY <1>6, CommitKeeps
<1>7. QED BY <1>3, <1>4, <1>5, <1>6 DEF Next

\* A row of software_catalog is never lost, renamed or given another verdict,
\* whatever transactions upsert its key at once: a lock keeps the row that was
\* read until it is written.
THEOREM CatalogIsKept == Spec => CatalogKept
<1>1. Init => EntriesRepeat
  BY DEF Init, EntriesRepeat
<1>2. IInv /\ EntriesRepeat /\ [Next]_vars => EntriesRepeat'
  BY KeepsStep
<1>3. IInv /\ EntriesRepeat /\ [Next]_vars =>
        [\A c \in catalog : \E d \in catalog' :
           d.id = c.id /\ d.key = c.key /\ d.item = c.item /\ d.signed = c.signed]_vars
  BY KeepsStep
<1>4. QED BY <1>1, <1>2, <1>3, Invariance, PTL DEF Spec, CatalogKept
=============================================================================

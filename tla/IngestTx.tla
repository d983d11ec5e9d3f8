------------------------------ MODULE IngestTx ------------------------------
(***************************************************************************)
(* HandleIngest and IngestBatch statement by statement                     *)
(* (internal/server/api/handlers.go, internal/server/store/ingest.go): the *)
(* handlers of several hosts share software_catalog and the connection     *)
(* pool, and two handlers of one batch share its row of ingest_batches,    *)
(* under PostgreSQL's READ COMMITTED.                                      *)
(*                                                                         *)
(* What a transaction writes is its own until it commits (tx), and what it *)
(* wrote is locked until it ends. host_software needs no locks here: no    *)
(* two transactions write rows of one host (SingleWriter).                 *)
(***************************************************************************)
EXTENDS Naturals, Sequences, FiniteSets, Inventory

CONSTANTS
  Hosts,      \* each host with the one agent that reports for it
  Payloads,   \* [Hosts -> Seq(Payload)]: each agent's spool, oldest first
  SignedIn,   \* [Attrs -> BOOLEAN]: the signature verdict within an attribute
  Handlers,   \* bound on the requests handled at once
  NoHandler,  \* "the agent awaits no reply"
  NoJob,      \* "the handler has no request"
  PoolSize,   \* connections of pgxpool
  MaxFaults   \* bound on timeouts and failing statements

\* The wire's SoftwareDelta, and an IngestRequest with its deltas in the order
\* IngestBatch takes them; inv is the inventory behind it (history).
Delta == [op : {"upsert", "remove"}, item : Items, attr : Attrs]
Payload == [full : BOOLEAN, deltas : Seq(Delta), inv : Inventory]

ASSUME IngestAssumption ==
  /\ Payloads \in [Hosts -> Seq(Payload)]
  /\ SignedIn \in [Attrs -> BOOLEAN]
  /\ IsFiniteSet(Handlers)
  /\ NoHandler \notin Handlers
  /\ NoJob \notin Hosts \X Nat
  /\ PoolSize \in Nat \ {0}
  /\ MaxFaults \in Nat

VARIABLES
  ledger,    \* ingest_batches
  catalog,   \* software_catalog
  software,  \* host_software
  pc,        \* where each handler is
  job,       \* the request it serves: host and number of the batch
  tx,        \* what its transaction has written
  head,      \* the number of the batch at the head of each agent's spool
  awaiting,  \* the handler whose reply each agent awaits
  faults     \* how many faults have happened

dbVars == <<ledger, catalog, software>>
agentVars == <<head, awaiting>>
vars == <<dbVars, agentVars, pc, job, tx, faults>>

Keys == {CatalogOf[i] : i \in Items}
Ids == Keys \X Handlers

\* A catalog row: name, version and signature are those of the delta that
\* inserted it, source that of the last. A host row has the attribute of the
\* delta that wrote it last, of which host_software keeps path and user only.
Entry == [id : Ids, key : Keys, item : Items, signed : BOOLEAN, source : Sources]
Row == [host : Hosts, id : Ids, source : Sources, attr : Attrs]
Pk(r) == <<r.id, r.source>>

\* done counts deltas; entries and put are catalog and host rows as the
\* transaction wrote them, touched the host rows it wrote or deleted, seen its
\* seenBySource.
Fresh == [done |-> 0, entries |-> {}, put |-> {}, touched |-> {}, seen |-> {}]
Tx == [done : Nat, entries : SUBSET Entry, put : SUBSET Row,
       touched : SUBSET (Ids \X Sources), seen : SUBSET (Ids \X Sources)]

Recording == {"host", "apply", "reconcile", "commit"}
Recorded(h) == pc[h] \in Recording
InTx == {h \in Handlers : pc[h] = "record" \/ Recorded(h)}

\* Mutant: one connection too many.
ConnectionFreeLate == Cardinality(InTx) <= PoolSize

ConnectionFree == Cardinality(InTx) < PoolSize

\* Types, and that the pool is never overdrawn.
TypeOK ==
  /\ ledger \subseteq Hosts \X Nat
  /\ catalog \subseteq Entry
  /\ software \subseteq Row
  /\ pc \in [Handlers -> {"idle", "check", "begin", "record"} \cup Recording]
  /\ job \in [Handlers -> (Hosts \X Nat) \cup {NoJob}]
  /\ tx \in [Handlers -> Tx]
  /\ head \in [Hosts -> Nat]
  /\ awaiting \in [Hosts -> Handlers \cup {NoHandler}]
  /\ faults \in 0..MaxFaults
  /\ Cardinality(InTx) <= PoolSize

Init ==
  /\ ledger = {} /\ catalog = {} /\ software = {}
  /\ pc = [h \in Handlers |-> "idle"]
  /\ job = [h \in Handlers |-> NoJob]
  /\ tx = [h \in Handlers |-> Fresh]
  /\ head = [a \in Hosts |-> 1]
  /\ awaiting = [a \in Hosts |-> NoHandler]
  /\ faults = 0

-----------------------------------------------------------------------------
(* The agents: post the head of the spool until it is accepted. *)

Send(a, h) ==
  /\ awaiting[a] = NoHandler
  /\ head[a] \in DOMAIN Payloads[a]
  /\ pc[h] = "idle"
  /\ pc' = [pc EXCEPT ![h] = "check"]
  /\ job' = [job EXCEPT ![h] = <<a, head[a]>>]
  /\ awaiting' = [awaiting EXCEPT ![a] = h]
  /\ UNCHANGED <<dbVars, tx, head, faults>>

Fault == faults < MaxFaults /\ faults' = faults + 1

\* The agent waits no longer; the handler goes on.
TimeOut(a) ==
  /\ awaiting[a] # NoHandler
  /\ awaiting' = [awaiting EXCEPT ![a] = NoHandler]
  /\ Fault
  /\ UNCHANGED <<dbVars, pc, job, tx, head>>

\* The handler ends, a transaction that did not commit with it; a 200 that is
\* awaited takes the batch off the spool.
Answer(h, code) ==
  LET a == job[h][1]
  IN /\ pc' = [pc EXCEPT ![h] = "idle"]
     /\ job' = [job EXCEPT ![h] = NoJob]
     /\ tx' = [tx EXCEPT ![h] = Fresh]
     /\ IF awaiting[a] # h THEN UNCHANGED agentVars
        ELSE /\ awaiting' = [awaiting EXCEPT ![a] = NoHandler]
             /\ head' = IF code = 200 THEN [head EXCEPT ![a] = @ + 1] ELSE head

-----------------------------------------------------------------------------
(* A handler. *)

Goto(h, stage) == pc' = [pc EXCEPT ![h] = stage]

\* Mutant: a batch that is being ingested counts as seen.
CheckInFlight(h) ==
  /\ pc[h] = "check"
  /\ ConnectionFree
  /\ IF job[h] \in ledger \/ \E g \in Handlers \ {h} : job[g] = job[h] /\ Recorded(g)
       THEN Answer(h, 200)
       ELSE Goto(h, "begin") /\ UNCHANGED <<agentVars, job, tx>>
  /\ UNCHANGED <<dbVars, faults>>

\* IsBatchSeen, on a connection of its own.
CheckSeen(h) ==
  /\ pc[h] = "check"
  /\ ConnectionFree
  /\ IF job[h] \in ledger
       THEN Answer(h, 200)
       ELSE Goto(h, "begin") /\ UNCHANGED <<agentVars, job, tx>>
  /\ UNCHANGED <<dbVars, faults>>

\* BeginTxFunc takes a connection for as long as the transaction lasts.
Begin(h) ==
  /\ pc[h] = "begin"
  /\ ConnectionFree
  /\ Goto(h, "record")
  /\ UNCHANGED <<dbVars, agentVars, job, tx, faults>>

\* Another transaction has inserted this batch and has not ended.
BatchHeld(h) == \E g \in Handlers \ {h} : Recorded(g) /\ job[g] = job[h]

\* Mutant: ingest_batches without its primary key.
RecordUnchecked(h) ==
  /\ pc[h] = "record"
  /\ Goto(h, "host")
  /\ UNCHANGED <<dbVars, agentVars, job, tx, faults>>

\* The INSERT into ingest_batches waits for another one of the same batch.
RecordBatch(h) ==
  /\ pc[h] = "record"
  /\ ~BatchHeld(h)
  /\ job[h] \notin ledger
  /\ Goto(h, "host")
  /\ UNCHANGED <<dbVars, agentVars, job, tx, faults>>

\* The batch is there: the INSERT fails.
RejectDuplicate(h) ==
  /\ pc[h] = "record"
  /\ job[h] \in ledger
  /\ Answer(h, 500)
  /\ UNCHANGED <<dbVars, faults>>

PayloadOf(h) == Payloads[job[h][1]][job[h][2]]

\* The statement after done deltas.
Stage(h, done) ==
  IF done < Len(PayloadOf(h).deltas) THEN "apply"
  ELSE IF PayloadOf(h).full THEN "reconcile" ELSE "commit"

\* Mutant: the host is read on a second connection.
FetchHostFromPool(h) ==
  /\ pc[h] = "host"
  /\ ConnectionFree
  /\ Goto(h, Stage(h, 0))
  /\ UNCHANGED <<dbVars, agentVars, job, tx, faults>>

\* The SELECT of the agent's host_id, which never changes.
FetchHost(h) ==
  /\ pc[h] = "host"
  /\ Goto(h, Stage(h, 0))
  /\ UNCHANGED <<dbVars, agentVars, job, tx, faults>>

\* The tables as the transaction of h sees them.
CatalogSeen(h) ==
  {c \in catalog : c.id \notin {e.id : e \in tx[h].entries}} \cup tx[h].entries

SoftwareSeen(h) ==
  {r \in software : r.host = job[h][1] => Pk(r) \notin tx[h].touched} \cup tx[h].put

NextDelta(h) == PayloadOf(h).deltas[tx[h].done + 1]
NextKey(h) == CatalogOf[NextDelta(h).item]

\* Mutant: no unique index: an INSERT does not see what others insert.
NoKeyHeld(h, k) == FALSE

\* Another transaction wrote the catalog row of key k and has not ended.
KeyHeld(h, k) ==
  \E g \in Handlers \ {h} : \E e \in tx[g].entries : e.key = k

\* upsertCatalog: ON CONFLICT keeps the row that is there but for its source.
UpsertCatalog(h, d) ==
  LET k == CatalogOf[d.item]
      present == {c \in CatalogSeen(h) : c.key = k}
  IN IF present # {}
       THEN [(CHOOSE c \in present : TRUE) EXCEPT !.source = SourceOf[d.item]]
       ELSE [id |-> <<k, h>>, key |-> k, item |-> d.item,
             signed |-> SignedIn[d.attr], source |-> SourceOf[d.item]]

\* upsertCatalog and the statement on host_software that follows it.
ApplyDelta(h) ==
  /\ pc[h] = "apply"
  /\ ~KeyHeld(h, NextKey(h))
  /\ LET d == NextDelta(h)
         e == UpsertCatalog(h, d)
         pk == <<e.id, SourceOf[d.item]>>
         row == [host |-> job[h][1], id |-> e.id, source |-> SourceOf[d.item],
                 attr |-> d.attr]
         upsert == d.op = "upsert"
     IN tx' = [tx EXCEPT ![h] =
          [done    |-> @.done + 1,
           entries |-> {c \in @.entries : c.key # e.key} \cup {e},
           put     |-> {r \in @.put : Pk(r) # pk} \cup IF upsert THEN {row} ELSE {},
           touched |-> @.touched \cup {pk},
           seen    |-> @.seen \cup IF upsert THEN {pk} ELSE {}]]
  /\ Goto(h, Stage(h, tx[h].done + 1))
  /\ UNCHANGED <<dbVars, agentVars, job, faults>>

\* The DELETE of each source in seenBySource.
Reconcile(h) ==
  /\ pc[h] = "reconcile"
  /\ LET sources == {pk[2] : pk \in tx[h].seen}
         gone == {r \in SoftwareSeen(h) : /\ r.host = job[h][1]
                                          /\ r.source \in sources
                                          /\ Pk(r) \notin tx[h].seen}
     IN tx' = [tx EXCEPT ![h].touched = @ \cup {Pk(r) : r \in gone},
                         ![h].put = @ \ gone]
  /\ Goto(h, "commit")
  /\ UNCHANGED <<dbVars, agentVars, job, faults>>

\* Mutant: the catalog rows that no host row names go with it.
CommitPrunes(h) ==
  /\ pc[h] = "commit"
  /\ ledger' = ledger \cup {job[h]}
  /\ software' = SoftwareSeen(h)
  /\ catalog' = {c \in CatalogSeen(h) : \E r \in software' : r.id = c.id}
  /\ Answer(h, 200) /\ UNCHANGED faults

\* The commit, which may be reported as failed.
Commit(h) ==
  /\ pc[h] = "commit"
  /\ ledger' = ledger \cup {job[h]}
  /\ catalog' = CatalogSeen(h)
  /\ software' = SoftwareSeen(h)
  /\ \/ Answer(h, 200) /\ UNCHANGED faults
     \/ Answer(h, 500) /\ Fault

\* Mutant: a delta that fails is skipped.
FailSkips(h) ==
  \/ /\ pc[h] = "apply"
     /\ tx' = [tx EXCEPT ![h].done = @ + 1]
     /\ Goto(h, Stage(h, tx[h].done + 1))
     /\ Fault
     /\ UNCHANGED <<dbVars, agentVars, job>>
  \/ pc[h] \notin {"idle", "apply"} /\ Answer(h, 500) /\ Fault /\ UNCHANGED dbVars

\* A statement fails, or the request's context is cancelled: the transaction
\* is rolled back. (The SELECT after a failed INSERT of a package fails too:
\* its transaction is aborted.)
Fail(h) ==
  /\ pc[h] # "idle"
  /\ Answer(h, 500)
  /\ Fault
  /\ UNCHANGED dbVars

\* What the next statement of h needs is locked by g.
WaitsFor(h, g) ==
  /\ g # h
  /\ \/ pc[h] = "record" /\ Recorded(g) /\ job[g] = job[h]
     \/ pc[h] = "apply" /\ \E e \in tx[g].entries : e.key = NextKey(h)

\* PostgreSQL ends one transaction of a circle of waiting ones.
BreakDeadlock(h) ==
  /\ \E circle \in SUBSET Handlers :
       /\ h \in circle
       /\ \A x \in circle :
            /\ \E y \in circle : WaitsFor(x, y)
            /\ \E y \in circle : WaitsFor(y, x)
  /\ Answer(h, 500)
  /\ UNCHANGED <<dbVars, faults>>

-----------------------------------------------------------------------------

Handle(h) ==
  \/ CheckSeen(h) \/ Begin(h) \/ RecordBatch(h) \/ RejectDuplicate(h)
  \/ FetchHost(h) \/ ApplyDelta(h) \/ Reconcile(h) \/ Commit(h)
  \/ BreakDeadlock(h)

Next ==
  \/ \E a \in Hosts : TimeOut(a) \/ \E h \in Handlers : Send(a, h)
  \/ \E h \in Handlers : Handle(h) \/ Fail(h)

Spec == Init /\ [][Next]_vars

\* Agents retry and handlers go on. A lock goes to a transaction that waits for
\* it, not to one that comes later: what already holds locks gets on when the
\* next one becomes free again and again.
Fairness ==
  /\ \A a \in Hosts : WF_vars(\E h \in Handlers : Send(a, h))
  /\ \A h \in Handlers :
       /\ WF_vars(Handle(h))
       /\ SF_vars(tx[h].done > 0 /\ ApplyDelta(h))

FairSpec == Spec /\ Fairness

-----------------------------------------------------------------------------
(* Safety. *)

\* Two transactions that write host_software are of different hosts: only a
\* second handler of the same batch can meet the first, and it has to wait at
\* ingest_batches. (Delivery shows the exception: the cap drops the head.)
SingleWriter ==
  \A g, h \in Handlers :
    Recorded(g) /\ Recorded(h) /\ job[g][1] = job[h][1] => g = h

\* An agent drops a batch from its spool only when it is committed.
AcceptedIsIngested ==
  \A a \in Hosts : \A n \in 1..(head[a] - 1) : <<a, n>> \in ledger

\* software_catalog is "canonical software identity, deduped across the fleet":
\* one row per key, whatever transactions insert it together or roll back.
Deduped == \A c, d \in catalog : c.key = d.key => c = d

\* No host row names a catalog row that was rolled back: the reports' join
\* drops none.
Referenced == \A r \in software : \E c \in catalog : c.id = r.id

\* A committed catalog row stays, and its name, version and verdict stay those
\* of the first report: every later upsert read it, and nobody else wrote it.
CatalogKept ==
  [][\A c \in catalog : \E d \in catalog' :
       d.id = c.id /\ d.key = c.key /\ d.item = c.item /\ d.signed = c.signed]_vars

-----------------------------------------------------------------------------
(* The inductive invariant behind them. *)

\* A handler serves a batch that was sent, the awaited one the head's.
Serving ==
  /\ \A h \in Handlers : pc[h] # "idle" =>
       /\ job[h] \in Hosts \X Nat
       /\ job[h][2] \in DOMAIN Payloads[job[h][1]]
       /\ job[h][2] <= head[job[h][1]]
  /\ \A a \in Hosts : awaiting[a] # NoHandler =>
       /\ pc[awaiting[a]] # "idle"
       /\ job[awaiting[a]] = <<a, head[a]>>

\* What a transaction recorded is not in the committed ledger.
Unpublished == \A h \in Handlers : Recorded(h) => job[h] \notin ledger

\* A transaction has written nothing before its deltas, and has one left when
\* it applies them.
Applying ==
  \A h \in Handlers :
    /\ pc[h] \notin {"apply", "reconcile", "commit"} => tx[h] = Fresh
    /\ pc[h] = "apply" => tx[h].done < Len(PayloadOf(h).deltas)

\* Transactions write catalog rows of different keys.
Exclusive ==
  \A g, h \in Handlers : g # h =>
    \A c \in tx[g].entries, d \in tx[h].entries : c.key # d.key

\* An id belongs to one key.
IdsNameKeys ==
  /\ \A c \in catalog : c.id[1] = c.key
  /\ \A h \in Handlers : \A c \in tx[h].entries : c.id[1] = c.key

\* What a transaction writes under a key is the committed row of that key, if
\* there is one, and its host rows name what it wrote.
EntriesFit ==
  \A h \in Handlers :
    /\ \A c \in tx[h].entries, d \in catalog : c.key = d.key => c.id = d.id
    /\ \A c, d \in tx[h].entries : c.key = d.key => c = d
    /\ \A r \in tx[h].put : \E c \in tx[h].entries : c.id = r.id

IInv ==
  /\ TypeOK /\ Serving /\ Unpublished /\ SingleWriter /\ AcceptedIsIngested
  /\ Applying /\ Exclusive /\ IdsNameKeys /\ EntriesFit /\ Deduped /\ Referenced

-----------------------------------------------------------------------------
(* Liveness, under FairSpec. *)

\* Every agent gets rid of its spool: transactions that wait for each other or
\* for a connection do not do so for ever.
EventuallyAccepted ==
  \A a \in Hosts : <>(head[a] > Len(Payloads[a]))
=============================================================================

------------------------------ MODULE Delivery ------------------------------
(***************************************************************************)
(* Store-and-forward delivery of inventory batches: the agent's single     *)
(* goroutine (cmd/agent/main.go) collects, diffs and spools; its drain     *)
(* loop posts the head of the spool with retries (internal/agent/transport)*)
(* and acknowledges it; the server authenticates each request and ingests  *)
(* the batch once (internal/server/api, internal/server/store).            *)
(*                                                                         *)
(* A request the agent stopped waiting for (timeout, restart) may still be *)
(* handled by the server: reqs holds every request that is in flight,      *)
(* awaiting the one the agent still listens to.                            *)
(***************************************************************************)
EXTENDS Naturals, SequencesExt, Inventory

CONSTANTS
  Collections,  \* the inventories the collectors can return
  Leftovers,    \* the tables an earlier agent of this host may have left
  SpoolMax,     \* batches the spool holds before a push finds it over its cap
  MaxAttempts,  \* attempts of one Post (5 in the code)
  MaxBatches,   \* bound on the batches built in a behaviour
  ReqIds,       \* bound on the requests in flight at once
  NoReq,        \* "the agent awaits no reply"
  BodyEncoding, \* of the agent's requests: "gzip", or "identity"
  Faults        \* which of the faults below may happen

ASSUME DeliveryAssumption ==
  /\ Collections \subseteq Inventory
  /\ Leftovers \subseteq Table
  /\ SpoolMax \in Nat
  /\ MaxAttempts \in Nat \ {0}
  /\ MaxBatches \in Nat
  /\ NoReq \notin ReqIds
  /\ BodyEncoding \in {"gzip", "identity"}
  /\ Faults \subseteq {"net", "db", "push", "peek", "ack", "crash", "decommission"}

VARIABLES
  agent,     \* where the agent's goroutine is
  last,      \* procState and instState: the inventory diffed against (volatile)
  spool,     \* batch numbers in spool.db, oldest first (durable)
  attempt,   \* attempts of the current Post so far
  awaiting,  \* the request whose reply the agent awaits
  reqs,      \* every request in flight
  status,    \* agents.status
  ledger,    \* ingest_batches, in commit order
  rows,      \* this host's host_software (Inventory.ColumnsOf)
  hist,      \* history: every batch built and the inventory behind it
  lost       \* history: batches the cap dropped or a failed push never stored

agentVars == <<agent, last, spool, attempt, awaiting>>
serverVars == <<status, ledger, rows>>
vars == <<agentVars, serverVars, reqs, hist, lost>>

AgentStates == {"down", "idle", "drain", "posting", "backoff"}
Stages == {"free", "sent", "admitted", "checked", "replied"}
Codes == {0, 200, 400, 401, 500}
BatchIds == 1..Len(hist)

Request == [stage : Stages, batch : Nat, code : Codes]
Free == [stage |-> "free", batch |-> 0, code |-> 0]
InFlight == {r \in ReqIds : reqs[r].stage # "free"}

TypeOK ==
  /\ agent \in AgentStates
  /\ last \in Inventory
  /\ spool \in Seq(Nat)
  /\ attempt \in 0..MaxAttempts
  /\ awaiting \in ReqIds \cup {NoReq}
  /\ reqs \in [ReqIds -> Request]
  /\ status \in {"active", "decommissioned"}
  /\ ledger \in Seq(Nat)
  /\ rows \in Table
  /\ hist \in Seq([inv : Inventory, batch : Batch])
  /\ lost \subseteq Nat

\* The host may already have rows: it was enrolled by an earlier agent.
Init ==
  /\ agent = "down"
  /\ last = EmptyInventory
  /\ spool = <<>>
  /\ attempt = 0
  /\ awaiting = NoReq
  /\ reqs = [r \in ReqIds |-> Free]
  /\ status = "active"
  /\ ledger = <<>>
  /\ rows \in Leftovers
  /\ hist = <<>>
  /\ lost = {}

-----------------------------------------------------------------------------
(* Collecting and spooling. *)

OverCap == Len(spool) > SpoolMax

\* The batches that are left when the size cap has been enforced. bbolt counts
\* LeafInuse and KeyN from committed pages, so the deletes of this transaction
\* do not bring them down: over the cap, the loop stops when nothing is left.
WithinCap == IF OverCap THEN <<>> ELSE spool

\* Spool.Push, one bbolt transaction; its error is only logged.
Push(n) ==
  \/ /\ spool' = Append(WithinCap, n)
     /\ lost' = lost \cup (Range(spool) \ Range(WithinCap))
  \/ /\ "push" \in Faults
     /\ lost' = lost \cup {n}
     /\ UNCHANGED spool

\* collectAndSpool: the collected state replaces the last one before the batch
\* is stored; without deltas only a full snapshot makes a batch.
CollectAndSpool(cur, full) ==
  LET b == Diff(last, cur, full)
  IN /\ last' = cur
     /\ IF IsEmptyDelta(b) /\ ~full
          THEN UNCHANGED <<spool, hist, lost>>
          ELSE /\ Len(hist) < MaxBatches
               /\ hist' = Append(hist, [inv |-> cur, batch |-> b])
               /\ Push(Len(hist) + 1)

\* program.run begins: fresh delta states, a full snapshot of both sources.
Start ==
  /\ agent = "down"
  /\ \E cur \in Collections : CollectAndSpool(cur, TRUE)
  /\ agent' = "idle"
  /\ UNCHANGED <<attempt, awaiting, reqs, serverVars>>

\* processTick and installedTick: one source is collected again.
Tick(source) ==
  /\ agent = "idle"
  /\ \E c \in Collections :
       LET cur == [i \in Items |-> IF SourceOf[i] = source THEN c[i] ELSE last[i]]
       IN CollectAndSpool(cur, FALSE)
  /\ UNCHANGED <<agent, attempt, awaiting, reqs, serverVars>>

\* The process dies or is stopped; a request it awaited goes on without it.
Crash ==
  /\ "crash" \in Faults
  /\ agent # "down"
  /\ Len(hist) < MaxBatches
  /\ agent' = "down"
  /\ last' = EmptyInventory
  /\ attempt' = 0
  /\ awaiting' = NoReq
  /\ reqs' = [r \in ReqIds |-> IF reqs[r].stage = "replied" THEN Free ELSE reqs[r]]
  /\ UNCHANGED <<spool, serverVars, hist, lost>>

-----------------------------------------------------------------------------
(* Draining: Peek, Post with retries, Ack. *)

Send(n) ==
  \E r \in ReqIds :
    /\ reqs[r].stage = "free"
    /\ reqs' = [reqs EXCEPT ![r] = [stage |-> "sent", batch |-> n, code |-> 0]]
    /\ awaiting' = r

\* Mutant: the spool is drained newest first.
PostNewest ==
  /\ agent \in {"idle", "drain"}
  /\ spool # <<>>
  /\ Send(Last(spool))
  /\ agent' = "posting"
  /\ attempt' = 1
  /\ UNCHANGED <<last, spool, serverVars, hist, lost>>

\* drainTick fires, or drainSpool goes round its loop: Peek, then Post.
PostHead ==
  /\ agent \in {"idle", "drain"}
  /\ spool # <<>>
  /\ Send(Head(spool))
  /\ agent' = "posting"
  /\ attempt' = 1
  /\ UNCHANGED <<last, spool, serverVars, hist, lost>>

\* Peek cannot read the head: the drain loop breaks.
PeekFails ==
  /\ "peek" \in Faults
  /\ agent = "drain"
  /\ agent' = "idle"
  /\ UNCHANGED <<last, spool, attempt, awaiting, reqs, serverVars, hist, lost>>

\* After the backoff delay Post sends the same bytes again.
Retry ==
  /\ agent = "backoff"
  /\ Send(Head(spool))
  /\ agent' = "posting"
  /\ attempt' = attempt + 1
  /\ UNCHANGED <<last, spool, serverVars, hist, lost>>

\* Post returns an error: the drain loop breaks.
GiveUp ==
  /\ agent' = "idle"
  /\ attempt' = 0

\* Mutant: one attempt too many.
AttemptFailsLate ==
  /\ awaiting' = NoReq
  /\ IF attempt <= MaxAttempts
       THEN agent' = "backoff" /\ UNCHANGED attempt
       ELSE GiveUp

\* An attempt ended without an answer below 500.
AttemptFails ==
  /\ awaiting' = NoReq
  /\ IF attempt < MaxAttempts
       THEN agent' = "backoff" /\ UNCHANGED attempt
       ELSE GiveUp

\* 2xx: Ack deletes the head (its error is ignored) and the loop goes on.
ReceiveAccepted ==
  /\ agent = "posting"
  /\ reqs[awaiting].stage = "replied" /\ reqs[awaiting].code = 200
  /\ \/ spool' = Tail(spool)
     \/ /\ "ack" \in Faults
        /\ UNCHANGED spool
  /\ agent' = IF spool' = <<>> THEN "idle" ELSE "drain"
  /\ attempt' = 0
  /\ awaiting' = NoReq
  /\ reqs' = [reqs EXCEPT ![awaiting] = Free]
  /\ UNCHANGED <<last, serverVars, hist, lost>>

\* Mutant: a batch the server refuses is taken off the spool.
RefusedIsDropped ==
  /\ agent = "posting"
  /\ reqs[awaiting].stage = "replied" /\ reqs[awaiting].code \in {400, 401}
  /\ GiveUp
  /\ spool' = Tail(spool)
  /\ awaiting' = NoReq
  /\ reqs' = [reqs EXCEPT ![awaiting] = Free]
  /\ UNCHANGED <<last, serverVars, hist, lost>>

\* 300..499: Post returns at once.
ReceiveRefused ==
  /\ agent = "posting"
  /\ reqs[awaiting].stage = "replied" /\ reqs[awaiting].code \in {400, 401}
  /\ GiveUp
  /\ awaiting' = NoReq
  /\ reqs' = [reqs EXCEPT ![awaiting] = Free]
  /\ UNCHANGED <<last, spool, serverVars, hist, lost>>

ReceiveError ==
  /\ agent = "posting"
  /\ reqs[awaiting].stage = "replied" /\ reqs[awaiting].code = 500
  /\ AttemptFails
  /\ reqs' = [reqs EXCEPT ![awaiting] = Free]
  /\ UNCHANGED <<last, spool, serverVars, hist, lost>>

\* Mutant: a batch is acknowledged once its request has gone out.
TimeoutAcks ==
  /\ "net" \in Faults
  /\ agent = "posting"
  /\ GiveUp
  /\ spool' = Tail(spool)
  /\ awaiting' = NoReq
  /\ reqs' = IF reqs[awaiting].stage = "replied"
               THEN [reqs EXCEPT ![awaiting] = Free] ELSE reqs
  /\ UNCHANGED <<last, serverVars, hist, lost>>

\* No usable answer within the client's timeout; the server may still work on
\* the request.
Timeout ==
  /\ "net" \in Faults
  /\ agent = "posting"
  /\ AttemptFails
  /\ reqs' = IF reqs[awaiting].stage = "replied"
               THEN [reqs EXCEPT ![awaiting] = Free] ELSE reqs
  /\ UNCHANGED <<last, spool, serverVars, hist, lost>>

-----------------------------------------------------------------------------
(* The server: mTLSMiddleware and HandleIngest, for the request r. *)

\* Nobody reads the answer to a request its client has given up.
Reply(r, code) ==
  reqs' = [reqs EXCEPT ![r] =
            IF r = awaiting THEN [@ EXCEPT !.stage = "replied", !.code = code]
                            ELSE Free]

Advance(r, stage) == reqs' = [reqs EXCEPT ![r].stage = stage]

serverIdle == UNCHANGED <<agentVars, serverVars, hist, lost>>

\* Mutant: GetAgentByCert without its status condition.
AdmitAnyStatus(r) ==
  /\ reqs[r].stage = "sent"
  /\ BodyEncoding = "identity"
  /\ Advance(r, "admitted")
  /\ serverIdle

\* The certificate maps to an active agent and the body decodes.
Admit(r) ==
  /\ reqs[r].stage = "sent"
  /\ status = "active"
  /\ BodyEncoding = "identity"
  /\ Advance(r, "admitted")
  /\ serverIdle

\* readJSON decodes the body as it came: a compressed one is not JSON, nor is
\* one that was cut short on its way.
RejectBody(r) ==
  /\ reqs[r].stage = "sent"
  /\ status = "active"
  /\ BodyEncoding = "gzip" \/ "net" \in Faults
  /\ Reply(r, 400)
  /\ serverIdle

\* No active agent with this certificate, or the look-up failed.
RejectAgent(r) ==
  /\ reqs[r].stage = "sent"
  /\ status # "active" \/ "db" \in Faults
  /\ Reply(r, 401)
  /\ serverIdle

\* Mutant: HandleIngest does not ask IsBatchSeen.
CheckNothing(r) ==
  /\ reqs[r].stage = "admitted"
  /\ Advance(r, "checked")
  /\ serverIdle

\* IsBatchSeen, outside the ingest transaction.
CheckSeen(r) ==
  /\ reqs[r].stage = "admitted"
  /\ IF reqs[r].batch \in Range(ledger) THEN Reply(r, 200)
                                        ELSE Advance(r, "checked")
  /\ serverIdle

CheckFails(r) ==
  /\ "db" \in Faults
  /\ reqs[r].stage = "admitted"
  /\ Reply(r, 500)
  /\ serverIdle

\* Mutant: ingest_batches without its primary key.
NoPrimaryKey(n) == TRUE

\* The primary key of ingest_batches admits a batch once.
Recordable(n) == n \notin Range(ledger)

\* Mutant: the batch id is recorded outside the transaction of the rows.
IngestInTwoSteps(r) ==
  /\ reqs[r].stage = "checked"
  /\ Recordable(reqs[r].batch)
  /\ ledger' = Append(ledger, reqs[r].batch)
  /\ \/ rows' \in Applied(rows, hist[reqs[r].batch].batch) /\ Reply(r, 200)
     \/ "db" \in Faults /\ Reply(r, 500) /\ UNCHANGED rows
  /\ UNCHANGED <<agentVars, status, hist, lost>>

\* IngestBatch commits: the batch id, the rows and the reconcile together. The
\* commit may succeed and still be reported as failed.
Ingest(r) ==
  /\ reqs[r].stage = "checked"
  /\ Recordable(reqs[r].batch)
  /\ ledger' = Append(ledger, reqs[r].batch)
  /\ rows' \in Applied(rows, hist[reqs[r].batch].batch)
  /\ \/ Reply(r, 200)
     \/ "db" \in Faults /\ Reply(r, 500)
  /\ UNCHANGED <<agentVars, status, hist, lost>>

\* IngestBatch rolls back: a duplicate batch id or any failing statement.
IngestFails(r) ==
  /\ reqs[r].stage = "checked"
  /\ ~Recordable(reqs[r].batch) \/ "db" \in Faults
  /\ Reply(r, 500)
  /\ serverIdle

\* The request is lost, or its handler dies with the server or with the
\* request's context.
Abort(r) ==
  /\ "net" \in Faults
  /\ r \in InFlight /\ reqs[r].stage # "replied"
  /\ IF r = awaiting THEN AttemptFails ELSE UNCHANGED <<agent, attempt, awaiting>>
  /\ reqs' = [reqs EXCEPT ![r] = Free]
  /\ UNCHANGED <<last, spool, serverVars, hist, lost>>

\* DecommissionAgent, as far as delivery sees it.
Decommission ==
  /\ "decommission" \in Faults
  /\ status' = "decommissioned"
  /\ UNCHANGED <<agentVars, ledger, rows, reqs, hist, lost>>

-----------------------------------------------------------------------------

Agent ==
  \/ Start \/ Crash \/ (\E s \in Sources : Tick(s))
  \/ PostHead \/ PeekFails \/ Retry \/ Timeout
  \/ ReceiveAccepted \/ ReceiveRefused \/ ReceiveError

Server ==
  \/ Decommission
  \/ \E r \in ReqIds :
       \/ Admit(r) \/ RejectBody(r) \/ RejectAgent(r)
       \/ CheckSeen(r) \/ CheckFails(r)
       \/ Ingest(r) \/ IngestFails(r) \/ Abort(r)

Next == Agent \/ Server

Spec == Init /\ [][Next]_vars

\* The server does not leave a request it received unhandled.
Handle(r) ==
  Admit(r) \/ RejectBody(r) \/ CheckSeen(r) \/ Ingest(r) \/ IngestFails(r)

\* The agent's goroutine keeps running and its tickers keep firing; what the
\* agent repeats for ever, each step of the way succeeds again and again.
Fairness ==
  /\ WF_vars(Start) /\ WF_vars(PostHead) /\ WF_vars(Retry)
  /\ WF_vars(ReceiveRefused) /\ WF_vars(ReceiveError)
  /\ SF_vars(ReceiveAccepted /\ spool' # spool)
  /\ \A r \in ReqIds :
       /\ WF_vars(Handle(r))
       /\ SF_vars(r = awaiting /\ Admit(r))
       /\ SF_vars(r = awaiting /\ CheckSeen(r))
       /\ SF_vars(r = awaiting /\ Ingest(r))

FairSpec == Spec /\ Fairness

-----------------------------------------------------------------------------
(* Safety. *)

\* A batch takes effect at most once, whatever retries, replays after a crash
\* and concurrent handlers of the same batch do.
AtMostOnce == IsInjective(ledger)

\* A batch the agent built is in the spool, or ingested, or one of the batches
\* that were dropped for the cap or never stored: nothing is forgotten because
\* of an answer that was lost, late, or an error.
Durable ==
  \A n \in BatchIds : n \in lost \cup Range(spool) \cup Range(ledger)

\* Batches are ingested in the order they were built: one that overtakes a
\* later batch had been dropped from the spool while a request for it was
\* still alive.
InOrder ==
  \A i, j \in DOMAIN ledger :
    i < j /\ ledger[j] < ledger[i] => ledger[j] \in lost

\* The k-th batch of the ledger is a full snapshot with something of source s,
\* and all that followed it are the deltas built right after it, in order.
AnchoredAt(k, s) ==
  /\ hist[ledger[k]].batch.full
  /\ \E i \in Present(hist[ledger[k]].inv) : SourceOf[i] = s
  /\ \A j \in (k + 1)..Len(ledger) :
       /\ ledger[j] = ledger[j - 1] + 1
       /\ ~hist[ledger[j]].batch.full

\* Since such a snapshot host_software shows, row by row, the inventory behind
\* the last batch ingested, as far as its columns go: diff on the agent and
\* upsert, delete and reconcile on the server are inverse to each other.
Mirrored ==
  \A s \in Sources, k \in DOMAIN ledger :
    AnchoredAt(k, s) => Shows(rows, hist[Last(ledger)].inv, s)

\* The agent has nothing left to send and no batch was lost.
Drained == agent = "idle" /\ spool = <<>> /\ lost = {}

\* The newest full snapshot had something of source s.
Covered(s) ==
  \E n \in BatchIds :
    /\ hist[n].batch.full
    /\ \E i \in Present(hist[n].inv) : SourceOf[i] = s
    /\ \A m \in (n + 1)..Len(hist) : ~hist[m].batch.full

\* What an operator relies on: once the spool is drained the host's rows of
\* host_software (what is there, its path, its user) are the agent's
\* inventory, across restarts, retries and duplicate requests. The signature
\* verdict the web UI prints beside them is software_catalog's: see Reports.
CurrentWhenDrained ==
  Drained => \A s \in Sources : Covered(s) => Shows(rows, last, s)

\* A full snapshot repairs whatever happened before it: when it is the newest
\* batch, is ingested, and nothing is in flight, the rows show what it collected.
FullSnapshotHeals ==
  LET n == Len(hist)
  IN /\ n \in Range(ledger) /\ hist[n].batch.full
     /\ spool = <<>> /\ InFlight = {}
     => \A s \in Sources : Covered(s) => Shows(rows, hist[n].inv, s)

\* Right after a full snapshot the host has no row that is not in its payload
\* (the comment on IngestBatch's reconcile).
FullSnapshotReconciles ==
  ledger # <<>> =>
    LET b == hist[Last(ledger)].batch
    IN b.full => \A w \in RowIds :
                   rows[w] # NoAttr => w \in RowsOf(Present(b.upsert))

\* Every identity the agent observes has a row once the spool is drained.
ObservedIsListed ==
  Drained /\ hist # <<>> => \A i \in Present(last) : rows[RowOf(i)] # NoAttr

-----------------------------------------------------------------------------
(* The inductive invariant behind AtMostOnce, Durable, InOrder and Mirrored. *)

\* The agent's control state against its spool and the request it awaits.
Control ==
  /\ agent \in {"drain", "posting", "backoff"} => spool # <<>>
  /\ agent = "backoff" => attempt < MaxAttempts
  /\ agent = "posting" <=> awaiting # NoReq
  /\ agent = "posting" => /\ reqs[awaiting].stage # "free"
                          /\ reqs[awaiting].batch = Head(spool)

\* Only batches that were built are spooled, sent, ingested or lost.
Known ==
  /\ Range(spool) \subseteq BatchIds
  /\ Range(ledger) \subseteq BatchIds
  /\ lost \subseteq BatchIds
  /\ \A r \in InFlight : reqs[r].batch \in BatchIds

\* An answer is there for the awaited request only; 200 means ingested.
Answered ==
  \A r \in ReqIds : reqs[r].stage = "replied" =>
    /\ r = awaiting
    /\ reqs[r].code = 200 => reqs[r].batch \in Range(ledger)

SpoolInOrder ==
  \A j, k \in DOMAIN spool : j < k => spool[j] < spool[k]

\* Nothing behind the head of the spool has ever been sent.
Frontier ==
  \A n \in Range(spool) :
    /\ \A m \in Range(ledger) : m <= n
    /\ \A r \in InFlight : reqs[r].batch <= n

\* Each batch is the delta between the inventory of the batch before it (or
\* none, for a full snapshot) and its own; the agent holds the newest one.
Chained ==
  /\ \A n \in BatchIds :
       LET b == hist[n].batch
       IN /\ n = 1 => b.full
          /\ b = Diff(IF b.full THEN EmptyInventory ELSE hist[n - 1].inv,
                      hist[n].inv, b.full)
  /\ IF agent = "down" THEN last = EmptyInventory
     ELSE hist # <<>> /\ last = hist[Len(hist)].inv

IInv ==
  /\ TypeOK /\ Control /\ Known /\ Answered /\ SpoolInOrder /\ Frontier
  /\ Durable /\ AtMostOnce /\ InOrder /\ Chained

-----------------------------------------------------------------------------
(* Action properties. *)

Admitted == {r \in ReqIds : reqs[r].stage \in {"admitted", "checked"}}

\* Decommissioning cuts the agent off: no request gets past authentication any
\* more, and only those already past it can still change the inventory.
DecommissionCutsOff ==
  [][status = "decommissioned" =>
       /\ Admitted' \subseteq Admitted
       /\ Admitted = {} => UNCHANGED <<ledger, rows>>]_vars

(* Refinement. *)

\* host_software steps through the collected inventories in order, each of
\* them once. It holds where no batch is lost, no two identities share a row
\* and every full snapshot has something of each source.
Abstract == INSTANCE Mirror WITH
  collected <- [n \in BatchIds |-> hist[n].inv],
  published <- Len(ledger)

ImplementsMirror == Abstract!Spec

(* Liveness, under FairSpec. *)

\* Every spooled batch is ingested, unless the cap drops it: no batch blocks
\* the ones behind it for ever.
EventuallyIngested ==
  \A n \in 1..MaxBatches :
    n \in Range(spool) ~> n \in Range(ledger) \cup lost
=============================================================================

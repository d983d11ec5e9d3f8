# A TLA+ model of Featherpoint

Featherpoint is a software inventory: an agent on every host observes which
executables run and which packages are installed, and a server keeps the
fleet's inventory in PostgreSQL and shows it in a web interface. This directory
holds TLA+ modules of the parts that carry its logic, configurations that check
small instances with TLC, and proofs that TLAPS checks for every instance.
Paths and line numbers are those of the repository (`src/...`).

    tlc  -config DeliveryFaults.cfg MCDelivery.tla     # one of the runs
    tlapm DeliveryProofs.tla                           # one of the proofs

`PROJECT.json` lists the runs, the mutants (a plausible bug for every property,
which the run of that property finds), the source lines behind every
definition, the findings, the hazards and the theorems.

## 1. Inventory of the system

| Part | State it keeps | Operations | Model |
|---|---|---|---|
| Agent main loop, `cmd/agent/main.go` | the delta states (memory), config version | `run`, `doEnroll`, `collectAndSpool`, `drainSpool`, `doCheckin`, `doHeartbeat`, one at a time in one `select` | Delivery, Enrollment, Fleet |
| Process collector, `agent/collect/process.go` | none; a pool of goroutines per collection | `RunningProcesses` | Collection |
| Hash cache, `agent/hashcache` | `hashes.db`: path to (sha256, size, mtime, inode), durable | `Get` | Collection |
| Delta, `agent/delta` | `State`: last collected items by key | `Diff` | Inventory (as the server sees it), Collection (with duplicate keys) |
| Spool, `agent/spool` | `spool.db`: FIFO of batches with a byte cap, durable | `Push`, `Peek`, `Ack` | Delivery |
| Transport, `agent/transport` | none | `Post`: five attempts, backoff, 30 s per attempt | Delivery |
| Enrollment, `agent/enroll`, `server/store/enroll.go` | `agent.key`, `agent.crt`, `ca.crt`, `state.json`; `hosts`, `agents` | `doEnroll`, `HandleEnroll`, host correlation | Enrollment |
| Ingest, `server/api/handlers.go`, `server/store/ingest.go` | `ingest_batches`, `software_catalog`, `host_software` | `HandleIngest`, `IsBatchSeen`, `IngestBatch` | IngestTx (statement by statement), Delivery and Inventory (as one step) |
| Fleet management, `server/api/fleet.go`, `server/store/{commands,decommission,users,audit}.go` | `agents.status`, `.config`, `.config_version`, `commands`, `audit_log`, `web_users` | `HandleCreateCommand`, `HandleCreateUser` | Fleet |
| Checkin, `HandleCheckin`, `doCheckin` | `state.json`'s config version; `commands.status` | handing over commands and config | Fleet |
| Authentication of agents, `router.go` | none | `mTLSMiddleware` | Delivery (Admit, RejectAgent), Fleet (Admit) |
| Heartbeat | timestamps and metrics of an agent | `doHeartbeat`, `HandleHeartbeat` | not modelled: a timestamp nothing reads back |
| Installed software collectors, signatures | none | read package databases, `codesign`, ... | inputs of Delivery: I/O of the operating system |
| Certificates and tokens, `server/auth` | none | sign, verify | not modelled: cryptography |
| Web sessions and users, `web.go`, `jwt.go` | `web_users` | login, roles | `CreateUser` in Fleet; login is stateless |
| Reports, `reports.go` | none (reads) | host software, version sprawl, unsigned, dormant | Reports |
| | | software to hosts, catalog search, paging | not modelled: single SELECTs nothing is promised of |
| Web interface, `web/src` | none | shows what the API returns | not modelled |
| Seed and dev certificates, deploy files | none | development tools | not modelled |

How they interact. The agent's loop calls the collectors and `Diff`, pushes the
batch to the spool and drains the spool through `Post`; the server answers each
request from a handler of its own, so that a handler may still run when the
agent has long given the request up. The agent and the handlers share only the
database; the handlers among themselves share it under READ COMMITTED. What is
durable is the spool, the hash cache, the four identity files and the database;
what a crash takes away is the delta state, the request in flight and the
workers of a collection.

What is hard here:

- *Delivery*: a request that timed out may still be executed; the check for a
  seen batch is outside the transaction that ingests it; the delta state is
  volatile although the deltas it produced are durable; the cap of the spool
  drops batches that later deltas build on. Correct means: each batch takes
  effect at most once and in order, and is not forgotten, and the rows become
  the agent's inventory.
- *Ingest of a fleet*: transactions of several hosts write the same rows of
  `software_catalog`, each in the order of its own batch, and keep their locks and
  their connection until they end; two handlers of one batch meet at
  `ingest_batches`. Correct means: nobody sees part of a batch, a batch that the agent
  drops is committed, the catalog has one row per identity, transactions that wait for
  each other do not keep a spool from emptying, and the reports say what was observed.
- *Collection*: a file is looked at twice, hashed and stored in four separate
  steps, by several goroutines at once, while it may change; workers hold a
  semaphore slot while they send to a channel nobody reads yet. Correct means: a
  cached hash is never that of another content, nothing that stood still is
  missed, every collection ends.
- *Enrollment*: four files written one after the other, not atomically, around
  a request whose answer may be lost, with a hosts table that is searched and
  then inserted into. Correct means: certificate, key and agent row always fit
  each other, machines are neither merged nor doubled, and the agent comes to
  run.
- *Fleet*: every request is several statements without a transaction, and they
  interleave with the agent's checkins. Correct means: an agent that names the
  current version has the current config, the audit log tells the truth, and
  config and commands arrive.

## 2. The modules

    Inventory ---- Mirror                     what delivery promises
        \             |  refinement
         +------- Delivery ---- MCDelivery    (6 configurations)
        /             |
       |   InventoryProofs --- DeliveryProofs --- MirrorProofs
       +- AtomicIngest                        what ingest promises
       |         |  refinement
       +- IngestTx --- Reports --- MCIngest   (2)
       |         IngestTxProofs --- ReportsProofs
    Enrollment ---- MCEnrollment  (2)         EnrollmentProofs
         |  refinement
    Registry                                  what enrollment promises
    Fleet --------- MCFleet       (1)         FleetProofs
    Collection ---- MCCollection  (1)         CollectionProofs

**Inventory** has inventories as functions from identities (`delta.Key`) to an
attribute, `Diff` of two of them, and `Applied`: the tables `IngestBatch` may
leave for a batch, row by row. It keeps what makes them hard: a row's key
(`software_catalog` id and source) is not the agent's key, a remove comes after
an upsert, and a full snapshot reconciles only the sources that occur in it. An
attribute is path, owning user and signature verdict; a row of `host_software`
keeps only some of it (`ColumnsOf`), the verdict being a column of
`software_catalog` that an upsert never changes. What Delivery and Mirror say of
rows is therefore about path and user; the verdict is the subject of Reports.

**Delivery** composes the agent's loop (`agent`, `last`, `spool`, `attempt`,
`awaiting`), the requests (`reqs`, each with the stage its handler has reached)
and the server's tables (`ledger` for `ingest_batches`, `rows` for one host's
`host_software`, `status`). `hist` and `lost` are history. One action per step
of the code: `CollectAndSpool` (collect, diff, push, cap), `PostHead`, `Retry`,
`ReceiveAccepted` (the acknowledgement included), `ReceiveRefused`,
`ReceiveError`, `Timeout`, `GiveUp`; on the server `Admit`, `RejectAgent`,
`RejectBody`, `CheckSeen`, `CheckFails`, `Ingest`, `IngestFails`, `Abort`. The
faults (`net`, `db`, `push`, `peek`, `ack`, `crash`, `decommission`) are switched by
the constant `Faults`, so that a property can say which of them it survives.

**Mirror** is the abstract specification: inventories are collected, and shown
one after the other, each once. `ImplementsMirror` is the refinement
(`collected` is the history's inventories, `published` the length of the ledger).

**IngestTx** takes the one step `Ingest` of Delivery apart, for several hosts. A handler
(`pc`, `job`) goes through `CheckSeen`, `Begin`, `RecordBatch` or `RejectDuplicate`, `FetchHost`,
`ApplyDelta` once per delta (the call of `upsertCatalog` and the statement on `host_software` after
it), `Reconcile` and `Commit`. What its transaction writes is in `tx` and visible to it alone until
the commit puts it into `catalog` and `software` (`CatalogSeen`, `SoftwareSeen`: the tables as a
statement of this transaction sees them under READ COMMITTED). A row another transaction wrote is
locked until that one ends: `BatchHeld` for the primary key of `ingest_batches`, `KeyHeld` for the
two unique indexes of `software_catalog`. `BreakDeadlock` is PostgreSQL's choice of a
victim among transactions that wait in a circle, `ConnectionFree` the limit of `pgxpool`, `Fail` any
statement that fails, `TimeOut` an agent that waits no longer. `head` and `awaiting` are the agent of
each host, which posts the head of its spool until it is accepted.

**AtomicIngest** is the abstract specification: each batch of a host takes effect once, whole and
after the ones before it, on that host's rows. **Reports** has the four reports as operators over the
committed tables, and the refinement: what `HostSoftware` shows of each host steps through the batches
as AtomicIngest does. Three modules thus say the same thing at three grains: Mirror (inventories),
AtomicIngest and Delivery's `Ingest` (batches), IngestTx (statements). A row that `HostSoftware` shows
(`ColumnsShown`) has path and user from `host_software` and the verdict from `software_catalog`, where the
verdict of the first delta that named the row stays: the refinement is stated where the agents agree on
verdicts (`VerdictsAgree`), and `PlacesAsIngested` says what remains where they do not.

**Collection** has the machine around the agent (processes start and exit,
files are rewritten, replaced, removed), the worker of each listed process with
the steps of `Cache.Get` (`Stat`, `Inode`, `Lookup`, `Read`, `Store`) between `Take` and
`Send`, with `slots` of the semaphore (`hash_concurrency`, any number of `Concurrencies`), and `Finish`, which dedupes by path and runs `Diff`. A file is the hash of
its content with mtime and inode.

**Enrollment** has the four files of each machine, the process that writes them,
and the server's calls: `Lookup` is one SELECT of the waterfall, `Enroll` the commit,
which may succeed and be reported as failed. A crash may tear the file that is
being written. **Registry** is its abstract specification: a machine gets one host row, keeps its id,
and each committed enrollment adds one certificate to it. `ImplementsRegistry` is the refinement: a
machine's row is the `hosts` rows its agents rows point to.

**Fleet** has the requests of administrators statement by statement (`ops`) and one
checkin per agent (`checkin`), handler step by handler step: `Admit` (which
acknowledges), `ReadAgent`, `Reply` or `ReplyBare`, `Receive`, with the agent's version
in memory (`known`) and on disk (`saved`). A pushed config is free-form JSON that `GetAgentByID`
decodes into an `AgentConfig`, ignoring errors (`Decoded`).

Words used everywhere: a *mutant* is an operator that stands before the definition it
alters and shows the bug a property is there for; no specification uses it.

## 3. The runs

Passing:

| Run | Bounds | What it shows |
|---|---|---|
| `delivery_faults` | 3 items, 3 batches, 2 requests alive, 2 attempts, spool of one batch, all faults | `AtMostOnce`, `Durable`, `InOrder`, `Mirrored`, `DecommissionCutsOff` |
| `delivery_lossless` | 3 batches, spool larger than that; no failing push; a host with an old row; fair agent and server | `CurrentWhenDrained`, `ObservedIsListed`, `FullSnapshotReconciles`, that Delivery implements Mirror, and `EventuallyIngested` |
| `ingest` | 2 hosts, 2 batches each, 3 handlers, 2 connections, 1 fault; agents agree on verdicts | `SingleWriter`, `AcceptedIsIngested`, `Deduped`, `CatalogKept`, that IngestTx implements AtomicIngest, `EventuallyAccepted`; `UnsignedAsObserved` and `SprawlAsObserved` of the reports |
| `collection` | 2 processes of one executable, 1 or 2 slots, 2 events of the machine | `CacheSound`, `SteadyIsListed`, `StateIsSent`, `CollectionEnds` |
| `enrollment` | 2 machines, 3 enrollments | `KeyFits`, `Registered`, `HostIsMachine`, that Enrollment implements Registry, `RunsOrBroken` |
| `fleet` | 1 agent, 2 administrators' requests, one with a payload that decodes to nothing, 1 user name | `CurrentConfigSent`, `AuditIsTrue`, `DecommissionedHearsNothing`, `LearnsConfig`, `Delivered` |

Runs that find what the code does against what it says:

| Run | The disagreement |
|---|---|
| `delivery_gzip` | `transport.Post` sends gzip bodies and the server decodes them as they are: every request of an agent that gets past the certificate check is answered 400, and the spool never empties, although "Batches survive server outages and are replayed on reconnect" |
| `delivery_empty_source` | a full snapshot reconciles only the sources it has an upsert of, although it should "remove rows not in this payload": with no process list old running rows stay |
| `delivery_same_hash` | the catalog row of a running executable is its sha256, the agent's key also the file name: when one of two copies stops, the row of the other is deleted, although the key "uniquely identifies a software observation" |
| `delivery_zombie` | the cap drops a batch whose request is alive; it is ingested after a newer full snapshot and undoes it, although "replays are safe" |
| `reports_dormant` | `DormantSoftware` compares the catalog row of a package with those of executables, which are never the same: a package is listed while its program runs, although the report is of software "installed but never seen running" |
| `enrollment_torn` | a crash in `StoreCerts` leaves an agent that counts as enrolled and can never build its TLS configuration |

Because of the first, the other Delivery runs and the Fleet run take
`BodyEncoding = "identity"`: they show the protocol as it is once server and agent
agree on the encoding. With `"gzip"` the server-side safety properties hold because
nothing is ever ingested.

### Bounds, and why they are enough

- *Delivery*. Three batches: a full snapshot and two deltas, or snapshots before
  and after a restart, with one batch dropped between them; `delivery_zombie` needs
  four. Two live requests are one that the agent awaits and one it gave up, which
  is what retries, replays and late handlers come down to. Two attempts stand for
  five: the first, the last, and the step between. Two running items and one
  package, three attribute values in two places: an item can appear, vanish, move, or change
  its verdict in its place, in two sources. The spool of one batch makes the cap strike at every push; `delivery_lossless`
  has a spool that is never full, and an item that appears or vanishes while another
  changes; its question about liveness is the retries.
- *Ingest*. Two hosts that take two catalog rows in opposite order are the smallest
  deadlock, and the third handler is a retry that meets the first one of its batch. A pool of two is
  exhausted by two transactions. The batches are a full snapshot of each host, a full snapshot after a
  restart that drops an item, and a delta with a changed attribute and a remove; one name has two
  builds, one signed. One fault is a timeout (whose handler goes on), a failing statement or
  a commit that is reported as failed; the inductive invariant was checked with two.
- *Collection*. The workers meet on one path, the only way in which they share
  state, each with a slot of the semaphore or one waiting for the other's; two events of the machine are a change and a change back, or a change and
  an exit; one collection may follow another, and a crash may come between.
- *Enrollment*. Three numbers for enrollments: two machines at once, and one of
  them again. A fault needs a number to spare for each machine (`FaultsMayHappen`),
  which is how faults come to an end; an enrollment that is refused for its
  serial number gives its number back.
- *Fleet*. Two requests are what it takes to interleave; each may be any of the kinds,
  of the agent, or of one that does not exist (`Ghost`).

`CHECK_DEADLOCK FALSE` is set for Enrollment (an agent that runs and no faults
left: nothing happens any more), Fleet (the same, and both requests are done) and IngestTx
(every spool is empty).
Delivery's and Collection's models do not stop.

### Fairness

- Delivery: the agent's service manager restarts it, its tickers keep firing and its loop
  goes on (WF of `Start`, `PostHead`, `Retry` and of error answers); handlers go on (WF of
  `Handle`), so that an awaited request is answered unless it times out. Strong fairness of `Admit`,
  `CheckSeen`, `Ingest` and of a successful acknowledgement: the network and the
  database do not strike at the same place every time. Nothing is assumed of
  crashes, collections or of the order of steps.
- IngestTx: agents post again (WF of `Send`) and handlers go on (WF of `Handle`); strong fairness
  only of the deltas after a transaction's first. It stands for the queue of a row lock: PostgreSQL gives
  a lock to one that waits for it, not to one that asks later, so a transaction that holds
  locks is not passed over for ever by new ones. Nothing is assumed of faults, and with that little every deadlock
  is followed by progress.
- Collection: only that goroutines which can go on do so, and that the collector does
  (WF of `Worker(p)` and `Finish`). Nothing is assumed of the machine.
- Enrollment and Fleet: the service manager restarts the agent (WF of `Boot`), the
  steps of a process that runs are taken (WF), and a fault does not strike at the
  same place every time (SF of a request and of its answer). In Fleet the request
  handler of the administrator has no fairness: nothing depends on its going on.
  Fleet also needs SF of receiving an answer *with commands*: an answer without them
  (`PendingCommands` failed, and the handler ignores its error) may not be the only one
  that ever arrives.

## 4. What is proved

TLAPS checks, for any items, number of batches, requests, hosts, handlers, connections,
machines, agents, processes, paths and faults:

| Module | Theorem | Property |
|---|---|---|
| DeliveryProofs | `TypeCorrect`, `IngestedAtMostOnce`, `NothingForgotten`, `IngestedInOrder` | `TypeOK`, `AtMostOnce`, `Durable`, `InOrder` |
| DeliveryProofs | `ServerMirrorsAgent` | `Mirrored`, where `DistinctRows` holds |
| MirrorProofs | `DrainedIsCurrent`, `DrainedIsListed` | `CurrentWhenDrained`, `ObservedIsListed`, where `DistinctRows` holds |
| MirrorProofs | `DeliveryImplementsMirror` | `ImplementsMirror`, where `DistinctRows` and `Lossless` hold |
| MirrorProofs | `SnapshotReplacesRows` | `FullSnapshotReconciles`, where `EverySource` holds |
| MirrorProofs | `SnapshotHeals` | `FullSnapshotHeals` while no lost batch is in the ledger, where `DistinctRows` holds |
| MirrorProofs | `DecommissionIsFinal` | `DecommissionCutsOff` |
| IngestTxProofs | `TypeCorrect`, `OneWriterPerHost`, `AcceptedOnlyIngested`, `CatalogDeduped` | `TypeOK` with the pool's limit, `SingleWriter`, `AcceptedIsIngested`, `Deduped` |
| IngestTxProofs | `CatalogIsKept` | `CatalogKept` |
| IngestTxProofs | `NoDanglingRow` | `Referenced`: the reports' join drops no row |
| ReportsProofs | `IngestIsAtomic` | `ImplementsAtomicIngest`, where `DiffOrder` and `VerdictsAgree` hold |
| ReportsProofs | `HostReportIsInventory` | `ReportsShow`: every host report shows its host's last inventory, place and verdict, where `Conditions` and `VerdictsAgree` hold |
| ReportsProofs | `PlacesFollow` | `PlacesAsIngested`: the same of path and user alone, where `Conditions` hold, whatever becomes of verdicts |
| ReportsProofs | `UnsignedFollows`, `SprawlFollows` | `UnsignedAsIngested`, `SprawlAsIngested`: what the two reports say at any moment, where `Conditions` and `VerdictsAgree` (`KeysName`) hold |
| ReportsProofs | `UnsignedIsObserved`, `SprawlIsObserved` | `UnsignedAsObserved`, `SprawlAsObserved`, under the same |
| ReportsProofs | `DormantIsInstalled` | `DormantAsIngested`: the dormant report lists every installed package, where `Conditions` and `RunningApart` hold |
| EnrollmentProofs | `EnrollmentImplementsRegistry` | `ImplementsRegistry`, where `OwnSignals` holds |
| EnrollmentProofs | `MachinesKeptApart` | `HostIsMachine`, where `OwnSignals` holds |
| EnrollmentProofs | `TypeCorrect`, `CertificateFitsKey`, `CertificateRegistered` | `TypeOK`, `KeyFits`, `Registered` |
| FleetProofs | `TypeCorrect`, `VersionNamesConfig`, `AuditTellsTheTruth` | `TypeOK`, `CurrentConfigSent`, `AuditIsTrue` |
| FleetProofs | `DecommissionIsFinal` | `DecommissionedHearsNothing` |
| CollectionProofs | `TypeCorrect`, `CacheIsSound`, `NothingSteadyMissed` | `TypeOK`, `CacheSound`, `SteadyIsListed` |
| CollectionProofs | `StateWasSent` | `StateIsSent`, where file names tell paths apart |

The assumptions are the named ASSUMEs of the modules (finite sets, types, markers that
are not values) and the conditions in the table. Without `DistinctRows`, and where a collector
has nothing of a source, TLC refutes the property (`delivery_same_hash`,
`delivery_empty_source`); for file names see section 6. `Lossless` says that no push fails, that the
spool's cap holds all batches, and that every collection has something of each source (`EverySource`, which
is all that `SnapshotReplacesRows` asks). `OwnSignals` says
that no two machines share a signal and each always reports its serial number; without the latter, two enrollments of one machine
that overlap insert two hosts, and no index stops them.

The conditions on what the spools of IngestTx hold, in Reports: `DiffOrder` is what `Diff` and the payload's order give
(no identity is upserted twice, removals come last); `PayloadsChained` that each payload is the difference between the agent's
successive inventories, as Delivery's `Chained` proves of the batches an agent builds; `SnapshotsCover` that a full snapshot has
something of each source the inventory before it had. `Conditions` are these three with `DistinctRows`. `VerdictsAgree` says that all
agents give one verdict to what shares a catalog row (section 6 says what happens otherwise), `KeysName` that what shares one
has one name and version, `RunningApart` that executables and packages share none, which holds as long as executables have a hash.
They are not vacuous: MCIngest's fleet satisfies all of them, and assumes so, so that TLC evaluates them. The arguments:

- *Delivery*. None of the properties is inductive alone. `InOrder` needs that nothing
  behind the spool's head was ever sent (`Frontier`), that the spool is ascending
  (`SpoolInOrder`) and that the agent awaits an answer for its head (`Control`); `Durable`
  needs that a 200 means a recorded batch (`Answered`), or an acknowledgement could drop
  one. `IInv` is their conjunction, with one lemma per action. `Mirrored` then rests on
  `Chained` (each delta is the difference between two successive inventories) and on two
  facts of InventoryProofs about `Diff` and `Applied`: a delta takes a table that shows the
  old inventory to one that shows the new (`DeltaApplied`), and a full snapshot takes
  any table there, for each source that occurs in it (`SnapshotApplied`).
- *Snapshots*. Three theorems about the host's rows turn findings round: `SnapshotReplacesRows`, `SnapshotHeals` and
  `DormantIsInstalled` have as hypotheses what `delivery_empty_source`, `delivery_zombie` and `reports_dormant` break or rest on, and show that
  nothing else can go wrong. (`delivery_lossless` checks `FullSnapshotReconciles` too: there every collector answers.) For `SnapshotHeals`, a batch that stands behind the newest one in the ledger was overtaken, and by
  `InOrder` only a lost one can be (`NewestIsLast`).
- *Mirror*. `InOrder` and `Durable` together say more while nothing is lost: the k-th batch that was ingested
  is the k-th that was built (`Sequential`), because what lies before the batch of a commit is neither behind it in
  the spool (`Frontier`) nor forgotten. A drained spool then means that the newest batch was ingested last, and
  `Mirrored` gives `CurrentWhenDrained`; `Listed` is its counterpart for what a snapshot without a source
  leaves. For the refinement `Complete`, `Collected` and `Current` say that each inventory of the history has something of
  every source, and the rows are that of the last one in the ledger; a commit is then Mirror's
  `Publish`, a collection its `Collect`, and every other step changes nothing Mirror sees. `DecommissionCutsOff` needs only
  the stages a request goes through.
- *IngestTx*. `SingleWriter` needs `Unpublished` (what a transaction recorded is in no committed
  ledger) and `Serving` (an awaited handler serves the head of its agent's spool): a second handler of one host
  can only be of the same batch, and that one waits. `Deduped` is about what several uncommitted transactions
  will make of the catalog: `Exclusive` (they write different keys), `EntriesFit` (what one writes under a
  key is the committed row of that key, if there is one) and `IdsNameKeys`. `Applying` says that a transaction
  has written nothing before its deltas, which is why ending one without a commit changes nothing. `CatalogKept` follows what a commit
  replaces: an entry with a committed row's id has its key (`IdsNameKeys`) and repeats its name and verdict (`EntriesRepeat`), because
  `upsertCatalog` had read it, and because of `Exclusive` no other transaction commits the key in between.
- *Reports*. The refinement needs to know what each delta has left in `tx`. `RowsPut` says that a transaction holds
  one row for each upsert no removal followed, `KeysTouched` that it touched the rows of its deltas and, once
  reconciled, others of the sources it has seen, `Reconciled` that none of those is left out - which stays true
  until the commit because of `SingleWriter`. `IdsAgree` turns the server's keys into the agent's: one id per key, in the
  tables and in every transaction. By the commit that is `Applied` of the batch, row by row (`CommitShows`), and the
  rows of all other hosts are as they were (`OthersShown`). What the reports say at any moment then needs no look at
  transactions any more. What an attribute a row of `host_software` was given would show (`Kept`) steps as AtomicIngest does without any
  condition on verdicts, so `RowsShow` (those rows are the host's last inventory) is kept, by the
  same `DeltaApplied` and `SnapshotApplied` that Delivery's `Mirrored` rests on. `RowsTold` (a row's verdict is one that some agent
  sent) turns rows of `software_catalog` back into what was observed; with `VerdictsAgree` it makes what the report shows equal to
  `Kept` (`ReportRowsKept`), which is where the refinement and `HostReportIsInventory` need that condition.
- *Collection*. `CacheSound` looks local and is not: an entry is written from what was
  seen several steps earlier. The strengthening is `ReadInTime` (a file that still has the
  mtime and inode seen before it was read is the one that was read) with `Dated`
  (nothing is newer than the clock, so that a change always gives a signature nobody
  has seen). `SteadyIsListed` adds `Truthful` (all workers and results agree on a file that
  stood still) and `Followed` (the worker of a steady process does not give it up); its
  last step is that the dedupe keeps the first result of a path, by well-founded induction.
- *Enrollment*. `Progress` says which files exist at each step of `doEnroll`, `Answered` that 200
  is only said of a committed row; `KeyFits` and `Registered` follow step by step. For `HostIsMachine`, `Identity` follows
  every enrollment from its lookup to its commit: the row it found is of its machine, and stays so while others commit.
  The refinement of Registry rests on the same lemma about a commit (`EnrollEffect`): it adds one agents row, to the hosts row of its
  machine, which is the one that the machine's earlier agents rows point to; every other step leaves both tables alone.
- *Fleet*. `AnswerFits` says that an answer under way pairs a version with the config read
  with it, and cannot be ahead of the row; `StatementsDone` says what a request
  has changed by the time its next statement runs, `PushesCounted` that an agent's version is above the number of pushes to it whose
  UPDATE is known to have been made, among which are the audited ones.

Only model-checked: all liveness (`EventuallyIngested`, `EventuallyAccepted`, `CollectionEnds`, `RunsOrBroken`,
`LearnsConfig`, `Delivered`), which is out of the prover's reach. Every invariant and action property of a passing
run is a theorem; the refinements are proved for the specifications without fairness, which are all that they speak of.

## 5. Abstractions

- *Delivery*. Batches are numbers in the order they were built; the spool's keys are such
  numbers in the code. The cap counts batches and drops as the bbolt release in
  `go.mod` makes it drop: `Bucket.Stats` does not see the deletes of the running transaction,
  so that the loop over the cap does not stop at the oldest entry. The first
  collection of a process is a full snapshot of both sources; each tick after it collects one of them
  (`Tick`), the other's state stays. `IngestBatch` is atomic (it is one transaction);
  what concurrent transactions do to each other on `software_catalog` and why one
  fails (`IngestFails`) is the subject of IngestTx. One host and one agent.
- *IngestTx*. What a spool holds is given from the start, and no cap drops any of it (Delivery has both). Rows of
  `host_software` need no locks because no two transactions write rows of one host (`SingleWriter`). The
  exception is the head that the cap drops while its request is alive, or a host that is enrolled again: their overlapping
  transactions are left out. A cancelled request is a statement that fails. Locks are those of the rows
  a transaction writes; the share locks of foreign keys are on rows nobody changes here. Of the catalog's columns
  `signed` stands for `signer` and `arch` too; timestamps are left out.
- *Reports*. A report is the set of its rows: its total, its pages (two statements, with ties left open by
  ORDER BY) and the search are left out. `UnsignedAsObserved` and `ImplementsAtomicIngest` take agents that agree on the verdict for a file.
- *Inventory*. An attribute stands for all that `observableChange` compares and the key does
  not contain: path, user and verdict. That `observableChange` ignores the install location is below this abstraction.
- *Collection*. All contents have one size, the case in which size cannot help. A write in
  place moves the mtime on: two writes within one tick of the file system's clock are
  left out, as no cache of this kind can tell them apart. Inode numbers are not reused. Files
  that exist are readable. A process whose file was replaced is reported under its old path, or
  under one marked as deleted, which is no file. `signatureOf` is left out.
- *Enrollment*. Tokens and requests are valid: an invalid one ends in `log.Fatalf` and changes
  nothing. A signal is a set, empty when it is not collected; the FQDN of a machine may
  fall back to its host name. The certificate, its key and the agent row are named by the
  enrollment they belong to.
- *Fleet*. Each agent has one checkin under way, as its loop has; an answer that is lost and
  the retry of `Post` are another checkin. Config payloads are named by the request that
  pushed them, and `Decoded` says what is left of each. Timestamps are left out. A server that dies between two statements is a
  statement that fails.

Not stated as properties, but what the models contain: the agent acts on no command, acknowledges
none and drops the config it is sent (`doCheckin`), so "delivered" means handed over, and every command stays pending. A decommissioned
agent is refused the checkin that would bring it the decommission command. An
error of `WriteAuditLog` is ignored, so that `AuditIsTrue` cannot be turned round. A lost answer to
an enrollment leaves an agent row that no key fits. Machines that report the same serial number,
FQDN or host name become one row of `hosts`; `enroll.go` calls the host name weak and accepts it, and
`HostIsMachine` is checked for machines whose signals are their own. A configuration file is not merged
with the defaults: without `hash_concurrency` the collection blocks, without intervals `NewTicker` panics;
the models assume the values that `Defaults` gives.

## 6. Findings

The six runs with an expected violation are described in section 3 and, with their lines and the
text they contradict, in `PROJECT.json`. They are disagreements between the code and its own comments,
each with a trace of a few steps of legal inputs.

Two more things that the code does and that no comment of the repository contradicts:

- Two running copies of one file (same name and hash, two directories) have one `delta.Key`. `Diff` sends the copy that
  differs from the old state and keeps the last one of the list, whose order is that in which the workers finished, so the row at the
  server may name a path that the agent takes for reported otherwise. `StateIsSent` is checked, and proved, where file names
  tell paths apart.
- `upsertCatalog` never updates `signed`, `signer`, `name` or `version` of a row that is there. The verdict of the first agent that
  reported a file stays, and the delta that an agent sends because its verdict changed has no effect on it: neither on the unsigned
  report nor on the columns `signed` and `signer` of any host report. No later batch corrects it, a full snapshot included; the model has this
  (`UpsertCatalog`, `ColumnsShown`), and without `VerdictsAgree` TLC refutes `ImplementsAtomicIngest`.

## 7. The plan

Order of the modules, the most important behaviour first:

1. Inventory, Mirror, Delivery with proofs - done.
2. Enrollment and Registry with proofs - done.
3. Fleet with proofs - done.
4. Collection (process collector, hash cache, Diff over a list) with proofs - done.
5. IngestTx, AtomicIngest: `IngestBatch` statement by statement for several hosts, with proofs of its safety - done.
6. Reports over its tables, with proofs of what they say - done but for paging, search, `SoftwareHosts` and `SoftwareCatalogSearch`.
7. Next: the life of an agent's loop as a whole (checkin, heartbeat, collection and drain share one
   goroutine: a drain that retries for minutes delays the others), and the catalog's columns where agents disagree.

Theorems to prove next: that the batches which Delivery builds satisfy what Reports assumes of payloads (`DiffOrder`, `PayloadsChained`),
so that the two levels join without a condition between them; and what remains of Collection's `StateWasSent` where file names repeat.

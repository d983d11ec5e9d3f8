----------------------------- MODULE Collection -----------------------------
(***************************************************************************)
(* How the agent observes running executables: RunningProcesses with its   *)
(* pool of workers (collect/process.go), each of which asks the hash cache *)
(* (hashcache/hashcache.go), and Diff over the list they return            *)
(* (delta/delta.go), while processes come and go and files change.         *)
(*                                                                         *)
(* A file is its content's hash with its mtime and inode; all contents     *)
(* have one size, the case in which the size cannot tell them apart.       *)
(***************************************************************************)
EXTENDS Naturals, Sequences, FiniteSets

CONSTANTS
  Processes,
  Paths,       \* paths of executables
  Deleted,     \* the path reported of a process whose file is gone: no file
  ExeOf,       \* [Processes -> Paths]: the file a process is started from
  UserOf,      \* [Processes -> Users]
  NameOf,      \* [Paths -> Names]: filepath.Base
  Users, Names,
  Contents,    \* hashes of file contents
  Originals,   \* those that files have at first
  Mixed,       \* the hash of a file that was read while it was rewritten
  NoHash,      \* ""
  NoUser,      \* no owning user
  NoDelta,     \* no value
  Concurrencies, \* the values hash_concurrency may have
  MaxClock,    \* bound on the events of the machine
  Faults       \* which of the faults below may happen

ASSUME CollectionAssumption ==
  /\ IsFiniteSet(Processes)
  /\ Deleted \in Paths
  /\ ExeOf \in [Processes -> Paths \ {Deleted}]
  /\ UserOf \in [Processes -> Users]
  /\ NameOf \in [Paths -> Names]
  /\ Originals \subseteq Contents
  /\ NoHash \notin Contents \cup {Mixed}
  /\ Concurrencies \subseteq Nat \ {0}
  /\ Faults \subseteq {"list", "user", "db", "crash"}

Hashes == Contents \cup {Mixed, NoHash}
Delta == [path : Paths, user : Users \cup {NoUser}, hash : Hashes]
ASSUME NoDeltaAssumption == NoDelta \notin Delta

VARIABLES
  clock,   \* number of events of the machine; the source of new mtimes and inodes
  disk,    \* the file at each path
  slots,   \* hash_concurrency of this agent: the capacity of sem
  running, \* of each process: "no", "yes", or "orphan" (its file was replaced)
  cache,   \* the hash cache's Entry per path, which survives restarts
  phase,   \* "down", "idle" or "collecting"
  work,    \* the worker of each listed process
  results, \* resultCh
  state,   \* the agent's delta.State of running executables
  sent,    \* history: what the deltas sent since the start amount to
  steady   \* history: the processes listed that nothing has happened to since

envVars == <<clock, disk, running, slots>>
vars == <<envVars, cache, phase, work, results, state, sent, steady>>

File == [hash : Hashes, mtime : Nat, inode : Nat]
Gone == [hash |-> NoHash, mtime |-> 0, inode |-> 0]  \* also an empty Entry

Stages == {"none", "queued", "stat", "inode", "lookup", "reading", "store",
           "send", "done"}
Work == [stage : Stages, path : Paths, user : Users \cup {NoUser},
         mtime : Nat, inode : Nat, file : File, hash : Hashes]
NoWork == [stage |-> "none", path |-> Deleted, user |-> NoUser,
           mtime |-> 0, inode |-> 0, file |-> Gone, hash |-> NoHash]
Finished == [NoWork EXCEPT !.stage = "done"]

Keys == Names \X Hashes
KeyOf(d) == <<NameOf[d.path], d.hash>>
NoState == [k \in Keys |-> NoDelta]

Listed == {p \in Processes : work[p].stage # "none"}
Busy == {p \in Processes : work[p].stage \notin {"none", "queued", "done"}}

TypeOK ==
  /\ clock \in Nat \ {0}
  /\ disk \in [Paths -> File] /\ disk[Deleted] = Gone
  /\ running \in [Processes -> {"no", "yes", "orphan"}]
  /\ slots \in Concurrencies
  /\ cache \in [Paths -> File]
  /\ phase \in {"down", "idle", "collecting"}
  /\ work \in [Processes -> Work]
  /\ Cardinality(Busy) <= slots
  /\ results \in Seq(Delta)
  /\ state \in [Keys -> Delta \cup {NoDelta}]
  /\ sent \in [Keys -> Delta \cup {NoDelta}]
  /\ steady \subseteq Processes

\* Each path but Deleted has a file, with an mtime and an inode from 1 on.
Init ==
  /\ clock = 1
  /\ disk \in {d \in [Paths -> {Gone} \cup [hash : Originals, mtime : {1}, inode : {1}]] :
                 \A x \in Paths : d[x] = Gone <=> x = Deleted}
  /\ running \in [Processes -> {"no", "yes"}]
  /\ slots \in Concurrencies
  /\ cache = [x \in Paths |-> Gone]
  /\ phase = "down"
  /\ work = [p \in Processes |-> NoWork]
  /\ results = <<>>
  /\ state = NoState /\ sent = NoState
  /\ steady = {}

-----------------------------------------------------------------------------
(* The machine around the agent. *)

Start(p) ==
  /\ clock < MaxClock /\ clock' = clock + 1
  /\ running[p] = "no" /\ disk[ExeOf[p]] # Gone
  /\ running' = [running EXCEPT ![p] = "yes"]
  /\ UNCHANGED <<disk, slots, cache, phase, work, results, state, sent, steady>>

Exit(p) ==
  /\ clock < MaxClock /\ clock' = clock + 1
  /\ running[p] # "no"
  /\ running' = [running EXCEPT ![p] = "no"]
  /\ steady' = steady \ {p}
  /\ UNCHANGED <<disk, slots, cache, phase, work, results, state, sent>>

\* The processes of x are no longer steady after a change of x.
Disturb(x) == steady' = {p \in steady : ExeOf[p] # x}

Orphan(x) == running' = [p \in Processes |->
               IF ExeOf[p] = x /\ running[p] = "yes" THEN "orphan" ELSE running[p]]

\* Written in place: the inode stays and the mtime moves on.
Rewrite(x) ==
  /\ clock < MaxClock /\ clock' = clock + 1
  /\ disk[x] # Gone
  /\ \E h \in Contents :
        disk' = [disk EXCEPT ![x].hash = h, ![x].mtime = clock + 1]
  /\ Disturb(x)
  /\ UNCHANGED <<running, slots, cache, phase, work, results, state, sent>>

\* Created, or replaced by rename: a new inode, and an mtime that may be old.
Replace(x) ==
  /\ clock < MaxClock /\ clock' = clock + 1
  /\ x # Deleted
  /\ \E h \in Contents, t \in 1 .. clock + 1 :
        disk' = [disk EXCEPT ![x] = [hash |-> h, mtime |-> t, inode |-> clock + 1]]
  /\ Disturb(x) /\ Orphan(x)
  /\ UNCHANGED <<slots, cache, phase, work, results, state, sent>>

Remove(x) ==
  /\ clock < MaxClock /\ clock' = clock + 1
  /\ disk[x] # Gone
  /\ disk' = [disk EXCEPT ![x] = Gone]
  /\ Disturb(x) /\ Orphan(x)
  /\ UNCHANGED <<slots, cache, phase, work, results, state, sent>>

-----------------------------------------------------------------------------
(* RunningProcesses and Diff. *)

Boot ==
  /\ phase = "down"
  /\ phase' = "idle"
  /\ state' = NoState /\ sent' = NoState
  /\ UNCHANGED <<envVars, cache, work, results, steady>>

Begin ==
  /\ phase = "idle"
  /\ phase' = "collecting"
  /\ work' = [p \in Processes |->
                IF running[p] = "no" THEN NoWork
                                     ELSE [NoWork EXCEPT !.stage = "queued"]]
  /\ steady' = {p \in Processes : running[p] = "yes"}
  /\ UNCHANGED <<envVars, cache, results, state, sent>>

\* ProcessesWithContext fails: nil, for which Diff removes everything.
ListFails ==
  /\ "list" \in Faults
  /\ phase = "idle"
  /\ state' = NoState /\ sent' = NoState
  /\ UNCHANGED <<envVars, cache, phase, work, results, steady>>

\* Dedupe by path: the first result of each path, in order of arrival.
Kept == {n \in DOMAIN results :
           \A m \in DOMAIN results : m < n => results[m].path # results[n].path}

\* The results that Diff sees under k.
Under(k) == {n \in Kept : KeyOf(results[n]) = k}

Greatest(S) == CHOOSE n \in S : \A m \in S : m <= n
LastOf(S, default) == IF S = {} THEN default ELSE results[Greatest(S)]

\* Mutant: observableChange is not asked, only new keys are sent.
NewKeys(k) == {n \in Under(k) : state[k] = NoDelta}

\* Each result is compared with the last state, not with the next one.
Upserts(k) == {n \in Under(k) : state[k] # results[n]}

Finish ==
  /\ phase = "collecting"
  /\ \A p \in Listed : work[p].stage = "done"
  /\ phase' = "idle"
  /\ work' = [p \in Processes |-> NoWork]
  /\ results' = <<>> /\ steady' = {}
  /\ state' = [k \in Keys |-> LastOf(Under(k), NoDelta)]
  /\ sent' = [k \in Keys |-> IF Under(k) = {} THEN NoDelta
                                              ELSE LastOf(Upserts(k), sent[k])]
  /\ UNCHANGED <<envVars, cache>>

Crash ==
  /\ "crash" \in Faults
  /\ phase # "down"
  /\ phase' = "down"
  /\ work' = [p \in Processes |-> NoWork]
  /\ results' = <<>>
  /\ state' = NoState /\ sent' = NoState
  /\ steady' = {}
  /\ UNCHANGED <<envVars, cache>>

-----------------------------------------------------------------------------
(* A worker: one process, one Get of the hash cache. *)

\* The worker of p takes the step from stage to w.
Move(p, stage, w) ==
  /\ work[p].stage = stage
  /\ work' = [work EXCEPT ![p] = w]
  /\ UNCHANGED <<envVars, phase, state, sent, steady>>

\* The worker has the path and the user of its process.
Taken(path, user) == [NoWork EXCEPT !.stage = "stat", !.path = path, !.user = user]

\* Mutant: the error of ExeWithContext is not looked at.
TakeUnchecked(p) ==
  /\ Cardinality(Busy) < slots
  /\ Move(p, "queued", Taken(IF running[p] = "no" THEN "" ELSE ExeOf[p], UserOf[p]))
  /\ UNCHANGED <<cache, results>>

\* A slot of the semaphore, then the path and the user; a process that is gone
\* has no path, and one that is just going has no user.
Take(p) ==
  /\ Cardinality(Busy) < slots
  /\ \/ /\ running[p] = "no"
        /\ Move(p, "queued", Finished)
     \/ /\ running[p] # "no"
        /\ \E user \in {UserOf[p]} \cup IF "user" \in Faults THEN {NoUser} ELSE {},
              path \in IF running[p] = "orphan" THEN {ExeOf[p], Deleted} ELSE {ExeOf[p]} :
             Move(p, "queued", Taken(path, user))
  /\ UNCHANGED <<cache, results>>

\* Get has its answer.
Sending(p, h) == [NoWork EXCEPT !.stage = "send", !.path = work[p].path,
                                !.user = work[p].user, !.hash = h]

Stat(p) ==
  LET file == disk[work[p].path]
  IN /\ Move(p, "stat", IF file = Gone THEN Sending(p, NoHash)
                        ELSE [work[p] EXCEPT !.stage = "inode", !.mtime = file.mtime])
     /\ UNCHANGED <<cache, results>>

\* A second stat, of a file that may be another one by now; 0 if there is none.
Inode(p) ==
  /\ Move(p, "inode", [work[p] EXCEPT !.stage = "lookup",
                                      !.inode = disk[work[p].path].inode])
  /\ UNCHANGED <<cache, results>>

\* entry is not the empty one, and has this mtime and inode.
Fits(entry, mtime, inode) ==
  entry.hash # NoHash /\ entry.mtime = mtime /\ entry.inode = inode

\* Mutant: an entry is valid if path and size are the same.
LookupBySize(p) ==
  LET w == work[p]
      file == disk[w.path]
      hit == cache[w.path].hash # NoHash
  IN /\ \/ hit /\ Move(p, "lookup", Sending(p, cache[w.path].hash))
        \/ ~hit /\ file = Gone /\ Move(p, "lookup", Sending(p, NoHash))
        \/ /\ ~hit /\ file # Gone
           /\ Move(p, "lookup", [w EXCEPT !.stage = "reading", !.file = file])
     /\ UNCHANGED <<cache, results>>

\* The hash of a valid entry, or the file is opened.
Lookup(p) ==
  LET w == work[p]
      file == disk[w.path]
      hit == Fits(cache[w.path], w.mtime, w.inode)
  IN /\ \/ hit /\ Move(p, "lookup", Sending(p, cache[w.path].hash))
        \/ ~hit /\ file = Gone /\ Move(p, "lookup", Sending(p, NoHash))
        \/ /\ ~hit /\ file # Gone
           /\ Move(p, "lookup", [w EXCEPT !.stage = "reading", !.file = file])
     /\ UNCHANGED <<cache, results>>

\* What io.Copy of an open file gives, which others may have written to since.
ReadOf(p) ==
  LET file == work[p].file
      now == disk[work[p].path]
  IN IF now.inode = file.inode /\ now # file THEN {file.hash, now.hash, Mixed}
                                             ELSE {file.hash}

Read(p) ==
  /\ \E h \in ReadOf(p) :
        Move(p, "reading", [work[p] EXCEPT !.stage = "store", !.file = Gone, !.hash = h])
  /\ UNCHANGED <<cache, results>>

\* Mutant: the file is looked at again for its entry.
StoreFresh(p) ==
  LET w == work[p]
      entry == [disk[w.path] EXCEPT !.hash = w.hash]
  IN /\ Move(p, "store", Sending(p, w.hash))
     /\ \/ cache' = [cache EXCEPT ![w.path] = entry]
        \/ "db" \in Faults /\ UNCHANGED cache
     /\ UNCHANGED results

\* The entry for what was looked at before; an error of the update is ignored.
Store(p) ==
  LET w == work[p]
      entry == [hash |-> w.hash, mtime |-> w.mtime, inode |-> w.inode]
  IN /\ Move(p, "store", Sending(p, w.hash))
     /\ \/ cache' = [cache EXCEPT ![w.path] = entry]
        \/ "db" \in Faults /\ UNCHANGED cache
     /\ UNCHANGED results

\* Mutant: make(chan result, 1).
BufferOfOne == 1

\* The buffer of resultCh, which nobody empties before all workers are done.
Capacity == Cardinality(Listed)

Send(p) ==
  /\ Len(results) < Capacity
  /\ Move(p, "send", Finished)
  /\ results' = Append(results, [path |-> work[p].path, user |-> work[p].user,
                                 hash |-> work[p].hash])
  /\ UNCHANGED cache

-----------------------------------------------------------------------------

Machine ==
  \/ \E p \in Processes : Start(p) \/ Exit(p)
  \/ \E x \in Paths : Rewrite(x) \/ Replace(x) \/ Remove(x)

Worker(p) ==
  Take(p) \/ Stat(p) \/ Inode(p) \/ Lookup(p) \/ Read(p) \/ Store(p) \/ Send(p)

Next ==
  \/ Machine
  \/ Boot \/ Begin \/ ListFails \/ Finish \/ Crash
  \/ \E p \in Processes : Worker(p)

Spec == Init /\ [][Next]_vars

\* Goroutines that can go on do so.
Fairness == WF_vars(Finish) /\ \A p \in Processes : WF_vars(Worker(p))

FairSpec == Spec /\ Fairness
-----------------------------------------------------------------------------
(* Safety. *)

\* The hash cache never answers with the hash of another content: an entry that
\* fits a file is the hash of that file, although file and cache are looked at,
\* read and written at different times, by several workers.
CacheSound ==
  \A x \in Paths :
    Fits(cache[x], disk[x].mtime, disk[x].inode) => cache[x].hash = disk[x].hash

\* What RunningProcesses returns has every process that was listed and that
\* nothing happened to since, with the hash of its file, whatever happened to
\* the others.
SteadyIsListed ==
  [][phase = "collecting" /\ phase' = "idle" =>
       \A p \in steady :
         state'[<<NameOf[ExeOf[p]], disk[ExeOf[p]].hash>>] # NoDelta]_vars

\* State is what the deltas sent so far amount to, key by key.
StateIsSent == state = sent

(* The inductive invariants behind them. *)

\* Nothing is newer than the clock, and only a missing file has mtime 0.
Dated ==
  /\ \A x \in Paths :
       /\ disk[x].mtime <= clock /\ disk[x].inode <= clock
       /\ disk[x] # Gone => disk[x].mtime > 0
       /\ cache[x].mtime <= clock /\ cache[x].inode <= clock
       /\ cache[x].hash # NoHash => cache[x].mtime > 0
  /\ \A p \in Processes :
       /\ work[p].mtime <= clock /\ work[p].inode <= clock
       /\ work[p].stage \in {"inode", "lookup", "reading", "store"} => work[p].mtime > 0

\* What the worker of p has seen of a file is still so.
UpToDate(p) == /\ work[p].mtime = disk[work[p].path].mtime
               /\ work[p].inode = disk[work[p].path].inode

\* A file that has still the mtime and inode that were seen before it was read
\* is the one that was read.
ReadInTime ==
  \A p \in Processes :
    UpToDate(p) =>
      /\ work[p].stage = "reading" => work[p].file = disk[work[p].path]
      /\ work[p].stage = "store" => work[p].hash = disk[work[p].path].hash

CacheInv == TypeOK /\ Dated /\ ReadInTime /\ CacheSound

\* Whatever a worker has of a file that is steady is up to date.
Truthful ==
  \A p \in steady :
    /\ \A q \in Processes :
         work[q].path = ExeOf[p] =>
           /\ work[q].stage = "inode" => work[q].mtime = disk[ExeOf[p]].mtime
           /\ work[q].stage \in {"lookup", "reading", "store"} => UpToDate(q)
           /\ work[q].stage = "send" => work[q].hash = disk[ExeOf[p]].hash
    /\ \A n \in DOMAIN results :
         results[n].path = ExeOf[p] => results[n].hash = disk[ExeOf[p]].hash

\* The worker of a steady process does not give it up.
Followed ==
  /\ \A p \in Processes : running[p] = "yes" => disk[ExeOf[p]] # Gone
  /\ \A p \in steady :
       /\ running[p] = "yes" /\ work[p].stage # "none"
       /\ p \in Busy => work[p].path = ExeOf[p]
       /\ work[p].stage = "done" => \E n \in DOMAIN results : results[n].path = ExeOf[p]

\* Between collections there is nothing of one.
Resting == phase # "collecting" =>
             results = <<>> /\ steady = {} /\ \A p \in Processes : work[p] = NoWork

SteadyInv == CacheInv /\ Truthful /\ Followed /\ Resting

(* Liveness, under FairSpec. *)

\* A collection ends: no worker waits for ever for a slot or for resultCh.
CollectionEnds == phase = "collecting" ~> phase # "collecting"
=============================================================================

-------------------------- MODULE CollectionProofs --------------------------
(***************************************************************************)
(* Proofs about Collection, for any number of processes, workers and files *)
(* and any number of changes to them: the hash cache is sound, and a       *)
(* collection misses no process that nothing happened to.                  *)
(***************************************************************************)
EXTENDS Collection, FiniteSetTheorems, WellFoundedInduction, TLAPS

USE DEF Stages

LEMMA GoneTyped == Gone \in File
BY DEF Gone, File, Hashes

LEMMA NoWorkTyped == NoWork \in Work /\ Finished \in Work
BY GoneTyped, CollectionAssumption DEF NoWork, Finished, Work, Hashes

LEMMA NoStateTyped == NoState \in [Keys -> Delta \cup {NoDelta}]
BY DEF NoState

LEMMA BusyFinite == IsFiniteSet(Busy) /\ Cardinality(Busy) \in Nat
BY CollectionAssumption, FS_Subset, FS_CardinalityType DEF Busy

\* The semaphore: only Take adds to the busy workers, and only when one is free.
LEMMA BusyBounded ==
  ASSUME TypeOK, slots' = slots, NEW p \in Processes,
         Busy' \subseteq Busy \/ (Busy' = Busy \cup {p} /\ Cardinality(Busy) < slots)
  PROVE  Cardinality(Busy') <= slots'
<1>1. CASE Busy' \subseteq Busy
  <2>1. Cardinality(Busy') <= Cardinality(Busy)
    BY <1>1, BusyFinite, FS_Subset
  <2>2. IsFiniteSet(Busy') /\ Cardinality(Busy') \in Nat
    BY <1>1, BusyFinite, FS_Subset, FS_CardinalityType
  <2>3. QED BY <2>1, <2>2, BusyFinite, CollectionAssumption DEF TypeOK
<1>2. CASE Busy' = Busy \cup {p} /\ Cardinality(Busy) < slots
  <2>1. Cardinality(Busy') <= Cardinality(Busy) + 1 /\ Cardinality(Busy') \in Nat
    <3>1. Cardinality(Busy \cup {p}) =
            IF p \in Busy THEN Cardinality(Busy) ELSE Cardinality(Busy) + 1
      BY BusyFinite, FS_AddElement
    <3>2. QED BY <1>2, <3>1, BusyFinite
  <2>2. QED BY <1>2, <2>1, BusyFinite, CollectionAssumption DEF TypeOK
<1>3. QED BY <1>1, <1>2

LEMMA NobodyBusy ==
  ASSUME TypeOK, slots' = slots, Busy' = {}
  PROVE  Cardinality(Busy') <= slots'
BY FS_EmptySet, CollectionAssumption DEF TypeOK

-----------------------------------------------------------------------------
(* Type correctness. *)

LEMMA InitTyped == Init => TypeOK
<1> SUFFICES ASSUME Init PROVE TypeOK
  OBVIOUS
<1>1. disk \in [Paths -> File] /\ disk[Deleted] = Gone
  <2>1. {Gone} \cup [hash : Originals, mtime : {1}, inode : {1}] \subseteq File
    BY GoneTyped, CollectionAssumption DEF File, Hashes
  <2>2. QED BY <2>1, CollectionAssumption DEF Init
<1>2. Busy = {}
  BY DEF Init, Busy, NoWork
<1>3. Cardinality(Busy) <= slots
  BY <1>2, FS_EmptySet, CollectionAssumption DEF Init
<1>4. QED BY <1>1, <1>3, GoneTyped, NoWorkTyped, NoStateTyped DEF Init, TypeOK

LEMMA MachineTyped ==
  ASSUME TypeOK, Machine
  PROVE  TypeOK'
<1>1. UNCHANGED <<cache, phase, work, results, state, sent>>
  BY DEF Machine, Start, Exit, Rewrite, Replace, Remove
<1>2. UNCHANGED Busy
  BY <1>1 DEF Busy
<1>3. clock' = clock + 1
  BY DEF Machine, Start, Exit, Rewrite, Replace, Remove
<1>4. ASSUME NEW p \in Processes, Start(p) \/ Exit(p)
      PROVE  TypeOK'
  BY <1>1, <1>2, <1>3, <1>4 DEF TypeOK, Start, Exit
<1>5. ASSUME NEW x \in Paths, Rewrite(x) \/ Replace(x) \/ Remove(x)
      PROVE  TypeOK'
  <2>1. disk' \in [Paths -> File]
    <3>1. CASE Rewrite(x)
      <4>1. PICK h \in Contents :
              disk' = [disk EXCEPT ![x].hash = h, ![x].mtime = clock + 1]
        BY <3>1 DEF Rewrite
      <4>2. [disk[x] EXCEPT !.hash = h, !.mtime = clock + 1] \in File
        <5>1. disk[x] \in File /\ clock + 1 \in Nat
          BY DEF TypeOK
        <5>2. QED BY <4>1, <5>1 DEF File, Hashes
      <4>3. disk' = [disk EXCEPT ![x] = [disk[x] EXCEPT !.hash = h, !.mtime = clock + 1]]
        BY <4>1 DEF TypeOK
      <4>4. QED BY <4>2, <4>3 DEF TypeOK
    <3>2. CASE Replace(x)
      BY <3>2 DEF Replace, TypeOK, File, Hashes
    <3>3. CASE Remove(x)
      BY <3>3, GoneTyped DEF Remove, TypeOK
    <3>4. QED BY <1>5, <3>1, <3>2, <3>3
  <2>2. disk'[Deleted] = Gone
    BY <1>5, CollectionAssumption DEF TypeOK, Rewrite, Replace, Remove
  <2>3. running' \in [Processes -> {"no", "yes", "orphan"}] /\ steady' \subseteq Processes
    BY <1>5 DEF TypeOK, Rewrite, Replace, Remove, Orphan, Disturb
  <2>4. UNCHANGED slots
    BY <1>5 DEF Rewrite, Replace, Remove
  <2>5. QED BY <1>1, <1>2, <1>3, <2>1, <2>2, <2>3, <2>4 DEF TypeOK
<1>6. QED BY <1>4, <1>5 DEF Machine

\* The natural numbers are well-founded.
LEMMA SmallestOf ==
  ASSUME NEW S \in SUBSET Nat, S # {}
  PROVE  \E m \in S : \A k \in S : m <= k
<1> DEFINE R == {ss \in Nat \X Nat : ss[1] < ss[2]}
<1>1. IsWellFoundedOn(R, Nat)
  BY NatLessThanWellFounded DEF OpToRel
<1>2. \E m \in S : \A k \in S : ~ (<<k, m>> \in R)
  <2> HIDE DEF R
  <2>1. QED BY <1>1, WFMin
<1>3. PICK m \in S : \A k \in S : ~ (<<k, m>> \in R)
  BY <1>2
<1>4. \A k \in S : ~ (k < m)
  BY <1>3
<1>5. QED BY <1>4

\* A finite set of positions has a last one and a first one.
LEMMA GreatestIsLast ==
  ASSUME TypeOK, NEW S \in SUBSET (DOMAIN results), S # {}
  PROVE  Greatest(S) \in S /\ \A m \in S : m <= Greatest(S)
<1> DEFINE N == Len(results)
           T == {N - n : n \in S}
<1>1. N \in Nat /\ S \subseteq 1 .. N
  BY DEF TypeOK
<1>2. T \subseteq Nat /\ T # {}
  BY <1>1
<1>3. PICK t \in T : \A k \in T : t <= k
  <2> HIDE DEF T
  <2>1. QED BY <1>2, SmallestOf
<1>4. PICK n \in S : t = N - n
  BY <1>3
<1>5. \A m \in S : N - n <= N - m
  BY <1>3, <1>4
<1>6. \A m \in S : m <= n
  BY <1>1, <1>5
<1>7. QED BY <1>6 DEF Greatest

LEMMA FirstIsKept ==
  ASSUME TypeOK, NEW n \in DOMAIN results
  PROVE  \E m \in Kept : results[m].path = results[n].path
<1> DEFINE S == {m \in DOMAIN results : results[m].path = results[n].path}
<1>1. S \subseteq Nat /\ n \in S
  BY DEF TypeOK
<1>2. PICK m \in S : \A k \in S : m <= k
  <2> HIDE DEF S
  <2>1. QED BY <1>1, SmallestOf
<1>3. \A k \in DOMAIN results : k < m => results[k].path # results[m].path
  BY <1>1, <1>2 DEF TypeOK
<1>4. QED BY <1>2, <1>3 DEF Kept

LEMMA LastTyped ==
  ASSUME TypeOK, NEW S \in SUBSET (DOMAIN results), NEW d \in Delta \cup {NoDelta}
  PROVE  LastOf(S, d) \in Delta \cup {NoDelta} /\ (S # {} => LastOf(S, d) \in Delta)
<1>1. CASE S = {}
  BY <1>1 DEF LastOf
<1>2. CASE S # {}
  <2>1. results[Greatest(S)] \in Delta
    BY <1>2, GreatestIsLast DEF TypeOK
  <2>2. QED BY <1>2, <2>1 DEF LastOf
<1>3. QED BY <1>1, <1>2

LEMMA AgentTyped ==
  ASSUME TypeOK, Boot \/ Begin \/ ListFails \/ Finish \/ Crash
  PROVE  TypeOK'
<1>1. UNCHANGED <<envVars, cache>>
  BY DEF Boot, Begin, ListFails, Finish, Crash
<1>2. phase' \in {"down", "idle", "collecting"} /\ steady' \subseteq Processes
  BY DEF TypeOK, Boot, Begin, ListFails, Finish, Crash
<1>3. results' \in Seq(Delta)
  <2>1. UNCHANGED results \/ results' = <<>>
    BY DEF Boot, Begin, ListFails, Finish, Crash
  <2>2. <<>> \in Seq(Delta)
    OBVIOUS
  <2>3. results \in Seq(Delta)
    BY DEF TypeOK
  <2>4. QED BY <2>1, <2>2, <2>3
<1>4. work' \in [Processes -> Work] /\ Cardinality(Busy') <= slots'
  <2> slots' = slots
    BY <1>1 DEF envVars
  <2>1. CASE UNCHANGED work
    BY <2>1 DEF TypeOK, Busy
  <2>2. CASE Begin
    <3>1. [NoWork EXCEPT !.stage = "queued"] \in Work
      BY NoWorkTyped DEF Work
    <3>2. work' \in [Processes -> Work]
      BY <2>2, <3>1, NoWorkTyped DEF Begin
    <3>3. Busy' = {}
      BY <2>2 DEF Begin, Busy, NoWork
    <3>4. QED BY <3>2, <3>3, NobodyBusy
  <2>3. CASE Finish \/ Crash
    <3>1. work' = [p \in Processes |-> NoWork]
      BY <2>3 DEF Finish, Crash
    <3>2. Busy' = {}
      BY <3>1 DEF Busy, NoWork
    <3>3. QED BY <3>1, <3>2, NoWorkTyped, NobodyBusy
  <2>4. QED BY <2>1, <2>2, <2>3 DEF Boot, ListFails
<1>5. /\ state' \in [Keys -> Delta \cup {NoDelta}]
      /\ sent' \in [Keys -> Delta \cup {NoDelta}]
  <2>1. CASE Finish
    <3>1. ASSUME NEW k \in Keys
          PROVE  /\ LastOf(Under(k), NoDelta) \in Delta \cup {NoDelta}
                 /\ LastOf(Upserts(k), sent[k]) \in Delta \cup {NoDelta}
      <4>1. Under(k) \subseteq DOMAIN results /\ Upserts(k) \subseteq DOMAIN results
        BY DEF Under, Upserts, Kept
      <4>2. sent[k] \in Delta \cup {NoDelta}
        BY DEF TypeOK
      <4>3. QED BY <4>1, <4>2, LastTyped
    <3>2. QED BY <2>1, <3>1 DEF Finish
  <2>2. QED BY <2>1, NoStateTyped DEF TypeOK, Boot, Begin, ListFails, Crash
<1>6. QED BY <1>1, <1>2, <1>3, <1>4, <1>5 DEF TypeOK, envVars

\* A step of the worker of p: what it becomes, and that it keeps to the semaphore.
LEMMA MoveTyped ==
  ASSUME TypeOK, NEW p \in Processes, NEW s, NEW w \in Work, Move(p, s, w),
         \/ w.stage = "done"
         \/ s \notin {"none", "queued", "done"}
         \/ Cardinality(Busy) < slots
  PROVE  work' \in [Processes -> Work] /\ Cardinality(Busy') <= slots'
<1>1. work' = [work EXCEPT ![p] = w] /\ work[p].stage = s
  BY DEF Move
<1>2. work' \in [Processes -> Work]
  BY <1>1 DEF TypeOK
<1>3. Busy' \subseteq Busy \/ (Busy' = Busy \cup {p} /\ Cardinality(Busy) < slots)
  BY <1>1 DEF Busy, TypeOK
<1>4. slots' = slots
  BY DEF Move, envVars
<1>5. QED BY <1>2, <1>3, <1>4, BusyBounded

LEMMA SendingTyped ==
  ASSUME TypeOK, NEW p \in Processes, NEW h \in Hashes
  PROVE  Sending(p, h) \in Work /\ Sending(p, h).stage = "send"
<1>1. work[p] \in Work
  BY DEF TypeOK
<1>2. QED BY <1>1, NoWorkTyped DEF Sending, Work, NoWork

\* Every step of a worker is a Move to some w.
LEMMA WorkerMoves ==
  ASSUME TypeOK, NEW p \in Processes, Worker(p)
  PROVE  /\ \E s \in Stages, w \in Work :
              /\ Move(p, s, w)
              /\ \/ w.stage = "done"
                 \/ s \notin {"none", "queued", "done"}
                 \/ Cardinality(Busy) < slots
         /\ cache' \in [Paths -> File] /\ results' \in Seq(Delta)
<1> DEFINE w0 == work[p]
           Typed == /\ \E s \in Stages, w \in Work :
                         /\ Move(p, s, w)
                         /\ \/ w.stage = "done"
                            \/ s \notin {"none", "queued", "done"}
                            \/ Cardinality(Busy) < slots
                    /\ cache' \in [Paths -> File] /\ results' \in Seq(Delta)
<1>1. w0 \in Work /\ w0.path \in Paths
  BY DEF TypeOK, Work
<1>2. disk[w0.path] \in File /\ cache[w0.path] \in File
  BY <1>1 DEF TypeOK
<1>3. UNCHANGED cache => cache' \in [Paths -> File]
  BY DEF TypeOK
<1>4. UNCHANGED results => results' \in Seq(Delta)
  BY DEF TypeOK
<1>5. NoHash \in Hashes
  BY DEF Hashes
<1>6. CASE Take(p)
  <2>1. CASE running[p] = "no"
    BY <1>3, <1>4, <1>6, <2>1, NoWorkTyped DEF Take
  <2>2. CASE running[p] # "no"
    <3>1. PICK user \in {UserOf[p]} \cup IF "user" \in Faults THEN {NoUser} ELSE {},
               path \in IF running[p] = "orphan" THEN {ExeOf[p], Deleted} ELSE {ExeOf[p]} :
            Move(p, "queued", Taken(path, user))
      BY <1>6, <2>2 DEF Take
    <3>2. user \in Users \cup {NoUser} /\ path \in Paths
      BY CollectionAssumption
    <3>3. Taken(path, user) \in Work
      BY <3>2, NoWorkTyped DEF Work, NoWork, Taken
    <3>4. QED BY <1>3, <1>4, <1>6, <3>1, <3>3 DEF Take
  <2>3. QED BY <2>1, <2>2
<1>7. CASE Stat(p)
  <2>1. [w0 EXCEPT !.stage = "inode", !.mtime = disk[w0.path].mtime] \in Work
    BY <1>1, <1>2 DEF Work, File
  <2>2. QED BY <1>3, <1>4, <1>5, <1>7, <2>1, SendingTyped DEF Stat
<1>8. CASE Inode(p)
  <2>1. [w0 EXCEPT !.stage = "lookup", !.inode = disk[w0.path].inode] \in Work
    BY <1>1, <1>2 DEF Work, File
  <2>2. QED BY <1>3, <1>4, <1>8, <2>1 DEF Inode
<1>9. CASE Lookup(p)
  <2>1. [w0 EXCEPT !.stage = "reading", !.file = disk[w0.path]] \in Work
    BY <1>1, <1>2 DEF Work
  <2>2. cache[w0.path].hash \in Hashes
    BY <1>2 DEF File
  <2>3. QED BY <1>3, <1>4, <1>5, <1>9, <2>1, <2>2, SendingTyped DEF Lookup
<1>10. CASE Read(p)
  <2>1. ReadOf(p) \subseteq Hashes
    BY <1>1, <1>2 DEF ReadOf, Work, File, Hashes
  <2>2. ASSUME NEW h \in Hashes
        PROVE  [w0 EXCEPT !.stage = "store", !.file = Gone, !.hash = h] \in Work
    BY <1>1, GoneTyped DEF Work
  <2>3. QED BY <1>3, <1>4, <1>10, <2>1, <2>2 DEF Read
<1>11. CASE Store(p)
  <2>1. w0.hash \in Hashes
    BY <1>1 DEF Work
  <2>2. [hash |-> w0.hash, mtime |-> w0.mtime, inode |-> w0.inode] \in File
    BY <1>1 DEF Work, File
  <2>3. cache' \in [Paths -> File]
    BY <1>3, <1>11, <2>2 DEF Store, TypeOK
  <2>4. QED BY <1>4, <1>11, <2>1, <2>3, SendingTyped DEF Store
<1>12. CASE Send(p)
  <2>1. [path |-> w0.path, user |-> w0.user, hash |-> w0.hash] \in Delta
    BY <1>1 DEF Work, Delta
  <2>2. results' \in Seq(Delta)
    BY <1>12, <2>1 DEF Send, TypeOK
  <2>3. QED BY <1>3, <1>12, <2>2, NoWorkTyped DEF Send
<1>13. QED BY <1>6, <1>7, <1>8, <1>9, <1>10, <1>11, <1>12 DEF Worker

LEMMA WorkerTyped ==
  ASSUME TypeOK, NEW p \in Processes, Worker(p)
  PROVE  TypeOK'
<1>1. UNCHANGED <<envVars, phase, state, sent, steady>>
  BY DEF Worker, Take, Stat, Inode, Lookup, Read, Store, Send, Move
<1>2. work' \in [Processes -> Work] /\ Cardinality(Busy') <= slots'
  BY WorkerMoves, MoveTyped
<1>3. QED BY <1>1, <1>2, WorkerMoves DEF TypeOK, envVars

LEMMA NextTyped == TypeOK /\ [Next]_vars => TypeOK'
<1>1. TypeOK /\ UNCHANGED vars => TypeOK'
  BY DEF TypeOK, vars, envVars, Busy
<1>2. QED BY <1>1, MachineTyped, AgentTyped, WorkerTyped DEF Next

-----------------------------------------------------------------------------
(* The hash cache. *)

LEMMA InitCache == Init => CacheInv
<1> SUFFICES ASSUME Init PROVE CacheInv
  OBVIOUS
<1>1. TypeOK
  BY InitTyped
<1>2. \A x \in Paths : disk[x] = Gone \/ (disk[x].mtime = 1 /\ disk[x].inode = 1)
  BY DEF Init
<1>3. \A p \in Processes : work[p] = NoWork
  BY DEF Init
<1>4. \A x \in Paths : cache[x] = Gone
  BY DEF Init
<1>5. Dated
  BY <1>2, <1>3, <1>4 DEF Init, Dated, NoWork, Gone
<1>6. ReadInTime
  BY <1>3 DEF ReadInTime, NoWork
<1>7. CacheSound
  BY <1>4 DEF CacheSound, Fits, Gone
<1>8. QED BY <1>1, <1>5, <1>6, <1>7 DEF CacheInv

\* A change makes a file that fits nothing seen before: its mtime is new, or
\* its inode is, or it is gone.
LEMMA ChangeIsNew ==
  ASSUME TypeOK, Dated, NEW x \in Paths, Rewrite(x) \/ Replace(x) \/ Remove(x)
  PROVE  /\ \A y \in Paths \ {x} : disk'[y] = disk[y]
         /\ disk'[x].mtime <= clock' /\ disk'[x].inode <= clock'
         /\ disk'[x] # Gone => disk'[x].mtime > 0
         /\ disk'[x].mtime > clock \/ disk'[x].inode > clock \/ disk'[x].mtime = 0
<1>1. clock \in Nat /\ clock' = clock + 1 /\ clock > 0
  BY DEF TypeOK, Rewrite, Replace, Remove
<1>2. disk \in [Paths -> File] /\ disk[x].inode \in Nat
  BY DEF TypeOK, File
<1>3. CASE Rewrite(x)
  <2>1. PICK h \in Contents :
          disk' = [disk EXCEPT ![x].hash = h, ![x].mtime = clock + 1]
    BY <1>3 DEF Rewrite
  <2>2. disk'[x].mtime = clock + 1 /\ disk'[x].inode = disk[x].inode
    BY <1>2, <2>1 DEF File
  <2>3. QED BY <1>1, <1>2, <2>1, <2>2 DEF Dated
<1>4. CASE Replace(x)
  <2>1. PICK h \in Contents, t \in 1 .. clock + 1 :
          disk' = [disk EXCEPT ![x] = [hash |-> h, mtime |-> t, inode |-> clock + 1]]
    BY <1>4 DEF Replace
  <2>2. disk'[x].mtime = t /\ disk'[x].inode = clock + 1
    BY <1>2, <2>1
  <2>3. QED BY <1>1, <1>2, <2>1, <2>2
<1>5. CASE Remove(x)
  BY <1>1, <1>2, <1>5 DEF Remove, Gone
<1>6. QED BY <1>3, <1>4, <1>5

LEMMA MachineCache ==
  ASSUME CacheInv, Machine
  PROVE  Dated' /\ ReadInTime' /\ CacheSound'
<1>1. UNCHANGED <<cache, phase, work, results, state, sent>>
  BY DEF Machine, Start, Exit, Rewrite, Replace, Remove
<1>2. clock \in Nat /\ clock' = clock + 1
  BY DEF CacheInv, TypeOK, Machine, Start, Exit, Rewrite, Replace, Remove
<1>3. \A p \in Processes : work[p].path \in Paths
                           /\ work[p].mtime \in Nat /\ work[p].inode \in Nat
  BY DEF CacheInv, TypeOK, Work
<1>4. \A y \in Paths : /\ disk[y].mtime \in Nat /\ disk[y].inode \in Nat
                       /\ cache[y].mtime \in Nat /\ cache[y].inode \in Nat
  BY DEF CacheInv, TypeOK, File
<1>5. CASE UNCHANGED disk
  <2>1. Dated'
    BY <1>1, <1>2, <1>3, <1>4, <1>5 DEF CacheInv, Dated
  <2>2. ReadInTime' /\ CacheSound'
    BY <1>1, <1>5 DEF CacheInv, ReadInTime, CacheSound, UpToDate
  <2>3. QED BY <2>1, <2>2
<1>6. ASSUME NEW x \in Paths, Rewrite(x) \/ Replace(x) \/ Remove(x)
      PROVE  Dated' /\ ReadInTime' /\ CacheSound'
  <2>1. /\ \A y \in Paths \ {x} : disk'[y] = disk[y]
        /\ disk'[x].mtime <= clock' /\ disk'[x].inode <= clock'
        /\ disk'[x] # Gone => disk'[x].mtime > 0
        /\ disk'[x].mtime > clock \/ disk'[x].inode > clock \/ disk'[x].mtime = 0
    BY <1>6, ChangeIsNew DEF CacheInv
  <2>2. Dated'
    <3>1. ASSUME NEW y \in Paths
          PROVE  /\ disk'[y].mtime <= clock' /\ disk'[y].inode <= clock'
                 /\ disk'[y] # Gone => disk'[y].mtime > 0
      BY <1>2, <1>4, <2>1 DEF CacheInv, Dated
    <3>2. QED BY <1>1, <1>2, <1>3, <1>4, <3>1 DEF CacheInv, Dated
  <2>3. ReadInTime'
    <3>1. ASSUME NEW p \in Processes, UpToDate(p)', work[p].stage \in {"reading", "store"}
          PROVE  work[p].path # x
      BY <1>1, <1>2, <1>3, <2>1, <3>1 DEF CacheInv, Dated, UpToDate
    <3>2. QED BY <1>1, <1>3, <2>1, <3>1 DEF CacheInv, ReadInTime, UpToDate
  <2>4. CacheSound'
    <3>1. ASSUME Fits(cache[x], disk'[x].mtime, disk'[x].inode)
          PROVE  FALSE
      BY <1>2, <1>4, <2>1, <3>1 DEF CacheInv, Dated, Fits
    <3>2. QED BY <1>1, <2>1, <3>1 DEF CacheInv, CacheSound, Fits
  <2>5. QED BY <2>2, <2>3, <2>4
<1>7. QED BY <1>5, <1>6 DEF Machine, Start, Exit

LEMMA AgentCache ==
  ASSUME CacheInv, Boot \/ Begin \/ ListFails \/ Finish \/ Crash
  PROVE  Dated' /\ ReadInTime' /\ CacheSound'
<1>1. UNCHANGED <<envVars, cache>>
  BY DEF Boot, Begin, ListFails, Finish, Crash
<1>2. clock \in Nat
  BY DEF CacheInv, TypeOK
<1>3. CASE UNCHANGED work
  BY <1>1, <1>3 DEF CacheInv, Dated, ReadInTime, CacheSound, UpToDate, envVars
<1>4. CASE \A p \in Processes : /\ work'[p].mtime = 0 /\ work'[p].inode = 0
                                /\ work'[p].stage \in {"none", "queued"}
  <2>1. Dated'
    BY <1>1, <1>2, <1>4 DEF CacheInv, Dated, envVars
  <2>2. ReadInTime' /\ CacheSound'
    BY <1>1, <1>4 DEF CacheInv, ReadInTime, CacheSound, envVars
  <2>3. QED BY <2>1, <2>2
<1>5. QED BY <1>3, <1>4 DEF Boot, Begin, ListFails, Finish, Crash, NoWork

\* What a worker that is not reading or storing has to keep.
LEMMA MoveDated ==
  ASSUME CacheInv, NEW p \in Processes, NEW s, NEW w, Move(p, s, w),
         w.mtime <= clock, w.inode <= clock,
         w.stage \in {"inode", "lookup", "reading", "store"} => w.mtime > 0,
         UNCHANGED cache
  PROVE  Dated' /\ CacheSound'
<1>1. work' = [work EXCEPT ![p] = w] /\ UNCHANGED envVars
  BY DEF Move
<1>2. work \in [Processes -> Work]
  BY DEF CacheInv, TypeOK
<1>3. QED BY <1>1, <1>2 DEF CacheInv, Dated, CacheSound, envVars

LEMMA MoveReads ==
  ASSUME CacheInv, NEW p \in Processes, NEW s, NEW w, Move(p, s, w),
         /\ w.mtime = disk[w.path].mtime
         /\ w.inode = disk[w.path].inode
         => /\ w.stage = "reading" => w.file = disk[w.path]
            /\ w.stage = "store" => w.hash = disk[w.path].hash
  PROVE  ReadInTime'
<1>1. work' = [work EXCEPT ![p] = w] /\ UNCHANGED envVars
  BY DEF Move
<1>2. work \in [Processes -> Work]
  BY DEF CacheInv, TypeOK
<1>3. QED BY <1>1, <1>2 DEF CacheInv, ReadInTime, UpToDate, envVars

LEMMA SendingFields ==
  ASSUME NEW p \in Processes, NEW h
  PROVE  /\ Sending(p, h).stage = "send" /\ Sending(p, h).hash = h
         /\ Sending(p, h).mtime = 0 /\ Sending(p, h).inode = 0
         /\ Sending(p, h).path = work[p].path
BY DEF Sending, NoWork

LEMMA SendingCache ==
  ASSUME CacheInv, NEW p \in Processes, NEW s, NEW h, Move(p, s, Sending(p, h))
  PROVE  ReadInTime' /\ (UNCHANGED cache => Dated' /\ CacheSound')
<1>1. clock \in Nat
  BY DEF CacheInv, TypeOK
<1>2. QED BY <1>1, SendingFields, MoveDated, MoveReads

LEMMA WorkerCache ==
  ASSUME CacheInv, NEW p \in Processes, Worker(p)
  PROVE  Dated' /\ ReadInTime' /\ CacheSound'
<1> DEFINE w == work[p]
           x == w.path
<1>1. w \in Work /\ x \in Paths /\ disk[x] \in File /\ cache[x] \in File
  BY DEF CacheInv, TypeOK, Work
<1>2. /\ clock \in Nat /\ w.mtime <= clock /\ w.inode <= clock
      /\ disk[x].mtime <= clock /\ disk[x].inode <= clock
      /\ disk[x] # Gone => disk[x].mtime > 0
  BY <1>1 DEF CacheInv, TypeOK, Dated
<1>3. /\ NoWork.mtime = 0 /\ NoWork.inode = 0 /\ 0 <= clock
      /\ Finished.mtime = 0 /\ Finished.inode = 0 /\ Finished.stage = "done"
  BY <1>2 DEF NoWork, Finished
<1>4. CASE Take(p)
  <2>1. PICK v : /\ Move(p, "queued", v) /\ v.mtime = 0 /\ v.inode = 0
                 /\ v.stage \in {"done", "stat"}
    <3>1. CASE Move(p, "queued", Finished)
      BY <1>3, <3>1
    <3>2. ASSUME NEW path, NEW user, Move(p, "queued", Taken(path, user))
          PROVE  \E v : /\ Move(p, "queued", v) /\ v.mtime = 0 /\ v.inode = 0
                        /\ v.stage \in {"done", "stat"}
      <4>1. /\ Taken(path, user).mtime = 0 /\ Taken(path, user).inode = 0
            /\ Taken(path, user).stage = "stat"
        BY DEF Taken, NoWork
      <4>2. QED BY <3>2, <4>1
    <3>3. QED BY <1>4, <3>1, <3>2 DEF Take
  <2>2. UNCHANGED cache
    BY <1>4 DEF Take
  <2>3. Dated' /\ CacheSound'
    BY <1>3, <2>1, <2>2, MoveDated
  <2>4. ReadInTime'
    BY <2>1, MoveReads
  <2>5. QED BY <2>3, <2>4
<1>5. CASE Stat(p)
  <2> DEFINE v == [w EXCEPT !.stage = "inode", !.mtime = disk[x].mtime]
  <2>1. UNCHANGED cache
    BY <1>5 DEF Stat
  <2>2. CASE disk[x] = Gone
    BY <1>5, <2>1, <2>2, SendingCache DEF Stat
  <2>3. CASE disk[x] # Gone
    <3>1. Move(p, "stat", v)
      BY <1>5, <2>3 DEF Stat
    <3>2. v.stage = "inode" /\ v.mtime = disk[x].mtime /\ v.inode = w.inode
      BY <1>1 DEF Work
    <3> HIDE DEF v
    <3>3. Dated' /\ CacheSound'
      BY <1>2, <2>1, <2>3, <3>1, <3>2, MoveDated
    <3>4. QED BY <3>1, <3>2, <3>3, MoveReads
  <2>4. QED BY <2>2, <2>3
<1>6. CASE Inode(p)
  <2> DEFINE v == [w EXCEPT !.stage = "lookup", !.inode = disk[x].inode]
  <2>1. UNCHANGED cache /\ Move(p, "inode", v)
    BY <1>6 DEF Inode
  <2>2. v.stage = "lookup" /\ v.mtime = w.mtime /\ v.inode = disk[x].inode
    BY <1>1 DEF Work
  <2>3. w.mtime > 0
    BY <2>1 DEF Move, CacheInv, Dated
  <2> HIDE DEF v
  <2>4. Dated' /\ CacheSound'
    BY <1>2, <2>1, <2>2, <2>3, MoveDated
  <2>5. QED BY <2>1, <2>2, <2>4, MoveReads
<1>7. CASE Lookup(p)
  <2> DEFINE v == [w EXCEPT !.stage = "reading", !.file = disk[x]]
  <2>1. UNCHANGED cache
    BY <1>7 DEF Lookup
  <2>2. CASE \E h : Move(p, "lookup", Sending(p, h))
    BY <2>1, <2>2, SendingCache
  <2>3. CASE Move(p, "lookup", v)
    <3>1. /\ v.stage = "reading" /\ v.mtime = w.mtime /\ v.inode = w.inode
          /\ v.file = disk[x] /\ v.path = x
      BY <1>1 DEF Work
    <3>2. w.mtime > 0
      BY <2>3 DEF Move, CacheInv, Dated
    <3> HIDE DEF v
    <3>3. Dated' /\ CacheSound'
      BY <1>2, <2>1, <2>3, <3>1, <3>2, MoveDated
    <3>4. QED BY <2>3, <3>1, <3>3, MoveReads
  <2>4. QED BY <1>7, <2>2, <2>3 DEF Lookup
<1>8. CASE Read(p)
  <2>1. PICK h \in ReadOf(p) :
          Move(p, "reading", [w EXCEPT !.stage = "store", !.file = Gone, !.hash = h])
    BY <1>8 DEF Read
  <2> DEFINE v == [w EXCEPT !.stage = "store", !.file = Gone, !.hash = h]
  <2>2. /\ v.stage = "store" /\ v.mtime = w.mtime /\ v.inode = w.inode
        /\ v.hash = h /\ v.path = x
    BY <1>1 DEF Work
  <2>3. w.mtime > 0 /\ UNCHANGED cache
    BY <1>8, <2>1 DEF Read, Move, CacheInv, Dated
  <2>4. UpToDate(p) => h = disk[x].hash
    <3>1. UpToDate(p) => w.file = disk[x]
      BY <2>1 DEF Move, CacheInv, ReadInTime
    <3>2. QED BY <2>1, <3>1 DEF ReadOf
  <2>5. Move(p, "reading", v)
    BY <2>1
  <2> HIDE DEF v
  <2>6. Dated' /\ CacheSound'
    BY <1>2, <2>2, <2>3, <2>5, MoveDated
  <2>7. ReadInTime'
    BY <2>2, <2>4, <2>5, MoveReads DEF UpToDate
  <2>8. QED BY <2>6, <2>7
<1>9. CASE Store(p)
  <2> DEFINE entry == [hash |-> w.hash, mtime |-> w.mtime, inode |-> w.inode]
  <2>1. Move(p, "store", Sending(p, w.hash))
    BY <1>9 DEF Store
  <2>2. ReadInTime'
    BY <2>1, SendingCache
  <2>3. CASE UNCHANGED cache
    BY <2>1, <2>2, <2>3, SendingCache
  <2>4. CASE cache' = [cache EXCEPT ![x] = entry]
    <3>1. UNCHANGED envVars /\ work' = [work EXCEPT ![p] = Sending(p, w.hash)]
      BY <2>1 DEF Move
    <3>2. cache \in [Paths -> File] /\ work \in [Processes -> Work]
      BY DEF CacheInv, TypeOK
    <3>3. w.mtime > 0 /\ (UpToDate(p) => w.hash = disk[x].hash)
      BY <2>1 DEF Move, CacheInv, Dated, ReadInTime
    <3>4. Dated'
      BY <1>2, <2>4, <3>1, <3>2, <3>3, SendingFields DEF CacheInv, Dated, envVars
    <3>5. CacheSound'
      BY <1>1, <2>4, <3>1, <3>2, <3>3 DEF CacheInv, CacheSound, Fits, UpToDate, envVars
    <3>6. QED BY <2>2, <3>4, <3>5
  <2>5. QED BY <1>9, <2>3, <2>4 DEF Store
<1>10. CASE Send(p)
  <2>1. UNCHANGED cache /\ Move(p, "send", Finished)
    BY <1>10 DEF Send
  <2>2. Dated' /\ CacheSound'
    BY <1>2, <1>3, <2>1, MoveDated
  <2>3. QED BY <1>3, <2>1, <2>2, MoveReads
<1>11. QED BY <1>4, <1>5, <1>6, <1>7, <1>8, <1>9, <1>10 DEF Worker

LEMMA NextCache == CacheInv /\ [Next]_vars => CacheInv'
<1>1. CacheInv /\ UNCHANGED vars => Dated' /\ ReadInTime' /\ CacheSound'
  BY DEF CacheInv, Dated, ReadInTime, CacheSound, UpToDate, vars, envVars
<1>2. CacheInv /\ Next => Dated' /\ ReadInTime' /\ CacheSound'
  BY MachineCache, AgentCache, WorkerCache DEF Next
<1>3. CacheInv /\ [Next]_vars => TypeOK'
  BY NextTyped DEF CacheInv
<1>4. QED BY <1>1, <1>2, <1>3 DEF CacheInv

-----------------------------------------------------------------------------
(* Steady processes. *)

LEMMA InitSteady == Init => SteadyInv
<1> SUFFICES ASSUME Init PROVE SteadyInv
  OBVIOUS
<1>1. CacheInv
  BY InitCache
<1>2. steady = {} /\ results = <<>> /\ \A p \in Processes : work[p] = NoWork
  BY DEF Init
<1>3. \A p \in Processes : disk[ExeOf[p]] # Gone
  BY CollectionAssumption DEF Init
<1>4. QED BY <1>1, <1>2, <1>3 DEF SteadyInv, Truthful, Followed, Resting

LEMMA MachineSteady ==
  ASSUME SteadyInv, Machine
  PROVE  Truthful' /\ Followed' /\ Resting'
<1>1. UNCHANGED <<cache, phase, work, results>> /\ steady' \subseteq steady
  BY DEF Machine, Start, Exit, Rewrite, Replace, Remove, Disturb
<1>2. Resting'
  BY <1>1 DEF SteadyInv, Resting
<1>3. TypeOK /\ Dated
  BY DEF SteadyInv, CacheInv
<1>4. ASSUME NEW p \in Processes, Start(p) \/ Exit(p)
      PROVE  Truthful' /\ Followed'
  <2>1. UNCHANGED disk
    BY <1>4 DEF Start, Exit
  <2>2. Truthful'
    BY <1>1, <2>1 DEF SteadyInv, Truthful, UpToDate
  <2>3. \A r \in Processes : running'[r] = "yes" => disk[ExeOf[r]] # Gone
    BY <1>3, <1>4 DEF SteadyInv, Followed, Start, Exit, TypeOK
  <2>4. \A r \in steady' : running'[r] = "yes"
    BY <1>3, <1>4 DEF SteadyInv, Followed, Start, Exit, TypeOK
  <2>5. QED BY <1>1, <2>1, <2>2, <2>3, <2>4 DEF SteadyInv, Followed, Busy
<1>5. ASSUME NEW x \in Paths, Rewrite(x) \/ Replace(x) \/ Remove(x)
      PROVE  Truthful' /\ Followed'
  <2>1. \A y \in Paths \ {x} : disk'[y] = disk[y]
    BY <1>3, <1>5, ChangeIsNew
  <2>2. \A p \in steady' : p \in Processes /\ ExeOf[p] \in Paths \ {x}
                           /\ disk'[ExeOf[p]] = disk[ExeOf[p]]
    BY <1>3, <1>5, <2>1, CollectionAssumption DEF Rewrite, Replace, Remove, Disturb, TypeOK
  <2>3. Truthful'
    BY <1>1, <2>2 DEF SteadyInv, Truthful, UpToDate
  <2>4. ASSUME NEW p \in Processes
        PROVE  /\ running'[p] = "yes" => running[p] = "yes" /\ disk'[ExeOf[p]] # Gone
               /\ p \in steady' => running'[p] = running[p]
    <3>1. CASE Rewrite(x)
      <4>1. PICK h \in Contents :
              disk' = [disk EXCEPT ![x].hash = h, ![x].mtime = clock + 1]
        BY <3>1 DEF Rewrite
      <4>2. disk'[x].mtime = clock + 1 /\ clock \in Nat /\ disk[x] \in File
        BY <1>3, <4>1 DEF TypeOK, File
      <4>3. disk'[x] # Gone
        BY <4>2 DEF Gone
      <4>4. ExeOf[p] \in Paths /\ UNCHANGED running
        BY <3>1, CollectionAssumption DEF Rewrite
      <4>5. QED BY <2>1, <4>3, <4>4 DEF SteadyInv, Followed
    <3>2. CASE Replace(x) \/ Remove(x)
      <4>1. ExeOf[p] \in Paths
        BY CollectionAssumption
      <4>2. QED BY <2>1, <2>2, <3>2, <4>1 DEF Replace, Remove, Orphan, SteadyInv, Followed
    <3>3. QED BY <1>5, <3>1, <3>2
  <2>5. QED BY <1>1, <2>2, <2>3, <2>4 DEF SteadyInv, Followed, Busy
<1>6. QED BY <1>2, <1>4, <1>5 DEF Machine

LEMMA AgentSteady ==
  ASSUME SteadyInv, Boot \/ Begin \/ ListFails \/ Finish \/ Crash
  PROVE  Truthful' /\ Followed' /\ Resting'
<1>1. UNCHANGED envVars
  BY DEF Boot, Begin, ListFails, Finish, Crash
<1>2. \A p \in Processes : running[p] = "yes" => disk[ExeOf[p]] # Gone
  BY DEF SteadyInv, Followed
<1>3. CASE Begin
  <2>1. results' = <<>>
    BY <1>3 DEF Begin, SteadyInv, Resting
  <2>2. \A p \in Processes : /\ work'[p].path # ExeOf[p]
                             /\ work'[p].stage \in {"none", "queued"}
                             /\ p \in steady' => running[p] = "yes" /\ work'[p].stage # "none"
    BY <1>3, CollectionAssumption DEF Begin, NoWork
  <2>3. Truthful' /\ Resting'
    BY <1>3, <2>1, <2>2 DEF Truthful, Resting, Begin
  <2>4. Followed'
    BY <1>1, <1>2, <1>3, <2>2 DEF Followed, Busy, envVars, Begin
  <2>5. QED BY <2>3, <2>4
<1>4. CASE Boot \/ ListFails \/ Finish \/ Crash
  <2>1. steady' = {} /\ results' = <<>> /\ \A p \in Processes : work'[p] = NoWork
    BY <1>4 DEF Boot, ListFails, Finish, Crash, SteadyInv, Resting
  <2>2. QED BY <1>1, <1>2, <2>1 DEF Truthful, Followed, Resting, envVars
<1>5. QED BY <1>3, <1>4

\* A step of a worker that keeps to what a steady file is.
LEMMA MoveSteady ==
  ASSUME SteadyInv, NEW q \in Processes, NEW s, s # "none", NEW w, Move(q, s, w),
         w.stage \notin {"none", "queued"},
         \A p \in steady : w.path = ExeOf[p] =>
           /\ w.stage = "inode" => w.mtime = disk[ExeOf[p]].mtime
           /\ w.stage \in {"lookup", "reading", "store"} =>
                w.mtime = disk[ExeOf[p]].mtime /\ w.inode = disk[ExeOf[p]].inode
           /\ w.stage = "send" => w.hash = disk[ExeOf[p]].hash,
         q \in steady => w.stage # "done" /\ w.path = ExeOf[q],
         UNCHANGED results
  PROVE  Truthful' /\ Followed' /\ Resting'
<1>1. work' = [work EXCEPT ![q] = w] /\ UNCHANGED <<envVars, phase, steady>>
  BY DEF Move
<1>2. work \in [Processes -> Work] /\ steady \subseteq Processes
  BY DEF SteadyInv, CacheInv, TypeOK
<1>3. phase = "collecting"
  BY DEF Move, SteadyInv, Resting, NoWork
<1>4. Truthful'
  BY <1>1, <1>2 DEF SteadyInv, Truthful, UpToDate, envVars
<1>5. Followed'
  BY <1>1, <1>2 DEF SteadyInv, Followed, Busy, envVars
<1>6. QED BY <1>1, <1>3, <1>4, <1>5 DEF Resting

LEMMA WorkerSteady ==
  ASSUME SteadyInv, NEW q \in Processes, Worker(q)
  PROVE  Truthful' /\ Followed' /\ Resting'
<1> DEFINE w == work[q]
           x == w.path
<1>1. w \in Work /\ x \in Paths /\ work \in [Processes -> Work]
  BY DEF SteadyInv, CacheInv, TypeOK, Work
<1>2. steady \subseteq Processes
  BY DEF SteadyInv, CacheInv, TypeOK
<1>3. q \in steady /\ q \in Busy => x = ExeOf[q] /\ disk[x] # Gone
  BY DEF SteadyInv, Followed
<1>4. \A p \in steady : x = ExeOf[p] => disk[x] # Gone
  BY <1>2 DEF SteadyInv, Followed
<1>5. ASSUME NEW s \in {"stat", "lookup", "store"}, NEW h, Move(q, s, Sending(q, h)),
             \A p \in steady : x = ExeOf[p] => h = disk[x].hash,
             UNCHANGED results
      PROVE  Truthful' /\ Followed' /\ Resting'
  <2>1. w.stage = s
    BY <1>5 DEF Move
  <2>2. q \in Busy
    BY <2>1 DEF Busy
  <2>3. QED BY <1>3, <1>5, <2>2, SendingFields, MoveSteady
<1>6. CASE Take(q)
  <2>1. UNCHANGED results
    BY <1>6 DEF Take
  <2>2. CASE running[q] = "no" /\ Move(q, "queued", Finished)
    <3>1. q \notin steady
      BY <2>2 DEF SteadyInv, Followed
    <3>2. Finished.stage = "done"
      BY DEF Finished, NoWork
    <3>3. QED BY <2>1, <2>2, <3>1, <3>2, MoveSteady
  <2>3. ASSUME NEW path, NEW user, Move(q, "queued", Taken(path, user)),
               running[q] = "orphan" \/ path = ExeOf[q]
        PROVE  Truthful' /\ Followed' /\ Resting'
    <3>1. Taken(path, user).stage = "stat" /\ Taken(path, user).path = path
      BY DEF Taken, NoWork
    <3>2. q \in steady => path = ExeOf[q]
      BY <2>3 DEF SteadyInv, Followed
    <3>3. QED BY <2>1, <2>3, <3>1, <3>2, MoveSteady
  <2>4. QED BY <1>6, <2>2, <2>3 DEF Take
<1>7. CASE Stat(q)
  <2>1. UNCHANGED results /\ w.stage = "stat"
    BY <1>7 DEF Stat, Move
  <2>2. CASE disk[x] = Gone
    BY <1>4, <1>5, <1>7, <2>1, <2>2 DEF Stat
  <2>3. CASE disk[x] # Gone
    <3> DEFINE v == [w EXCEPT !.stage = "inode", !.mtime = disk[x].mtime]
    <3>1. Move(q, "stat", v)
      BY <1>7, <2>3 DEF Stat
    <3>2. v.stage = "inode" /\ v.mtime = disk[x].mtime /\ v.path = x
      BY <1>1 DEF Work
    <3>3. q \in Busy
      BY <2>1 DEF Busy
    <3> HIDE DEF v
    <3>4. QED BY <1>3, <2>1, <3>1, <3>2, <3>3, MoveSteady
  <2>4. QED BY <2>2, <2>3
<1>8. CASE Inode(q)
  <2> DEFINE v == [w EXCEPT !.stage = "lookup", !.inode = disk[x].inode]
  <2>1. UNCHANGED results /\ Move(q, "inode", v) /\ w.stage = "inode"
    BY <1>8 DEF Inode, Move
  <2>2. v.stage = "lookup" /\ v.mtime = w.mtime /\ v.inode = disk[x].inode /\ v.path = x
    BY <1>1 DEF Work
  <2>3. \A p \in steady : x = ExeOf[p] => w.mtime = disk[x].mtime
    BY <2>1 DEF SteadyInv, Truthful
  <2>4. q \in Busy
    BY <2>1 DEF Busy
  <2> HIDE DEF v
  <2>5. QED BY <1>3, <2>1, <2>2, <2>3, <2>4, MoveSteady
<1>9. CASE Lookup(q)
  <2>1. UNCHANGED results /\ w.stage = "lookup"
    BY <1>9 DEF Lookup, Move
  <2>2. \A p \in steady : x = ExeOf[p] => UpToDate(q)
    BY <2>1 DEF SteadyInv, Truthful
  <2>3. CASE /\ Fits(cache[x], w.mtime, w.inode)
             /\ Move(q, "lookup", Sending(q, cache[x].hash))
    <3>1. UpToDate(q) => cache[x].hash = disk[x].hash
      BY <1>1, <2>3 DEF SteadyInv, CacheInv, CacheSound, UpToDate
    <3>2. QED BY <1>5, <2>1, <2>2, <2>3, <3>1
  <2>4. CASE disk[x] = Gone /\ Move(q, "lookup", Sending(q, NoHash))
    BY <1>4, <1>5, <2>1, <2>4
  <2>5. CASE Move(q, "lookup", [w EXCEPT !.stage = "reading", !.file = disk[x]])
    <3> DEFINE v == [w EXCEPT !.stage = "reading", !.file = disk[x]]
    <3>1. /\ v.stage = "reading" /\ v.mtime = w.mtime /\ v.inode = w.inode
          /\ v.path = x
      BY <1>1 DEF Work
    <3>2. Move(q, "lookup", v) /\ q \in Busy
      BY <2>1, <2>5 DEF Busy
    <3> HIDE DEF v
    <3>3. QED BY <1>3, <2>1, <2>2, <3>1, <3>2, MoveSteady DEF UpToDate
  <2>6. QED BY <1>9, <2>3, <2>4, <2>5 DEF Lookup
<1>10. CASE Read(q)
  <2>1. UNCHANGED results
    BY <1>10 DEF Read
  <2>2. PICK h \in ReadOf(q) :
          Move(q, "reading", [w EXCEPT !.stage = "store", !.file = Gone, !.hash = h])
    BY <1>10 DEF Read
  <2> DEFINE v == [w EXCEPT !.stage = "store", !.file = Gone, !.hash = h]
  <2>3. /\ v.stage = "store" /\ v.mtime = w.mtime /\ v.inode = w.inode /\ v.path = x
    BY <1>1 DEF Work
  <2>4. Move(q, "reading", v) /\ w.stage = "reading"
    BY <2>2 DEF Move
  <2>5. \A p \in steady : x = ExeOf[p] => UpToDate(q)
    BY <2>4 DEF SteadyInv, Truthful
  <2>6. q \in Busy
    BY <2>4 DEF Busy
  <2> HIDE DEF v
  <2>7. QED BY <1>3, <2>1, <2>3, <2>4, <2>5, <2>6, MoveSteady DEF UpToDate
<1>11. CASE Store(q)
  <2>1. UNCHANGED results /\ Move(q, "store", Sending(q, w.hash)) /\ w.stage = "store"
    BY <1>11 DEF Store, Move
  <2>2. \A p \in steady : x = ExeOf[p] => UpToDate(q)
    BY <2>1 DEF SteadyInv, Truthful
  <2>3. UpToDate(q) => w.hash = disk[x].hash
    BY <2>1 DEF SteadyInv, CacheInv, ReadInTime
  <2>4. QED BY <1>5, <2>1, <2>2, <2>3
<1>12. CASE Send(q)
  <2> DEFINE d == [path |-> x, user |-> w.user, hash |-> w.hash]
             N == Len(results)
  <2>1. /\ Move(q, "send", Finished) /\ w.stage = "send"
        /\ results' = Append(results, d)
    BY <1>12 DEF Send, Move
  <2>2. /\ work' = [work EXCEPT ![q] = Finished]
        /\ UNCHANGED <<envVars, phase, steady>>
    BY <2>1 DEF Move
  <2>3. /\ DOMAIN results' = DOMAIN results \cup {N + 1}
        /\ results'[N + 1] = d
        /\ \A n \in DOMAIN results : results'[n] = results[n]
    <3>1. results \in Seq(Delta)
      BY DEF SteadyInv, CacheInv, TypeOK
    <3>2. QED BY <2>1, <3>1
  <2>4. Finished.stage = "done"
    BY DEF Finished, NoWork
  <2>5. \A p \in steady : x = ExeOf[p] => w.hash = disk[x].hash
    BY <2>1 DEF SteadyInv, Truthful
  <2>6. Truthful'
    <3>1. ASSUME NEW p \in steady, NEW n \in DOMAIN results', results'[n].path = ExeOf[p]
          PROVE  results'[n].hash = disk[ExeOf[p]].hash
      BY <2>3, <2>5, <3>1 DEF SteadyInv, Truthful
    <3>2. ASSUME NEW p \in steady, NEW r \in Processes, work'[r].path = ExeOf[p]
          PROVE  /\ work'[r].stage = "inode" => work'[r].mtime = disk[ExeOf[p]].mtime
                 /\ work'[r].stage \in {"lookup", "reading", "store"} => UpToDate(r)'
                 /\ work'[r].stage = "send" => work'[r].hash = disk[ExeOf[p]].hash
      BY <1>1, <2>2, <2>4, <3>2 DEF SteadyInv, Truthful, UpToDate, envVars
    <3>3. QED BY <2>2, <3>1, <3>2 DEF Truthful, envVars
  <2>7. Followed'
    <3>1. q \in steady => x = ExeOf[q]
      BY <1>3, <2>1 DEF Busy
    <3>2. QED BY <1>1, <2>2, <2>3, <2>4, <3>1 DEF SteadyInv, Followed, Busy, envVars
  <2>8. Resting'
    <3>1. phase = "collecting"
      BY <2>1 DEF SteadyInv, Resting, NoWork
    <3>2. QED BY <2>2, <3>1 DEF Resting
  <2>9. QED BY <2>6, <2>7, <2>8
<1>13. QED BY <1>6, <1>7, <1>8, <1>9, <1>10, <1>11, <1>12 DEF Worker

LEMMA NextSteady == SteadyInv /\ [Next]_vars => SteadyInv'
<1>1. SteadyInv /\ UNCHANGED vars => Truthful' /\ Followed' /\ Resting'
  BY DEF SteadyInv, Truthful, Followed, Resting, UpToDate, Busy, vars, envVars
<1>2. SteadyInv /\ Next => Truthful' /\ Followed' /\ Resting'
  BY MachineSteady, AgentSteady, WorkerSteady DEF Next
<1>3. SteadyInv /\ [Next]_vars => CacheInv'
  BY NextCache DEF SteadyInv
<1>4. QED BY <1>1, <1>2, <1>3 DEF SteadyInv
-----------------------------------------------------------------------------

\* Collection's inductive invariant holds in every reachable state.
THEOREM Invariance == Spec => []SteadyInv
BY InitSteady, NextSteady, PTL DEF Spec

\* Every reachable state is well typed, and the semaphore holds.
THEOREM TypeCorrect == Spec => []TypeOK
<1>1. SteadyInv => TypeOK
  BY DEF SteadyInv, CacheInv
<1>2. QED BY <1>1, Invariance, PTL

\* An entry of the hash cache that fits a file (cache.Get would answer with it)
\* is the hash of that file.
THEOREM CacheIsSound == Spec => []CacheSound
<1>1. SteadyInv => CacheSound
  BY DEF SteadyInv, CacheInv
<1>2. QED BY <1>1, Invariance, PTL

\* The only step that ends a collection is Finish.
LEMMA OnlyFinish ==
  ASSUME TypeOK, [Next]_vars, phase = "collecting", phase' = "idle"
  PROVE  Finish
<1>1. ASSUME Machine \/ \E p \in Processes : Worker(p)
      PROVE  UNCHANGED phase
  BY <1>1 DEF Machine, Start, Exit, Rewrite, Replace, Remove,
             Worker, Take, Stat, Inode, Lookup, Read, Store, Send, Move
<1>2. QED BY <1>1 DEF Next, vars, Boot, Begin, ListFails, Crash

\* A process that stays, with its file, from the listing to the end of a
\* collection is in the new state with the hash of its file.
THEOREM NothingSteadyMissed == Spec => SteadyIsListed
<1> DEFINE Ends == phase = "collecting" /\ phase' = "idle" =>
                     \A p \in steady :
                       state'[<<NameOf[ExeOf[p]], disk[ExeOf[p]].hash>>] # NoDelta
<1>1. SteadyInv /\ [Next]_vars => [Ends]_vars
  <2> SUFFICES ASSUME SteadyInv, [Next]_vars, phase = "collecting", phase' = "idle",
                      NEW p \in steady
               PROVE  state'[<<NameOf[ExeOf[p]], disk[ExeOf[p]].hash>>] # NoDelta
    OBVIOUS
  <2> DEFINE k == <<NameOf[ExeOf[p]], disk[ExeOf[p]].hash>>
  <2>1. TypeOK /\ p \in Processes
    BY DEF SteadyInv, CacheInv, TypeOK
  <2>2. Finish
    BY <2>1, OnlyFinish
  <2>3. work[p].stage = "done"
    BY <2>1, <2>2 DEF Finish, Listed, SteadyInv, Followed
  <2>4. PICK n \in DOMAIN results : results[n].path = ExeOf[p]
    BY <2>3 DEF SteadyInv, Followed
  <2>5. PICK m \in Kept : results[m].path = ExeOf[p]
    BY <2>1, <2>4, FirstIsKept
  <2>6. results[m].hash = disk[ExeOf[p]].hash
    BY <2>5 DEF Kept, SteadyInv, Truthful
  <2>7. m \in Under(k)
    BY <2>5, <2>6 DEF Under, KeyOf
  <2>8. LastOf(Under(k), NoDelta) \in Delta
    BY <2>1, <2>7, LastTyped DEF Under, Kept
  <2>9. k \in Keys
    BY <2>1, CollectionAssumption DEF Keys, TypeOK, File
  <2>10. state'[k] \in Delta
    BY <2>2, <2>8, <2>9 DEF Finish
  <2>11. QED BY <2>10, NoDeltaAssumption
<1>2. QED BY <1>1, Invariance, PTL DEF Spec, SteadyIsListed

\* Where no two executables have the same file name, State is what was sent.
THEOREM StateWasSent ==
  ASSUME \A x, y \in Paths : NameOf[x] = NameOf[y] => x = y
  PROVE  Spec => []StateIsSent
<1>1. Init => StateIsSent
  BY DEF Init, StateIsSent
<1>2. SteadyInv /\ StateIsSent /\ [Next]_vars => StateIsSent'
  <2> SUFFICES ASSUME SteadyInv, StateIsSent, [Next]_vars
               PROVE  StateIsSent'
    OBVIOUS
  <2>1. CASE UNCHANGED <<state, sent>>
    BY <2>1 DEF StateIsSent
  <2>2. CASE state' = NoState /\ sent' = NoState
    BY <2>2 DEF StateIsSent
  <2>3. CASE Finish
    <3>1. TypeOK
      BY DEF SteadyInv, CacheInv
    <3>2. ASSUME NEW k \in Keys, NEW n \in Under(k), NEW m \in Under(k)
          PROVE  n = m
      <4>1. /\ n \in DOMAIN results /\ m \in DOMAIN results
            /\ results[n].path \in Paths /\ results[m].path \in Paths
            /\ n \in Nat /\ m \in Nat
        <5>1. results \in Seq(Delta) /\ n \in DOMAIN results /\ m \in DOMAIN results
          BY <3>1 DEF Under, Kept, TypeOK
        <5>2. results[n] \in Delta /\ results[m] \in Delta /\ n \in Nat /\ m \in Nat
          BY <5>1
        <5>3. QED BY <5>1, <5>2 DEF Delta
      <4>2. results[n].path = results[m].path
        BY <4>1 DEF Under, KeyOf
      <4>3. ~ (n < m) /\ ~ (m < n)
        BY <4>1, <4>2 DEF Under, Kept
      <4>4. QED BY <4>1, <4>3
    <3>3. ASSUME NEW k \in Keys, Under(k) # {}
          PROVE  LastOf(Under(k), NoDelta) = LastOf(Upserts(k), sent[k])
      <4>1. Under(k) \subseteq DOMAIN results
        BY DEF Under, Kept
      <4>2. Greatest(Under(k)) \in Under(k)
        BY <3>1, <3>3, <4>1, GreatestIsLast
      <4> DEFINE n == Greatest(Under(k))
      <4>3. Under(k) = {n}
        BY <3>2, <4>2
      <4>4. LastOf(Under(k), NoDelta) = results[n]
        BY <3>3 DEF LastOf
      <4>5. CASE state[k] = results[n]
        <5>1. Upserts(k) = {}
          BY <4>3, <4>5 DEF Upserts
        <5>2. QED BY <4>4, <4>5, <5>1 DEF LastOf, StateIsSent
      <4>6. CASE state[k] # results[n]
        <5>1. Upserts(k) = Under(k)
          BY <4>3, <4>6 DEF Upserts
        <5>2. QED BY <3>3, <5>1 DEF LastOf
      <4>7. QED BY <4>5, <4>6
    <3>4. \A k \in Keys : LastOf(Under(k), NoDelta) =
                          IF Under(k) = {} THEN NoDelta ELSE LastOf(Upserts(k), sent[k])
      BY <3>3 DEF LastOf
    <3>5. QED BY <2>3, <3>4 DEF Finish, StateIsSent
  <2>4. ASSUME Machine \/ \E p \in Processes : Worker(p)
        PROVE  UNCHANGED <<state, sent>>
    BY <2>4 DEF Machine, Start, Exit, Rewrite, Replace, Remove,
               Worker, Take, Stat, Inode, Lookup, Read, Store, Send, Move
  <2>5. QED BY <2>1, <2>2, <2>3, <2>4 DEF Next, vars, Boot, Begin, ListFails, Crash
<1>3. QED BY <1>1, <1>2, Invariance, PTL DEF Spec
=============================================================================

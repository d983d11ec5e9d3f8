------------------------------ MODULE Reports -------------------------------
(***************************************************************************)
(* The reports of the web interface (internal/server/store/reports.go) as  *)
(* queries over the committed tables of IngestTx, and what they show of    *)
(* the agents' inventories. A report is the set of its rows: paging and    *)
(* search are left out.                                                    *)
(***************************************************************************)
EXTENDS IngestTx

CONSTANTS
  NameOf,     \* [Items -> names]: SoftwareDelta.Name
  VersionOf,  \* [Items -> versions]: SoftwareDelta.Version
  PlaceIn     \* [Attrs -> places]: what host_software keeps, path and user

\* A row of the host report says where an item is and what the verdict is.
ASSUME ReportsAssumption ==
  ColumnsOf = [t \in Attrs |-> <<PlaceIn[t], SignedIn[t]>>]

\* host_software JOIN software_catalog ON id = catalog_id.
Joined == {rc \in software \X catalog : rc[1].id = rc[2].id}

HostSoftware(a) == {rc \in Joined : rc[1].host = a}

\* The columns of a row of it: the place from hs, the verdict from sc. Name,
\* version and publisher belong to the catalog row that w names in Shown; they
\* are an observer's own where KeysName.
ColumnsShown(rc) == <<PlaceIn[rc[1].attr], rc[2].signed>>

\* Mutant: the packages are listed too.
UnsignedOfAnySource == {rc \in Joined : ~rc[2].signed}

\* UnsignedBinaries.
UnsignedBinaries == {rc \in Joined : rc[1].source = "running" /\ ~rc[2].signed}

\* DormantSoftware: installed, and no running row of the same catalog row.
DormantSoftware ==
  {rc \in Joined :
     /\ rc[1].source = "installed"
     /\ ~\E r \in software : /\ r.host = rc[1].host /\ r.id = rc[1].id
                             /\ r.source = "running"}

NamedRows(name, version) ==
  {rc \in Joined : NameOf[rc[2].item] = name /\ VersionOf[rc[2].item] = version}

\* Mutant: count(*) for count(DISTINCT host_id).
CountOfRows(name, version) == Cardinality(NamedRows(name, version))

\* VersionSprawl: the host_count of a version of name.
VersionSprawl(name, version) ==
  Cardinality({rc[1].host : rc \in NamedRows(name, version)})

-----------------------------------------------------------------------------
(* Refinement: the host report steps through the batches. *)

BatchOf(p) ==
  LET ups == {k \in DOMAIN p.deltas : p.deltas[k].op = "upsert"}
  IN [full   |-> p.full,
      upsert |-> [i \in Items |->
        IF \E k \in ups : p.deltas[k].item = i
          THEN p.deltas[CHOOSE k \in ups : p.deltas[k].item = i].attr
          ELSE NoAttr],
      remove |-> {p.deltas[k].item : k \in DOMAIN p.deltas \ ups}]

\* What HostSoftware shows for row w of host a.
Shown(a, w) ==
  LET R == {rc \in HostSoftware(a) : <<rc[2].key, rc[1].source>> = w}
  IN IF R = {} THEN NoAttr ELSE ColumnsShown(CHOOSE rc \in R : TRUE)

Abstract == INSTANCE AtomicIngest WITH
  Batches <- [a \in Hosts |-> [n \in DOMAIN Payloads[a] |-> BatchOf(Payloads[a][n])]],
  rows <- [a \in Hosts |-> [w \in RowIds |-> Shown(a, w)]]

\* The host report never shows part of a batch, a batch twice, or a batch
\* before the one it builds on, whatever the other handlers do. This is so
\* where VerdictsAgree: otherwise the catalog row keeps the first verdict it was
\* told, whichever agent told it, and no later batch brings another to the report.
ImplementsAtomicIngest == Abstract!Spec

-----------------------------------------------------------------------------
(* What the reports say once every agent is rid of its spool. *)

Settled == \A a \in Hosts : head[a] > Len(Payloads[a])

\* What the agent of host a had observed when it built its n-th batch, and last.
InventoryAt(a, n) == IF n = 0 THEN EmptyInventory ELSE Payloads[a][n].inv
Observed(a) == InventoryAt(a, Len(Payloads[a]))

\* UnsignedBinaries "returns running executables with signed=false": those
\* that the agents observe, where they all agree on the verdict for a file.
UnsignedAsObserved ==
  Settled =>
    {<<rc[1].host, rc[2].key>> : rc \in UnsignedBinaries} =
      UNION {{<<a, CatalogOf[i]>> : i \in
                {j \in Present(Observed(a)) : /\ SourceOf[j] = "running"
                                              /\ ~SignedIn[Observed(a)[j]]}} :
             a \in Hosts}

\* VersionSprawl counts every host with this version once, and no other host.
SprawlAsObserved ==
  Settled =>
    \A i \in Items :
      VersionSprawl(NameOf[i], VersionOf[i]) =
        Cardinality({a \in Hosts : \E j \in Present(Observed(a)) :
                       NameOf[j] = NameOf[i] /\ VersionOf[j] = VersionOf[i]})

\* DormantSoftware returns software "installed but never seen running": least
\* of all should it return what is running on that host right now.
DormantIsNotRunning ==
  \A rc \in DormantSoftware :
    ~\E running \in HostSoftware(rc[1].host) :
       /\ running[1].source = "running"
       /\ NameOf[running[2].item] = NameOf[rc[2].item]
-----------------------------------------------------------------------------
(* Conditions on what the agents deliver, for the theorems about reports. *)

\* The order Diff and IngestBatch give the deltas: a removal follows all
\* upserts, and no identity is upserted twice.
DiffOrder ==
  \A a \in Hosts : \A n \in DOMAIN Payloads[a] :
    LET D == Payloads[a][n].deltas
    IN \A j, k \in DOMAIN D : D[k].op = "upsert" /\ j # k =>
         IF D[j].op = "upsert" THEN D[j].item # D[k].item ELSE k < j

\* Each payload is the difference between two inventories: from nothing to the
\* new one for a full snapshot, else from the one before (cmd/agent's ticks).
PayloadsChained ==
  \A a \in Hosts : \A n \in DOMAIN Payloads[a] :
    LET p == Payloads[a][n]
    IN BatchOf(p) =
         Diff(IF p.full THEN EmptyInventory ELSE InventoryAt(a, n - 1), p.inv, p.full)

\* A full snapshot has something of each source the inventory before it had.
SnapshotsCover ==
  \A a \in Hosts : \A n \in DOMAIN Payloads[a] : Payloads[a][n].full =>
    \A i \in Present(InventoryAt(a, n - 1)) :
      \E j \in Present(InventoryAt(a, n)) : SourceOf[j] = SourceOf[i]

Told ==
  {d \in Delta : \E a \in Hosts : \E n \in DOMAIN Payloads[a] :
                   \E k \in DOMAIN Payloads[a][n].deltas : d = Payloads[a][n].deltas[k]}

\* The agents agree on the signature verdict of what shares a catalog row.
VerdictsAgree ==
  \A d, e \in Told :
    CatalogOf[d.item] = CatalogOf[e.item] => SignedIn[d.attr] = SignedIn[e.attr]

\* What runs shares no catalog row with what is installed: upsertCatalog finds
\* the one by sha256, the other by name among the rows that have none. (An
\* executable that could not be hashed is looked up like a package.)
RunningApart ==
  \A i, j \in Items : CatalogOf[i] = CatalogOf[j] => SourceOf[i] = SourceOf[j]

\* What shares a catalog row has one name and one version.
KeysName ==
  \A i, j \in Items :
    CatalogOf[i] = CatalogOf[j] => NameOf[i] = NameOf[j] /\ VersionOf[i] = VersionOf[j]
=============================================================================

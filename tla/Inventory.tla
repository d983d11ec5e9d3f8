------------------------------ MODULE Inventory ------------------------------
(***************************************************************************)
(* Software inventories, the delta batches the agent computes from two of  *)
(* them (internal/agent/delta), and what the server's ingest transaction   *)
(* makes of a batch (internal/server/store/ingest.go).                     *)
(*                                                                         *)
(* An inventory maps every identity the agent can observe (delta.Key) to   *)
(* the attribute observed with it, or to NoAttr when it is not observed.   *)
(* An attribute stands for everything observableChange compares that is    *)
(* not already in the key: path, owning user, signature. A row holds less: *)
(* ColumnsOf gives what it keeps of an attribute. For host_software that   *)
(* is path and user; the signature is a column of software_catalog, which  *)
(* its upsert never changes, so a changed verdict is sent and rewrites the *)
(* row as it was. The install location, which host_software has and        *)
(* observableChange does not compare, is left out.                         *)
(***************************************************************************)
CONSTANTS
  Items,      \* delta.Key values: what the agent tells apart
  Attrs,      \* attribute values
  Columns,    \* what a row can say of an item
  ColumnsOf,  \* [Attrs -> Columns]: what it says of an attribute
  NoAttr,     \* "not observed", "no row"
  SourceOf,   \* [Items -> Sources]: Key.Source
  CatalogOf   \* the software_catalog row an item's payload resolves to

Sources == {"running", "installed"}

ASSUME InventoryAssumption ==
  /\ NoAttr \notin Attrs \cup Columns
  /\ ColumnsOf \in [Attrs -> Columns]
  /\ SourceOf \in [Items -> Sources]

-----------------------------------------------------------------------------
(* The agent's side. *)

AttrOrNone == Attrs \cup {NoAttr}
Inventory == [Items -> AttrOrNone]
EmptyInventory == [i \in Items |-> NoAttr]
Present(inv) == {i \in Items : inv[i] # NoAttr}

\* An IngestRequest: its op "upsert" deltas (payload per item), its op
\* "remove" deltas, and the FullSnapshot flag.
Batch == [full : BOOLEAN, upsert : Inventory, remove : SUBSET Items]

\* Mutant: observableChange is not asked, only new identities are sent.
PresenceDiff(last, cur, full) ==
  [full   |-> full,
   upsert |-> [i \in Items |-> IF last[i] = NoAttr THEN cur[i] ELSE NoAttr],
   remove |-> Present(last) \ Present(cur)]

\* delta.Diff against the last collected state: an upsert for whatever is new
\* or observably changed, a remove for whatever is gone.
Diff(last, cur, full) ==
  [full   |-> full,
   upsert |-> [i \in Items |-> IF cur[i] # last[i] THEN cur[i] ELSE NoAttr],
   remove |-> Present(last) \ Present(cur)]

IsEmptyDelta(b) == Present(b.upsert) = {} /\ b.remove = {}

-----------------------------------------------------------------------------
(* The server's side: one host's slice of host_software. *)

\* The primary key (catalog_id, source) of an item's row.
RowOf(i) == <<CatalogOf[i], SourceOf[i]>>
RowsOf(S) == {RowOf(i) : i \in S}
RowIds == RowsOf(Items)
Table == [RowIds -> Columns \cup {NoAttr}]

\* Mutant: a full snapshot is applied like any other batch.
RowAfterNoReconcile(t, b, w) ==
  LET upserts == {i \in Present(b.upsert) : RowOf(i) = w}
  IN IF w \in RowsOf(b.remove) THEN {NoAttr}
     ELSE IF upserts # {} THEN {ColumnsOf[b.upsert[i]] : i \in upserts}
     ELSE {t[w]}

\* The values row w may hold after IngestBatch applied b to table t. Upserts
\* come before removes in the payload, so a remove wins; of several upserts of
\* one row the last wins, and their order is the collector's. A full snapshot
\* deletes the other rows of the sources it holds an upsert of (seenBySource).
RowAfter(t, b, w) ==
  LET upserts == {i \in Present(b.upsert) : RowOf(i) = w}
      reconciled == b.full /\ \E i \in Present(b.upsert) : SourceOf[i] = w[2]
  IN IF w \in RowsOf(b.remove) THEN {NoAttr}
     ELSE IF upserts # {} THEN {ColumnsOf[b.upsert[i]] : i \in upserts}
     ELSE IF reconciled THEN {NoAttr}
     ELSE {t[w]}

\* The tables IngestBatch may leave.
Applied(t, b) == {u \in Table : \A w \in RowIds : u[w] \in RowAfter(t, b, w)}

-----------------------------------------------------------------------------
(* What it means for the server to show an inventory. *)

\* Row w shows inventory inv: the columns of an observed item of that row, or
\* no row when no such item is observed.
RowShows(t, inv, w) ==
  \/ \E i \in Present(inv) : RowOf(i) = w /\ t[w] = ColumnsOf[inv[i]]
  \/ w \notin RowsOf(Present(inv)) /\ t[w] = NoAttr

\* Every row of source s shows inv.
Shows(t, inv, s) == \A w \in RowIds : w[2] = s => RowShows(t, inv, w)

\* No two identities of the agent share a row of the server.
DistinctRows == \A i, j \in Items : RowOf(i) = RowOf(j) => i = j
=============================================================================

SPECIFICATION FairSpec
CONSTANTS
  p = p
  q = q
  i = i
  a1 = a1
  a1s = a1s
  a2 = a2
  here = here
  there = there
  r1 = r1
  r2 = r2
  NoAttr = NoAttr
  NoReq = NoReq
  Items <- MCItems
  Attrs <- MCAttrs
  Columns <- MCColumns
  ColumnsOf <- MCColumnsOf
  SourceOf <- MCSourceOf
  CatalogOf <- OwnCatalog
  Leftovers <- Reinstalled
  Collections <- Changing
  ReqIds <- MCReqIds
  SpoolMax = 3
  MaxAttempts = 2
  MaxBatches = 3
  BodyEncoding = "identity"
  Faults = {"net", "db", "ack", "crash"}
INVARIANTS
  CurrentWhenDrained
  ObservedIsListed
  FullSnapshotReconciles
PROPERTIES
  ImplementsMirror
  EventuallyIngested

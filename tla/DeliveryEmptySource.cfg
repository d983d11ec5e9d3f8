SPECIFICATION Spec
CONSTANTS
  p = p
  q = q
  i = i
  a1 = a1
  a1s = a1s
  a2 = a2
  here = here
  there = there
  r1 = r1
  r2 = r2
  NoAttr = NoAttr
  NoReq = NoReq
  Items <- MCItems
  Attrs <- MCAttrs
  Columns <- MCColumns
  ColumnsOf <- MCColumnsOf
  SourceOf <- MCSourceOf
  CatalogOf <- OwnCatalog
  Leftovers <- MCLeftovers
  Collections <- Failing
  ReqIds <- MCReqIds
  SpoolMax = 1
  MaxAttempts = 2
  MaxBatches = 2
  BodyEncoding = "identity"
  Faults = {}
SYMMETRY Symmetry
INVARIANTS
  FullSnapshotReconciles

SPECIFICATION Spec
CONSTANTS
  p = p
  q = q
  i = i
  a1 = a1
  a1s = a1s
  a2 = a2
  here = here
  there = there
  r1 = r1
  r2 = r2
  NoAttr = NoAttr
  NoReq = NoReq
  Items <- MCItems
  Attrs <- MCAttrs
  Columns <- MCColumns
  ColumnsOf <- MCColumnsOf
  SourceOf <- MCSourceOf
  CatalogOf <- OwnCatalog
  Leftovers <- MCLeftovers
  Collections <- Alive
  ReqIds <- MCReqIds
  SpoolMax = 1
  MaxAttempts = 2
  MaxBatches = 3
  BodyEncoding = "identity"
  Faults = {"net", "db", "push", "peek", "ack", "crash", "decommission"}
SYMMETRY Symmetry
INVARIANTS
  TypeOK
  AtMostOnce
  Durable
  InOrder
  Mirrored
PROPERTIES
  DecommissionCutsOff

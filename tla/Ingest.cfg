SPECIFICATION FairSpec
CONSTANTS
  x = x
  y = y
  i = i
  plain = plain
  moved = moved
  signed = signed
  A = A
  B = B
  h1 = h1
  h2 = h2
  h3 = h3
  NoAttr = NoAttr
  NoHandler = NoHandler
  NoJob = NoJob
  Items <- MCItems
  Attrs <- MCAttrs
  Columns <- MCColumns
  ColumnsOf <- MCColumnsOf
  SourceOf <- MCSourceOf
  CatalogOf <- MCCatalogOf
  Hosts = {A, B}
  Payloads <- MCPayloads
  SignedIn <- MCSignedIn
  Handlers <- MCHandlers
  PoolSize = 2
  MaxFaults = 1
  NameOf <- MCNameOf
  VersionOf <- MCVersionOf
  PlaceIn <- MCPlaceIn
INVARIANTS
  TypeOK
  SingleWriter
  AcceptedIsIngested
  Deduped
  UnsignedAsObserved
  SprawlAsObserved
CHECK_DEADLOCK FALSE
PROPERTIES
  CatalogKept
  ImplementsAtomicIngest
  EventuallyAccepted

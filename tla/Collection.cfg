SPECIFICATION FairSpec
CONSTANTS
  p = p
  q = q
  x = x
  u = u
  v = v
  c1 = c1
  c2 = c2
  Deleted = Deleted
  Mixed = Mixed
  NoHash = NoHash
  NoUser = NoUser
  NoDelta = NoDelta
  Processes <- MCProcesses
  Paths <- OnePath
  ExeOf <- SameExe
  UserOf <- MCUserOf
  NameOf <- OneName
  Users = {u, v}
  Names = {"x", "deleted"}
  Contents = {c1, c2}
  Originals = {c1}
  Concurrencies = {1, 2}
  MaxClock = 3
  Faults = {"list", "db", "crash"}
INVARIANTS
  TypeOK
  CacheSound
  StateIsSent
PROPERTIES
  SteadyIsListed
  CollectionEnds

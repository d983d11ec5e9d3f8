SPECIFICATION FairSpec
CONSTANTS
  m1 = m1
  m2 = m2
  c1 = c1
  c2 = c2
  c3 = c3
  Machines = {m1, m2}
  Calls = {c1, c2, c3}
  Signals <- MCSignals
  FactsOf <- OwnFacts
  Absent = Absent
  Torn = Torn
  NoHost = NoHost
  Faults = {"net", "db", "crash"}
INVARIANTS
  TypeOK
  KeyFits
  Registered
  HostIsMachine
PROPERTIES
  ImplementsRegistry
  RunsOrBroken
CHECK_DEADLOCK FALSE

SPECIFICATION FairSpec
CONSTANTS
  a1 = a1
  o1 = o1
  o2 = o2
  n1 = n1
  Agents <- MCAgents
  Ops <- MCOps
  Names <- MCNames
  Ghost = Ghost
  NoOp = NoOp
  Decoded <- MCDecoded
  BodyEncoding = "identity"
  Faults = {"net", "db", "disk", "crash"}
INVARIANTS
  TypeOK
  CurrentConfigSent
  AuditIsTrue
PROPERTIES
  DecommissionedHearsNothing
  LearnsConfig
  Delivered
CHECK_DEADLOCK FALSE

SPECIFICATION Spec
CONSTANTS
  Instances = {i1, i2}
  Requests = {r1, r2, r3}
  Ports = {a, b}
  Pids = {p1, p2}
  NoFile = NoFile
  Torn = Torn
  None = None
  MaxFaults <- RedisFaults
  Ops <- LifecycleOps
  Limit = 2
  MaxInFlight = 2
  Serialised = TRUE
  UniqueIDs = FALSE
  MonitorStart = "sweep"
  Restarts = FALSE
  Signals = FALSE
  PidfileDirectory = ""
  BrokerPidDir = ""
  MonitorPidDir = ""
  PidReuse = FALSE
SYMMETRY Symmetry
CHECK_DEADLOCK FALSE
INVARIANTS NoHalfInstance 

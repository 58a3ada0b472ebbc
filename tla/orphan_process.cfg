SPECIFICATION Spec
CONSTANTS
  Instances = {i1}
  Requests = {r1, r2}
  Ports = {a, b}
  Pids = {p1, p2}
  NoFile = NoFile
  Torn = Torn
  None = None
  MaxFaults <- NoFaults
  Ops <- LifecycleOps
  Limit = 1
  MaxInFlight = 1
  Serialised = TRUE
  UniqueIDs = TRUE
  MonitorStart = "sweep"
  Restarts = FALSE
  Signals = FALSE
  PidfileDirectory = ""
  BrokerPidDir = ""
  MonitorPidDir = ""
  PidReuse = FALSE
SYMMETRY Symmetry
CHECK_DEADLOCK FALSE
INVARIANTS ProcessStaysGone

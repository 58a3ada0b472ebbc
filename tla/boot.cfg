SPECIFICATION Spec
CONSTANTS
  Instances = {i1}
  Requests = {r1, r2}
  Ports = {a, b}
  Pids = {p1, p2, p3}
  NoFile = NoFile
  Torn = Torn
  None = None
  MaxFaults <- AnyFault
  Ops <- LifecycleOps
  Limit = 2
  MaxInFlight = 2
  Serialised = TRUE
  UniqueIDs = TRUE
  MonitorStart = "down"
  Restarts = TRUE
  Signals = TRUE
  PidfileDirectory = "pids"
  BrokerPidDir = ""
  MonitorPidDir = "pids"
  PidReuse = FALSE
SYMMETRY Symmetry
CHECK_DEADLOCK FALSE
INVARIANTS  CredentialsStable OneServerPerInstance 

SPECIFICATION Spec
CONSTANTS
  Instances = {i1, i2}
  Requests = {r1, r2}
  Ports = {a, b}
  Pids = {p1, p2}
  NoFile = NoFile
  Torn = Torn
  None = None
  MaxFaults <- NoFaults
  Ops <- ProvisionOnly
  Limit = 2
  MaxInFlight = 2
  Serialised = TRUE
  UniqueIDs = TRUE
  MonitorStart = "off"
  Restarts = TRUE
  Signals = FALSE
  PidfileDirectory = ""
  BrokerPidDir = ""
  MonitorPidDir = ""
  PidReuse = FALSE
SYMMETRY Symmetry
CHECK_DEADLOCK FALSE
INVARIANTS PortsDistinct

SPECIFICATION Spec
CONSTANTS
  Instances = {i1, i2, i3}
  Requests = {r1, r2, r3}
  Ports = {a, b}
  Pids = {p1, p2}
  NoFile = NoFile
  Torn = Torn
  None = None
  MaxFaults <- BrokerFaults
  Ops <- AllOps
  Limit = 1
  MaxInFlight = 2
  Serialised = FALSE
  UniqueIDs = TRUE
  MonitorStart = "off"
  Restarts = TRUE
  Signals = FALSE
  PidfileDirectory = ""
  BrokerPidDir = ""
  MonitorPidDir = ""
  PidReuse = FALSE
SYMMETRY Symmetry
CHECK_DEADLOCK FALSE
INVARIANTS TypeOK CredentialsStable ProcessStaysGone FilesStayGone OvershootBounded KillsOwnProcess
PROPERTY ImplementsService

SPECIFICATION FairSpec
CONSTANTS
  Instances = {i1}
  Requests = {r1, r2}
  Ports = {a}
  Pids = {p1, p2}
  NoFile = NoFile
  Torn = Torn
  None = None
  MaxFaults <- RedisFaults
  Ops <- AllOps
  Limit = 1
  MaxInFlight = 2
  Serialised = FALSE
  UniqueIDs = TRUE
  MonitorStart = "down"
  Restarts = TRUE
  Signals = FALSE
  PidfileDirectory = ""
  BrokerPidDir = "pids"
  MonitorPidDir = "pids"
  PidReuse = FALSE
PROPERTIES  RequestsAnswered HangsOnlyAtBoot

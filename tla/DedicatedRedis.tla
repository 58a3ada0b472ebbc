--------------------------- MODULE DedicatedRedis ---------------------------
(***************************************************************************)
(* The redis-server of a dedicated VM, as the redis client, the backup     *)
(* pipeline and the resetter meet it: its data set, appendonly.aof and     *)
(* dump.rdb, background saves and LASTSAVE, and monit, which runs it.      *)
(* None of this is code of the repository.  A data set is named by the     *)
(* last write it contains, 0 when it is empty.                             *)
(***************************************************************************)
EXTENDS RedisConf, FiniteSets

CONSTANTS
  NoFile,       \* a file that does not exist
  None,         \* no background save, no reading
  Deployments,  \* the redis.conf files a VM may start with, and the script it runs
  MaxWrites,    \* how many writes clients make
  MaxTime,      \* how many seconds pass
  MaxCalls,     \* how many backups and resets are asked for
  MaxFaults     \* how often redis dies or an operation fails

ASSUME DeploymentsAssumption ==
  \A d \in Deployments : /\ d.live # <<>> /\ d.default # <<>>
                         /\ d.script \in {"none", "busy", "stuck"}
ASSUME NoneAssumption == None \notin Nat /\ NoFile \notin Nat
ASSUME BoundsAssumption == MaxWrites \in Nat /\ MaxTime \in Nat
                          /\ MaxCalls \in Nat /\ MaxFaults \in Nat

VARIABLES
  default,    \* the redis.conf at defaultConfPath
  live,       \* the redis.conf at liveConfPath
  up,         \* "down", "loading" its data set, or "ready"
  server,     \* the redis.conf that redis-server was started with
  pid,        \* names the running redis-server; a new one each time
  script,     \* the Lua script it runs: "none", "busy", or "stuck" (it has written)
  appendonly, \* whether it writes appendonly.aof
  data,       \* its data set
  dirty,      \* whether the data set changed since the last save
  saving,     \* the data set that a background save is writing
  saves,      \* how many saves have been completed
  lastsave,   \* LASTSAVE
  aof,        \* the data set in appendonly.aof
  rdb,        \* dump.rdb: its data set, and the number of the save that wrote it
  monitored,  \* whether monit restarts redis
  time,       \* the clock, in seconds
  writes,     \* writes so far
  asked,      \* backups and resets asked for so far
  faults      \* faults that may still happen

redisVars == <<up, server, pid, script, appendonly, data, dirty, saving, saves,
               lastsave, aof, rdb, monitored>>
environment == <<default, time, writes, asked>>

YES == <<"yes">>
AppendOnly(conf) == Get(conf, <<"appendonly">>) = YES

\* Where redis-server listens when it runs with conf
PlainPorts(conf) ==
  LET port == Get(conf, <<"port">>)
  IN  (IF port \in DOMAIN Atoi THEN {Atoi[port]} ELSE {DefaultPort}) \ {0}
TLSPorts(conf) ==
  LET port == Get(conf, <<"tls-port">>)
  IN  (IF port \in DOMAIN Atoi THEN {Atoi[port]} ELSE {}) \ {0}

Accepts(port) == up # "down" /\ port \in PlainPorts(server) \cup TLSPorts(server)

\* AUTH is refused when no password is set
AuthSucceeds(password) == password # <<>> /\ password = Password(server)

\* strings.ToUpper, on the spellings of commands that occur
ToUpper(cmd) == IF cmd = <<"config">> THEN <<"CONFIG">> ELSE cmd

\* Every redis.conf there may be, and the aliases in it
Confs == {d.live : d \in Deployments} \cup {d.default : d \in Deployments} \cup {<<>>}
Aliases == [conf \in Confs |-> CommandAliases(conf)]

\* Whether redis-server knows the command cmd under this name; it reads the
\* names in its redis.conf in either case
Knows(cmd, name) ==
  LET aliases == Aliases[server]
      renamed == {c \in DOMAIN aliases : ToUpper(c) = cmd}
  IN  IF renamed = {} THEN name = cmd
      ELSE name # <<>> /\ name \in {aliases[c] : c \in renamed}

Fault == faults > 0 /\ faults' = faults - 1
NoFault == UNCHANGED faults
Call == asked < MaxCalls /\ asked' = asked + 1

-----------------------------------------------------------------------------
\* redis-server starts on the live redis.conf
Loads == IF AppendOnly(live) THEN IF aof = NoFile THEN 0 ELSE aof
         ELSE IF rdb = NoFile THEN 0 ELSE rdb.data

Starts ==
  /\ up = "down"
  /\ up' = "loading" /\ server' = live /\ pid' = pid + 1
  /\ script' = "none" /\ appendonly' = AppendOnly(live)
  /\ data' = Loads /\ dirty' = FALSE /\ saving' = None /\ lastsave' = time
  /\ aof' = IF AppendOnly(live) THEN Loads ELSE aof
  /\ monitored' = TRUE
  /\ UNCHANGED <<saves, rdb>>

Stored(d) == rdb' = [data |-> d, n |-> saves + 1] /\ saves' = saves + 1

\* On SIGTERM redis-server drops a background save and may write dump.rdb
Stops ==
  /\ \/ up = "ready" /\ Stored(data)
     \/ UNCHANGED <<rdb, saves>>
  /\ up' = "down" /\ saving' = None /\ monitored' = FALSE
  /\ UNCHANGED <<server, pid, script, appendonly, data, dirty, lastsave, aof>>

\* redis-server dies; its background save may still complete
Dies ==
  /\ up # "down" /\ Fault
  /\ \/ saving # None /\ Stored(saving)
     \/ UNCHANGED <<rdb, saves>>
  /\ up' = "down" /\ saving' = None
  /\ UNCHANGED <<server, pid, script, appendonly, data, dirty, lastsave, aof, monitored,
                 live, environment>>

MonitRestarts ==
  /\ monitored /\ Starts
  /\ UNCHANGED <<live, environment, faults>>

Loaded ==
  /\ up = "loading" /\ up' = "ready"
  /\ UNCHANGED <<server, pid, script, appendonly, data, dirty, saving, saves, lastsave,
                 aof, rdb, monitored, live, environment, faults>>

ScriptEnds ==
  /\ script # "none" /\ script' = "none"
  /\ UNCHANGED <<up, server, pid, appendonly, data, dirty, saving, saves, lastsave,
                 aof, rdb, monitored, live, environment, faults>>

\* A client of the service writes
Write ==
  /\ up = "ready" /\ script = "none" /\ writes < MaxWrites
  /\ writes' = writes + 1 /\ data' = writes' /\ dirty' = TRUE
  /\ aof' = IF appendonly THEN writes' ELSE aof
  /\ UNCHANGED <<up, server, pid, script, appendonly, saving, saves, lastsave, rdb,
                 monitored, live, default, time, asked, faults>>

\* Background saves: BGSAVE, or the save directive of redis.conf
BackgroundSave ==
  /\ saving = None /\ saving' = data
  /\ UNCHANGED <<up, server, pid, script, appendonly, data, dirty, saves, lastsave,
                 aof, rdb, monitored>>

SaveDirective ==
  /\ up = "ready" /\ dirty /\ BackgroundSave
  /\ UNCHANGED <<live, environment, faults>>

SaveEnds ==
  /\ saving # None /\ saving' = None
  /\ \/ /\ Stored(saving) /\ lastsave' = time
        /\ dirty' = (data # saving)
        /\ NoFault
     \/ Fault /\ UNCHANGED <<rdb, saves, lastsave, dirty>>
  /\ UNCHANGED <<up, server, pid, script, appendonly, data, aof, monitored,
                 live, environment>>

Tick ==
  /\ time < MaxTime /\ time' = time + 1
  /\ UNCHANGED <<redisVars, live, default, writes, asked, faults>>

RedisInit ==
  /\ \E d \in Deployments : default = d.default /\ live = d.live /\ script = d.script
  /\ up = "ready" /\ server = live /\ pid = 0
  /\ appendonly = AppendOnly(live)
  /\ data = 0 /\ dirty = FALSE /\ saving = None /\ saves = 0 /\ lastsave = 0
  /\ aof = IF appendonly THEN 0 ELSE NoFile
  /\ rdb = NoFile /\ monitored = TRUE
  /\ time = 0 /\ writes = 0 /\ asked = 0 /\ faults = MaxFaults

Snapshot == [data : Nat, n : Nat]

RedisTypeOK ==
  /\ default \in Confs \ {<<>>} /\ live \in Confs /\ server \in Confs
  /\ up \in {"down", "loading", "ready"} /\ pid \in Nat
  /\ script \in {"none", "busy", "stuck"}
  /\ appendonly \in BOOLEAN /\ dirty \in BOOLEAN /\ monitored \in BOOLEAN
  /\ data \in Nat /\ saving \in Nat \cup {None} /\ saves \in Nat /\ lastsave \in Nat
  /\ aof \in Nat \cup {NoFile} /\ rdb \in Snapshot \cup {NoFile}
  /\ time \in Nat /\ writes \in Nat /\ asked \in Nat /\ faults \in Nat

RedisSteps == \/ Dies \/ MonitRestarts \/ Loaded \/ ScriptEnds \/ Write
              \/ SaveDirective \/ SaveEnds \/ Tick
=============================================================================

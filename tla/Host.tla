-------------------------------- MODULE Host --------------------------------
(***************************************************************************)
(* The VM that the broker and the process monitor share: the files of each *)
(* service instance, the redis-server processes and the ports they hold.   *)
(* The operating system and redis-server are not part of this repository;  *)
(* they are modelled from how src/ uses them: redis-server runs with       *)
(* `daemonize yes', so the command the broker runs returns once the        *)
(* configuration is read, and the daemon then binds its port, writes its   *)
(* pidfile, and loads its data set before it answers PING.                 *)
(***************************************************************************)
EXTENDS Naturals, FiniteSets

CONSTANTS
  Instances,   \* service instance IDs
  Requests,    \* HTTP requests; each also names the uuid it may draw
  Ports,       \* ports net.Listen(":0") may return
  Pids,        \* process IDs
  NoFile,      \* redis.conf does not exist
  Torn,        \* redis.conf was truncated and its contents not yet written
  None,        \* no process, no pid, no instance
  MaxFaults    \* how often each kind of fault may happen

\* The redis.Instance built by LocalInstanceCreator.Create, without the ID.
\* The password is a fresh uuid, so it is named by the request that drew it.
Instance == [port : Ports, password : Requests]

FaultKind == {"redis", "broker", "monitor", "io"}

\* redis-server: executed; holds its port; wrote its pidfile and loads the
\* data set (PING is answered with -LOADING); answers PING.
Phase == {"starting", "listening", "loading", "ready"}

Process == [id : Instances, port : Ports, password : Requests, phase : Phase]

ASSUME NoFileAssumption == NoFile \notin Instance /\ Torn \notin Instance /\ NoFile # Torn
ASSUME NoneAssumption == /\ None \notin Instance
                         /\ None \notin Process
                         /\ None \notin Pids
                         /\ None \notin Instances
                         /\ None \notin {NoFile, Torn}
ASSUME FaultsAssumption == MaxFaults \in [FaultKind -> Nat]

VARIABLES
  dirs,     \* instances whose base directory exists
  dbs,      \* instances whose data directory (base/db) exists
  logs,     \* instances whose log directory exists
  locks,    \* instances whose lock file (base/lock) exists
  conf,     \* the redis.conf of each instance
  pidfile,  \* the pid in each instance's pidfile, None if there is none
  proc,     \* the redis-server process behind each pid, None if there is none
  faults    \* faults that may still happen

files == <<dirs, dbs, logs, locks, conf>>
hostVars == <<dirs, dbs, logs, locks, conf, pidfile, proc, faults>>

HostTypeOK ==
  /\ dirs \subseteq Instances
  /\ dbs \subseteq Instances
  /\ logs \subseteq Instances
  /\ locks \subseteq Instances
  /\ conf \in [Instances -> Instance \cup {NoFile, Torn}]
  /\ pidfile \in [Instances -> Pids \cup {None}]
  /\ proc \in [Pids -> Process \cup {None}]
  /\ faults \in [FaultKind -> Nat]

HostInit ==
  /\ dirs = {} /\ dbs = {} /\ logs = {} /\ locks = {}
  /\ conf = [i \in Instances |-> NoFile]
  /\ pidfile = [i \in Instances |-> None]
  /\ proc = [p \in Pids |-> None]
  /\ faults = MaxFaults

-----------------------------------------------------------------------------
Fault(kind) == /\ faults[kind] > 0
               /\ faults' = [faults EXCEPT ![kind] = @ - 1]

\* process.Alive: signal 0 reaches some process
Alive(p) == proc[p] # None

Bound(p) == proc[p] # None /\ proc[p].phase # "starting"

\* availability.isListening: any process accepting connections will do
Listening(port) == \E p \in Pids : Bound(p) /\ proc[p].port = port

\* client.Ping: redis-server answers PONG, or -LOADING until it loaded its data
Pongs(p) == proc[p].phase = "ready"

\* PingServer: a process at that port and password answers
Answers(inst) == \E p \in Pids : /\ Bound(p)
                                 /\ Pongs(p)
                                 /\ proc[p].port = inst.port
                                 /\ proc[p].password = inst.password

-----------------------------------------------------------------------------
(* Steps of the redis-server daemons. *)

RedisListens(p) ==
  /\ proc[p] # None /\ proc[p].phase = "starting"
  /\ ~Listening(proc[p].port)
  /\ proc' = [proc EXCEPT ![p].phase = "listening"]
  /\ UNCHANGED <<files, pidfile, faults>>

\* "Address already in use": the daemon exits, and nobody sees its status
RedisCannotListen(p) ==
  /\ proc[p] # None /\ proc[p].phase = "starting"
  /\ Listening(proc[p].port)
  /\ proc' = [proc EXCEPT ![p] = None]
  /\ UNCHANGED <<files, pidfile, faults>>

RedisWritesPidfile(p) ==
  /\ proc[p] # None /\ proc[p].phase = "listening"
  /\ proc' = [proc EXCEPT ![p].phase = "loading"]
  /\ pidfile' = [pidfile EXCEPT ![proc[p].id] = p]
  /\ UNCHANGED <<files, faults>>

RedisLoaded(p) ==
  /\ proc[p] # None /\ proc[p].phase = "loading"
  /\ proc' = [proc EXCEPT ![p].phase = "ready"]
  /\ UNCHANGED <<files, pidfile, faults>>

\* Killed by the kernel or a crash: the pidfile stays behind
RedisDies(p) ==
  /\ proc[p] # None
  /\ Fault("redis")
  /\ proc' = [proc EXCEPT ![p] = None]
  /\ UNCHANGED <<files, pidfile>>

RedisRuns(p) == \/ RedisListens(p)
                \/ RedisCannotListen(p)
                \/ RedisWritesPidfile(p)
                \/ RedisLoaded(p)
=============================================================================

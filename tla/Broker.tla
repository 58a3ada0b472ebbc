------------------------------- MODULE Broker -------------------------------
(***************************************************************************)
(* The service broker: RedisServiceBroker, LocalInstanceCreator and what   *)
(* they call.  Every HTTP request runs its handler in a goroutine of its   *)
(* own and nothing in the process is locked, so the handlers interleave at *)
(* each system call.  A request is used for one call.                      *)
(***************************************************************************)
EXTENDS LocalRepository

CONSTANTS
  Ops,          \* the operations clients call
  Limit,        \* ServiceInstanceLimit
  MaxInFlight,  \* requests served at a time
  Serialised,   \* clients wait for an instance's call before the next one
  UniqueIDs,    \* clients use an instance ID for one Provision only
  BrokerPidDir  \* SHARED_PID_DIR in the broker's environment, "" when not set

Operations == {"provision", "deprovision", "bind", "unbind", "other"}

ASSUME OpsAssumption == Ops \subseteq Operations
ASSUME LimitAssumption == Limit \in Nat /\ MaxInFlight \in Nat \ {0}
ASSUME ClientsAssumption == Serialised \in BOOLEAN /\ UniqueIDs \in BOOLEAN

\* setPidDir: the environment comes before the configuration
BrokerRepo == IF BrokerPidDir = "" THEN NewLocalRepository
              ELSE [NewLocalRepository EXCEPT !.PidfileDirectory = BrokerPidDir]

VARIABLE req    \* the handler of each request

\* Provision's steps before it created the lock file, and after
Unlocked == {"list", "load", "pick", "mkdata", "mklogs", "lock"}
Unwritten == {"truncate", "fill"}
Starting == {"start", "wait", "unlock", "hung"}
Destroying == {"find", "mark", "pid", "kill", "names", "remove", "rmlogs", "rmpid"}
Steps == Unlocked \cup Unwritten \cup Starting \cup Destroying
           \cup {"idle", "credentials", "done"}

Replies == {"none", "ok", "exists", "limit", "missing", "error", "aborted"}

Handler == [op    : Operations \cup {"none"},
            id    : Instances \cup {None},
            pc    : Steps,
            inst  : Instance \cup {None},  \* the redis.Instance in hand
            todo  : SUBSET Instances,      \* directories left to load
            n     : Nat,                   \* instances loaded so far
            pid   : Pids \cup {None},      \* read from the pidfile
            names : SUBSET {"db", "lock", "redis.conf"},  \* left to unlink
            reply : Replies]

BrokerTypeOK == req \in [Requests -> Handler]

NoHandler == [op |-> "none", id |-> None, pc |-> "idle", inst |-> None,
              todo |-> {}, n |-> 0, pid |-> None, names |-> {}, reply |-> "none"]

BrokerInit == req = [r \in Requests |-> NoHandler]

Active(r) == req[r].pc \notin {"idle", "done"}

-----------------------------------------------------------------------------
At(r, step) == req[r].pc = step

Goto(r, step) == req' = [req EXCEPT ![r].pc = step]

\* The handler returns; its locals go with it, except the instance it built
Reply(r, answer) ==
  req' = [req EXCEPT ![r].pc = "done", ![r].reply = answer, ![r].todo = {},
                     ![r].n = 0, ![r].pid = None, ![r].names = {}]

\* A client sends request r, about instance i, as its discipline allows
Arrives(r, op, i) ==
  /\ op \in Ops /\ At(r, "idle")
  /\ Cardinality({q \in Requests : Active(q)}) < MaxInFlight
  /\ Serialised => \A q \in Requests : Active(q) => req[q].id # i
  /\ UniqueIDs /\ op = "provision"
       => \A q \in Requests : req[q].op = "provision" => req[q].id # i

Begin(r, o, i, step, answer) ==
  req' = [req EXCEPT ![r].op = o, ![r].id = i, ![r].pc = step, ![r].reply = answer]

SharedEnabled == Limit > 0

PlanNameShared == "shared-vm"

plans == IF SharedEnabled THEN {PlanNameShared} ELSE {}

\* The catalog, from which clients learn the plans
Services == plans

Recognized(plan) == plan \in plans

\* The broker's check drops the error of os.Stat: the instance seems not to exist
instanceExists(i, found) ==
  \/ found = InstanceExists(i) /\ UNCHANGED faults
  \/ ~found /\ Fault("io")

-----------------------------------------------------------------------------
(* Provision: LocalInstanceCreator.Create *)

Provision(r, i, plan) ==
  /\ Arrives(r, "provision", i)
  /\ \/ instanceExists(i, TRUE) /\ Begin(r, "provision", i, "done", "exists")
     \/ /\ instanceExists(i, FALSE)
        /\ \/ ~Recognized(plan) /\ Begin(r, "provision", i, "done", "error")
           \/ Recognized(plan) /\ Begin(r, "provision", i, "list", "none")
  /\ UNCHANGED <<files, pidfile, proc>>

\* InstanceCount: ReadDir of the data directory, then FindByID of each entry
ListInstances(r) ==
  /\ At(r, "list")
  /\ req' = [req EXCEPT ![r].pc = "load", ![r].todo = dirs]
  /\ UNCHANGED hostVars

CountInstance(r, i) ==
  /\ At(r, "load") /\ i \in req[r].todo
  /\ \/ Readable(i) /\ req' = [req EXCEPT ![r].todo = @ \ {i}, ![r].n = @ + 1]
     \/ ~Readable(i) /\ Reply(r, "error")
  /\ UNCHANGED hostVars

\* Mutant: off by one
AtLimit_OffByOne(n) == n > Limit

AtLimit(n) == n >= Limit

CheckLimit(r) ==
  /\ At(r, "load") /\ req[r].todo = {}
  /\ \/ AtLimit(req[r].n) /\ Reply(r, "limit")
     \/ ~AtLimit(req[r].n) /\ req' = [req EXCEPT ![r].pc = "pick", ![r].n = 0]
  /\ UNCHANGED hostVars

\* system.FindFreePort: a port nobody listens on now, released at once.
\* When Listen fails, its ignored error makes l.Close a nil dereference.
FindFreePort(r) ==
  /\ At(r, "pick")
  /\ \/ \E port \in Ports :
          /\ ~Listening(port)
          /\ req' = [req EXCEPT ![r].pc = "mkdata",
                                ![r].inst = [port |-> port, password |-> r]]
     \/ (\A port \in Ports : Listening(port)) /\ Reply(r, "aborted")
  /\ UNCHANGED hostVars

-----------------------------------------------------------------------------
(* LocalRepository.Setup *)

SetupDataDir(r) ==
  /\ At(r, "mkdata") /\ Goto(r, "mklogs")
  /\ MakeDataDir(req[r].id)
  /\ UNCHANGED <<pidfile, proc, faults>>

SetupLogDir(r) ==
  /\ At(r, "mklogs") /\ Goto(r, "lock")
  /\ MakeLogDir(req[r].id)
  /\ UNCHANGED <<pidfile, proc, faults>>

\* Mutant: the call of Lock is missing
SetupLock_Missing(r) ==
  /\ At(r, "lock") /\ Goto(r, "truncate")
  /\ UNCHANGED hostVars

SetupLock(r) ==
  /\ At(r, "lock")
  /\ \/ Lock(req[r].id) /\ Goto(r, "truncate")
     \/ ~InstanceExists(req[r].id) /\ Reply(r, "error") /\ UNCHANGED files
  /\ UNCHANGED <<pidfile, proc, faults>>

SetupTruncate(r) ==
  /\ At(r, "truncate")
  /\ \/ TruncateConfig(req[r].id) /\ Goto(r, "fill")
     \/ ~InstanceExists(req[r].id) /\ Reply(r, "error") /\ UNCHANGED files
  /\ UNCHANGED <<pidfile, proc, faults>>

\* Mutant: the port is looked for again when the file is written
SetupFill_NewPort(r) ==
  /\ At(r, "fill") /\ Goto(r, "start")
  /\ \E port \in Ports :
       /\ ~Listening(port)
       /\ FillConfig(req[r].id, [req[r].inst EXCEPT !.port = port])
  /\ UNCHANGED <<pidfile, proc, faults>>

SetupFill(r) ==
  /\ At(r, "fill") /\ Goto(r, "start")
  /\ FillConfig(req[r].id, req[r].inst)
  /\ UNCHANGED <<pidfile, proc, faults>>

(* startLocalInstance, then Unlock *)

StartFails(r) ==
  /\ At(r, "start")
  /\ \/ CannotExec(req[r].id) /\ Reply(r, "error")
     \/ Foreground(req[r].id) /\ Goto(r, "hung")
  /\ UNCHANGED hostVars

Start(r, p) ==
  /\ At(r, "start") /\ Goto(r, "wait")
  /\ Exec(req[r].id, p)
  /\ UNCHANGED <<files, pidfile, faults>>

\* Mutant: availability.Check without its timeout
WaitUntilConnectable_Forever(r) ==
  /\ At(r, "wait")
  /\ Listening(req[r].inst.port) /\ Goto(r, "unlock")
  /\ UNCHANGED hostVars

\* availability.Check on the instance's address, which may time out first
WaitUntilConnectable(r) ==
  /\ At(r, "wait")
  /\ \/ Listening(req[r].inst.port) /\ Goto(r, "unlock")
     \/ ~Listening(req[r].inst.port) /\ Reply(r, "error")
  /\ UNCHANGED hostVars

\* Mutant: the error of Unlock is dropped
UnlockInstance_Unchecked(r) ==
  /\ At(r, "unlock") /\ Reply(r, "ok")
  /\ locks' = locks \ {req[r].id}
  /\ UNCHANGED <<dirs, dbs, logs, conf, pidfile, proc, faults>>

UnlockInstance(r) ==
  /\ At(r, "unlock")
  /\ \/ Unlock(req[r].id) /\ Reply(r, "ok")
     \/ req[r].id \notin locks /\ Reply(r, "error") /\ UNCHANGED files
  /\ UNCHANGED <<pidfile, proc, faults>>

-----------------------------------------------------------------------------
(* Deprovision: LocalInstanceCreator.Destroy *)

Deprovision(r, i) ==
  /\ Arrives(r, "deprovision", i)
  /\ \/ instanceExists(i, TRUE) /\ Begin(r, "deprovision", i, "find", "none")
     \/ instanceExists(i, FALSE) /\ Begin(r, "deprovision", i, "done", "missing")
  /\ UNCHANGED <<files, pidfile, proc>>

\* Mutant: the error of FindByID is dropped
DestroyFind_Unchecked(r) ==
  /\ At(r, "find")
  /\ req' = [req EXCEPT ![r].pc = "mark", ![r].inst = conf[req[r].id]]
  /\ UNCHANGED hostVars

DestroyFind(r) ==
  /\ At(r, "find")
  /\ \/ /\ Readable(req[r].id)
        /\ req' = [req EXCEPT ![r].pc = "mark", ![r].inst = conf[req[r].id]]
     \/ ~Readable(req[r].id) /\ Reply(r, "error")
  /\ UNCHANGED hostVars

DestroyLock(r) ==
  /\ At(r, "mark")
  /\ \/ Lock(req[r].id) /\ Goto(r, "pid")
     \/ ~InstanceExists(req[r].id) /\ Reply(r, "error") /\ UNCHANGED files
  /\ UNCHANGED <<pidfile, proc, faults>>

\* Mutant: an instance without a pidfile is taken for stopped
KillInstance_Ignored(r) ==
  /\ At(r, "pid")
  /\ \/ /\ pidfile[req[r].id] # None
        /\ req' = [req EXCEPT ![r].pc = "kill", ![r].pid = pidfile[req[r].id]]
     \/ pidfile[req[r].id] = None /\ Goto(r, "names")
  /\ UNCHANGED hostVars

\* Mutant: the path of the pidfile does not depend on the instance
KillInstance_AnyFile(r) ==
  /\ At(r, "pid")
  /\ \E i \in Instances :
       /\ pidfile[i] # None
       /\ req' = [req EXCEPT ![r].pc = "kill", ![r].pid = pidfile[i]]
  /\ UNCHANGED hostVars

\* OSProcessController.Kill reads the pid, then calls ProcessKiller.Kill
KillInstance(r) ==
  /\ At(r, "pid")
  /\ \/ /\ InstancePid(req[r].id) # None
        /\ req' = [req EXCEPT ![r].pc = "kill", ![r].pid = InstancePid(req[r].id)]
     \/ InstancePid(req[r].id) = None /\ Reply(r, "error")
  /\ UNCHANGED hostVars

Kill(r) ==
  /\ At(r, "kill")
  /\ \/ /\ Alive(req[r].pid)
        /\ proc' = [proc EXCEPT ![req[r].pid] = None]
        /\ req' = [req EXCEPT ![r].pc = "names", ![r].pid = None]
     \/ ~Alive(req[r].pid) /\ Reply(r, "error") /\ UNCHANGED proc
  /\ UNCHANGED <<files, pidfile, faults>>

(* LocalRepository.Delete *)

DeleteNames(r) ==
  /\ At(r, "names")
  /\ req' = [req EXCEPT ![r].pc = "remove", ![r].names = Entries(req[r].id)]
  /\ UNCHANGED hostVars

DeleteEntry(r) ==
  /\ At(r, "remove")
  /\ \E e \in req[r].names :
       /\ RemoveEntry(req[r].id, e)
       /\ req' = [req EXCEPT ![r].names = @ \ {e}]
  /\ UNCHANGED <<pidfile, proc, faults>>

\* Mutant: the error of RemoveAll is dropped
DeleteBaseDir_Unchecked(r) ==
  /\ At(r, "remove") /\ req[r].names = {} /\ Goto(r, "rmlogs")
  /\ dirs' = IF Entries(req[r].id) = {} THEN dirs \ {req[r].id} ELSE dirs
  /\ UNCHANGED <<dbs, logs, locks, conf, pidfile, proc, faults>>

\* Mutant: the directory is emptied and kept
DeleteBaseDir_Kept(r) ==
  /\ At(r, "remove") /\ req[r].names = {} /\ Goto(r, "rmlogs")
  /\ UNCHANGED hostVars

\* rmdir fails when somebody created an entry meanwhile
DeleteBaseDir(r) ==
  /\ At(r, "remove") /\ req[r].names = {}
  /\ \/ /\ Entries(req[r].id) = {}
        /\ dirs' = dirs \ {req[r].id} /\ Goto(r, "rmlogs")
     \/ Entries(req[r].id) # {} /\ Reply(r, "error") /\ UNCHANGED dirs
  /\ UNCHANGED <<dbs, logs, locks, conf, pidfile, proc, faults>>

DeleteLogDir(r) ==
  /\ At(r, "rmlogs") /\ Goto(r, "rmpid")
  /\ RemoveLogDir(req[r].id)
  /\ UNCHANGED <<pidfile, proc, faults>>

\* A pidfile that cannot be removed is only logged
DeletePidfile(r) ==
  /\ At(r, "rmpid") /\ Reply(r, "ok")
  /\ \/ pidfile' = [pidfile EXCEPT ![req[r].id] = None] /\ UNCHANGED faults
     \/ Fault("io") /\ UNCHANGED pidfile
  /\ UNCHANGED <<files, proc>>

-----------------------------------------------------------------------------
(* Bind returns the credentials in redis.conf; Unbind does nothing. *)

Bind(r, i) ==
  /\ Arrives(r, "bind", i)
  /\ \/ instanceExists(i, TRUE) /\ Begin(r, "bind", i, "credentials", "none")
     \/ instanceExists(i, FALSE) /\ Begin(r, "bind", i, "done", "missing")
  /\ UNCHANGED <<files, pidfile, proc>>

BindCredentials(r) ==
  /\ At(r, "credentials")
  /\ \/ /\ Readable(req[r].id)
        /\ req' = [req EXCEPT ![r].pc = "done", ![r].reply = "ok",
                              ![r].inst = conf[req[r].id]]
     \/ ~Readable(req[r].id) /\ Reply(r, "error")
  /\ UNCHANGED hostVars

Unbind(r, i) ==
  /\ Arrives(r, "unbind", i)
  /\ \/ instanceExists(i, TRUE) /\ Begin(r, "unbind", i, "done", "ok")
     \/ instanceExists(i, FALSE) /\ Begin(r, "unbind", i, "done", "missing")
  /\ UNCHANGED <<files, pidfile, proc>>

\* Update, LastOperation and the others that are not implemented
Unimplemented(r, i) ==
  /\ Arrives(r, "other", i)
  /\ Begin(r, "other", i, "done", "error")
  /\ UNCHANGED hostVars

-----------------------------------------------------------------------------
(* Failures. *)

\* A system call of the handler fails (disk full, permissions, fork)
CallFails(r) ==
  /\ Active(r) /\ req[r].pc \notin {"hung", "wait", "rmpid"}
  /\ Fault("io")
  /\ Reply(r, "error")
  /\ UNCHANGED <<files, pidfile, proc>>

\* SIGTERM calls os.Exit(0) whatever the handlers are doing; a crash does
\* the same.  monit starts the broker again, which keeps nothing in memory.
BrokerExits ==
  /\ \E r \in Requests : Active(r)
  /\ Fault("broker")
  /\ req' = [r \in Requests |->
               IF Active(r)
               THEN [req[r] EXCEPT !.pc = "done", !.reply = "aborted", !.todo = {},
                                   !.n = 0, !.pid = None, !.names = {}]
               ELSE req[r]]
  /\ UNCHANGED <<files, pidfile, proc>>

-----------------------------------------------------------------------------
Create(r) ==
  \/ ListInstances(r)
  \/ \E i \in Instances : CountInstance(r, i)
  \/ CheckLimit(r) \/ FindFreePort(r)
  \/ SetupDataDir(r) \/ SetupLogDir(r) \/ SetupLock(r)
  \/ SetupTruncate(r) \/ SetupFill(r)
  \/ StartFails(r) \/ WaitUntilConnectable(r) \/ UnlockInstance(r)

Destroy(r) ==
  \/ DestroyFind(r) \/ DestroyLock(r) \/ KillInstance(r) \/ Kill(r)
  \/ DeleteNames(r) \/ DeleteEntry(r) \/ DeleteBaseDir(r)
  \/ DeleteLogDir(r) \/ DeletePidfile(r)

Arrival(r, i) ==
  \/ \E plan \in Services \cup {"unknown"} : Provision(r, i, plan)
  \/ Deprovision(r, i) \/ Bind(r, i) \/ Unbind(r, i) \/ Unimplemented(r, i)

\* One step of the goroutine that serves r, other than executing redis-server
Handle(r) == Create(r) \/ Destroy(r) \/ BindCredentials(r)
=============================================================================

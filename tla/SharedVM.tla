------------------------------ MODULE SharedVM ------------------------------
(***************************************************************************)
(* The shared VM at work: broker, process monitor and redis-servers.       *)
(***************************************************************************)
EXTENDS Broker, ProcessMonitor

CONSTANT PidReuse   \* whether the kernel may reuse a pid someone still names

ASSUME PidReuseAssumption == PidReuse \in BOOLEAN

\* Each program settles for itself where pidfiles are.  An instance has one
\* pidfile, which both read, because they are deployed so that they agree.
ASSUME PidDirAssumption == BrokerRepo.PidfileDirectory = MonitorRepo.PidfileDirectory

vars == <<hostVars, req, mon>>

TypeOK == HostTypeOK /\ BrokerTypeOK /\ MonitorTypeOK

Init == HostInit /\ BrokerInit /\ MonitorInit

Referenced(p) == \/ \E i \in Instances : pidfile[i] = p
                 \/ \E r \in Requests : req[r].pid = p

FreePids == {p \in Pids : proc[p] = None /\ (PidReuse \/ ~Referenced(p))}

HandlerStep(r) == Handle(r) /\ UNCHANGED mon
HandlerStart(r) == (\E p \in FreePids : Start(r, p)) /\ UNCHANGED mon

BrokerNext ==
  \/ \E r \in Requests : \/ \E i \in Instances : Arrival(r, i) /\ UNCHANGED mon
                         \/ HandlerStep(r)
                         \/ HandlerStart(r)
                         \/ CallFails(r) /\ UNCHANGED mon
  \/ BrokerExits /\ UNCHANGED mon

MonitorStep == Monitors /\ UNCHANGED req
MonitorRestart == (\E p \in FreePids : Restart(p)) /\ UNCHANGED req

MonitorNext == \/ MonitorStep
               \/ MonitorRestart
               \/ (SignalUSR1 \/ MonDies) /\ UNCHANGED req

RedisStep(p) == RedisRuns(p) /\ UNCHANGED <<req, mon>>

RedisNext == \E p \in Pids : \/ RedisStep(p)
                             \/ RedisDies(p) /\ UNCHANGED <<req, mon>>

Next == BrokerNext \/ MonitorNext \/ RedisNext

Spec == Init /\ [][Next]_vars

\* Goroutines, the monitor and the daemons are all scheduled by the kernel
\* (and monit restarts the monitor); clients and faults owe nothing.
Fairness == /\ \A r \in Requests : WF_vars(HandlerStep(r) \/ HandlerStart(r))
            /\ WF_vars(MonitorStep \/ MonitorRestart)
            /\ \A p \in Pids : WF_vars(RedisStep(p))

FairSpec == Spec /\ Fairness
-----------------------------------------------------------------------------
(* Credentials. *)

\* Every copy of instance i's port and password: in redis.conf, in the
\* monitor's snapshot or hands, in a handler, in a redis-server's memory
Copies(i) ==
  {x \in Instance : \/ conf[i] = x
                    \/ mon.found[i] = x
                    \/ mon.id = i /\ mon.inst = x
                    \/ \E r \in Requests : req[r].id = i /\ req[r].inst = x
                    \/ \E p \in Pids : /\ proc[p] # None
                                       /\ proc[p].id = i
                                       /\ proc[p].port = x.port
                                       /\ proc[p].password = x.password}

\* All copies of an instance's port and password are the same: no rewrite of
\* redis.conf by the monitor, no restart and no crash changes the credentials
\* an application was bound with, and every Bind answers with the ones the
\* running redis-server was started with (FindByID, copyConfigFile).
CredentialsStable == \A i \in Instances : \A x, y \in Copies(i) : x = y

\* However often the monitor restarts an instance, and even after it threw
\* the pidfile of a live server away because the server was still loading
\* (EnsureRunning), at most one redis-server serves the instance: a second
\* one finds the port taken.  This rests on the port never changing.
OneServerPerInstance ==
  \A p, q \in Pids : Bound(p) /\ Bound(q) /\ proc[p].id = proc[q].id => p = q

-----------------------------------------------------------------------------
(* Lock files and pidfiles. *)

\* The process that Deprovision is about to kill belongs to the instance it
\* was called for, although the pid was read from a file that crashes,
\* restarts and other handlers may have left stale (OSProcessController.Kill).
KillsOwnProcess ==
  \A r \in Requests : At(r, "kill") /\ Alive(req[r].pid) => proc[req[r].pid].id = req[r].id

\* While a Provision is in flight the monitor never gets past the lock file:
\* it does not ping, restart, or remove the pidfile of the new instance.
\* (Setup creates the lock before the redis.conf that makes the instance
\* visible to AllInstances.)
ProvisionProtected ==
  \A r \in Requests : Active(r) /\ req[r].op = "provision" /\ mon.pc \in Ensuring
                        => mon.id # req[r].id

-----------------------------------------------------------------------------
(* The instance limit. *)

\* Concurrent Provisions count before any of them created its directory, so
\* they may exceed the limit together, but only by as many as are in flight
\* beside the one that may fill the last place (Create counts, then checks).
OvershootBounded == Cardinality(dirs) <= Limit + MaxInFlight - 1

\* The plan has at most ServiceInstanceLimit instances.
LimitRespected == Cardinality(dirs) <= Limit

\* No two instances are configured with the same port.
PortsDistinct ==
  \A i, j \in Instances : Readable(i) /\ Readable(j) /\ conf[i].port = conf[j].port => i = j

-----------------------------------------------------------------------------
(* What a Deprovision that answered with success leaves behind. *)

Deprovisioned(i) == \E r \in Requests : /\ req[r].op = "deprovision"
                                        /\ req[r].id = i
                                        /\ req[r].reply = "ok"

\* After a successful Deprovision the instance's directories, configuration
\* and lock file are gone and stay gone (LocalRepository.Delete), whatever
\* other handlers of the instance were doing at the time.
FilesStayGone ==
  \A i \in Instances : Deprovisioned(i) => /\ i \notin dirs \cup dbs \cup logs \cup locks
                                           /\ conf[i] = NoFile

\* After a successful Deprovision no redis-server of the instance runs.
ProcessStaysGone ==
  \A i \in Instances : Deprovisioned(i) => \A p \in Pids : Alive(p) => proc[p].id # i

\* As long as no call of the broker to the system fails and it is not ended, an
\* instance directory whose redis.conf cannot be read is in the hands of a
\* handler: nobody else meets it for good.  Such a directory would make every
\* later Provision fail (InstanceCount).
NoHalfInstance ==
  (\A kind \in {"io", "broker"} : faults[kind] = MaxFaults[kind]) =>
    \A i \in dirs : ~Readable(i) => \E r \in Requests : Active(r) /\ req[r].id = i

-----------------------------------------------------------------------------
(* Liveness. *)

\* Every request is answered: no handler waits for ever for a redis-server
\* that died or never got its port (availability.Check gives up), unless its
\* redis-server stays in the foreground.
RequestsAnswered ==
  \A r \in Requests : Active(r) ~> At(r, "done") \/ At(r, "hung")

\* As long as the monitor does not die while it rewrites a redis.conf, a
\* handler is left waiting for redis-server (Run never returns) only when it
\* executes redis-server in the moment between the monitor's truncation of
\* that redis.conf and its writing it again.
HangsOnlyAtBoot ==
  [][\A r \in Requests :
       ~At(r, "hung") /\ At(r, "hung")' => mon.pc = "copyfill" /\ mon.id = req[r].id]_vars

Serving(i) == Readable(i) /\ Answers(conf[i])

\* An instance nobody holds locked gets its redis-server back after a crash,
\* unless it is being deprovisioned (the monitor's sweep, EnsureRunning).
CrashedIsRestarted ==
  \A i \in Instances :
    Readable(i) /\ i \notin locks
      ~> Serving(i) \/ \E r \in Requests : req[r].op = "deprovision" /\ req[r].id = i
=============================================================================

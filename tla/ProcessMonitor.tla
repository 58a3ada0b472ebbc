--------------------------- MODULE ProcessMonitor ---------------------------
(***************************************************************************)
(* cmd/processmonitor: a process of its own that rewrites the redis.conf   *)
(* of every instance when it starts, and then sweeps over the instances,   *)
(* restarting the redis-server of each one that has no lock file.  It      *)
(* shares nothing with the broker but the file system.  Any error is       *)
(* logger.Fatal, which ends the process; monit starts it again.            *)
(***************************************************************************)
EXTENDS LocalRepository

CONSTANTS
  MonitorStart,   \* where the monitor is at first: "down", "sweep" or "off"
  Restarts,       \* whether monit starts it again after it ended
  Signals,        \* whether SIGUSR1 may be sent
  MonitorPidDir   \* SHARED_PID_DIR in the monitor's environment, "" when not set

ASSUME MonitorAssumption == MonitorStart \in {"down", "sweep", "off"}
ASSUME SignalsAssumption == Restarts \in BOOLEAN /\ Signals \in BOOLEAN

\* setPidDir: the environment comes before the configuration
MonitorRepo == IF MonitorPidDir = "" THEN NewLocalRepository
               ELSE [NewLocalRepository EXCEPT !.PidfileDirectory = MonitorPidDir]

VARIABLE mon

Copying == {"copy", "copylogs", "copytruncate", "copyfill"}
Ensuring == {"pid", "ping", "rmpidfile", "exec", "wait", "hung"}
MonitorSteps == {"off", "down", "sweep", "bootload", "load", "each"}
                  \cup Copying \cup Ensuring

Monitor == [pc    : MonitorSteps,
            todo  : SUBSET Instances,                     \* left to load
            found : [Instances -> Instance \cup {None}],  \* loaded, not yet handled
            id    : Instances \cup {None},                \* being handled
            inst  : Instance \cup {None},
            skip  : BOOLEAN]                              \* skipProcessCheck

MonitorTypeOK == mon \in Monitor

NothingFound == [i \in Instances |-> None]

MonitorAt(step) == [pc |-> step, todo |-> {}, found |-> NothingFound,
                    id |-> None, inst |-> None, skip |-> FALSE]

MonitorInit == mon = MonitorAt(MonitorStart)

-----------------------------------------------------------------------------
MonAt(step) == mon.pc = step

MonGoto(step) == mon' = [mon EXCEPT !.pc = step]

\* logger.Fatal
MonFatal == mon' = MonitorAt("down")

\* The instance in hand is done with; the loop goes on with the next
MonNext(step) == mon' = [mon EXCEPT !.pc = step, !.id = None, !.inst = None]

Found == {i \in Instances : mon.found[i] # None}

Take(i, step) == mon' = [mon EXCEPT !.pc = step, !.id = i, !.inst = mon.found[i],
                                    !.found[i] = None]

-----------------------------------------------------------------------------
(* AllInstances: ReadDir, then FindByID of each entry; errors are dropped. *)

\* monit starts the monitor; one that cannot find, read or validate its
\* configuration ends at once, which changes nothing
MonStarts ==
  /\ MonAt("down") /\ Restarts
  /\ mon' = [mon EXCEPT !.pc = "bootload", !.todo = dirs]
  /\ UNCHANGED hostVars

MonLists ==
  /\ MonAt("sweep") /\ ~mon.skip
  /\ mon' = [mon EXCEPT !.pc = "load", !.todo = dirs]
  /\ UNCHANGED hostVars

\* Mutant: the error of FindByID is dropped
MonLoads_Unchecked(i) ==
  /\ mon.pc \in {"bootload", "load"} /\ i \in mon.todo
  /\ mon' = [mon EXCEPT !.todo = @ \ {i}, !.found[i] = conf[i]]
  /\ UNCHANGED hostVars

MonLoads(i) ==
  /\ mon.pc \in {"bootload", "load"} /\ i \in mon.todo
  /\ mon' = [mon EXCEPT !.todo = @ \ {i},
                        !.found[i] = IF Readable(i) THEN conf[i] ELSE None]
  /\ UNCHANGED hostVars

MonLoaded ==
  /\ mon.pc \in {"bootload", "load"} /\ mon.todo = {}
  /\ MonGoto(IF MonAt("load") THEN "each" ELSE "copy")
  /\ UNCHANGED hostVars

-----------------------------------------------------------------------------
(* copyConfigFile: EnsureDirectoriesExist and WriteConfigFile, with no     *)
(* look at the lock file.                                                  *)

CopyDataDir(i) ==
  /\ MonAt("copy") /\ i \in Found
  /\ Take(i, "copylogs")
  /\ MakeDataDir(i)
  /\ UNCHANGED <<pidfile, proc, faults>>

CopyLogDir ==
  /\ MonAt("copylogs") /\ MonGoto("copytruncate")
  /\ MakeLogDir(mon.id)
  /\ UNCHANGED <<pidfile, proc, faults>>

CopyTruncate ==
  /\ MonAt("copytruncate")
  /\ \/ TruncateConfig(mon.id) /\ MonGoto("copyfill")
     \/ ~InstanceExists(mon.id) /\ MonFatal /\ UNCHANGED files
  /\ UNCHANGED <<pidfile, proc, faults>>

\* Mutant: the rewritten redis.conf gets another port
CopyFill_NewPort ==
  /\ MonAt("copyfill") /\ MonNext("copy")
  /\ \E port \in Ports :
       ~Listening(port) /\ FillConfig(mon.id, [mon.inst EXCEPT !.port = port])
  /\ UNCHANGED <<pidfile, proc, faults>>

\* Mutant: the rewritten redis.conf is never written
CopyFill_Unwritten ==
  /\ MonAt("copyfill") /\ MonNext("copy")
  /\ UNCHANGED hostVars

CopyFill ==
  /\ MonAt("copyfill") /\ MonNext("copy")
  /\ FillConfig(mon.id, mon.inst)
  /\ UNCHANGED <<pidfile, proc, faults>>

CopiedAll ==
  /\ MonAt("copy") /\ Found = {}
  /\ MonGoto("sweep")
  /\ UNCHANGED hostVars

-----------------------------------------------------------------------------
(* ensureRunningIfNotLocked: stat of the lock file, then EnsureRunning *)

CheckLock(i) ==
  /\ MonAt("each") /\ i \in Found
  /\ \/ i \notin locks /\ Take(i, "pid")
     \/ i \in locks /\ mon' = [mon EXCEPT !.found[i] = None]
  /\ UNCHANGED hostVars

SweepDone ==
  /\ MonAt("each") /\ Found = {}
  /\ MonGoto("sweep")
  /\ UNCHANGED hostVars

\* Mutant: an instance with a pidfile is taken for running
ReadPidfile_Trusting ==
  /\ MonAt("pid")
  /\ \/ pidfile[mon.id] # None /\ MonNext("each")
     \/ pidfile[mon.id] = None /\ MonGoto("exec")
  /\ UNCHANGED hostVars

HasLiveProcess(i) == pidfile[i] # None /\ Alive(pidfile[i])

ReadPidfile ==
  /\ MonAt("pid")
  /\ MonGoto(IF HasLiveProcess(mon.id) THEN "ping" ELSE "exec")
  /\ UNCHANGED hostVars

Ping ==
  /\ MonAt("ping")
  /\ \/ Answers(mon.inst) /\ MonNext("each")
     \/ ~Answers(mon.inst) /\ MonGoto("rmpidfile")
  /\ UNCHANGED hostVars

RemovePidfile ==
  /\ MonAt("rmpidfile")
  /\ \/ /\ pidfile[mon.id] # None
        /\ pidfile' = [pidfile EXCEPT ![mon.id] = None]
        /\ MonGoto("exec")
     \/ pidfile[mon.id] = None /\ MonFatal /\ UNCHANGED pidfile
  /\ UNCHANGED <<files, proc, faults>>

RestartFails ==
  /\ MonAt("exec")
  /\ \/ CannotExec(mon.id) /\ MonFatal
     \/ Foreground(mon.id) /\ MonGoto("hung")
  /\ UNCHANGED hostVars

Restart(p) ==
  /\ MonAt("exec") /\ MonGoto("wait")
  /\ Exec(mon.id, p)
  /\ UNCHANGED <<files, pidfile, faults>>

RestartWait ==
  /\ MonAt("wait")
  /\ \/ Listening(mon.inst.port) /\ MonNext("each")
     \/ ~Listening(mon.inst.port) /\ MonFatal
  /\ UNCHANGED hostVars

-----------------------------------------------------------------------------
\* The signal goroutine sets skipProcessCheck, which the loop reads before
\* each sweep.  The variable is shared without synchronisation; the loop
\* makes calls that the compiler cannot move the read across.
SignalUSR1 ==
  /\ Signals /\ ~mon.skip
  /\ mon.pc \notin {"off", "down"}
  /\ mon' = [mon EXCEPT !.skip = TRUE]
  /\ UNCHANGED hostVars

\* The monitor is killed, or one of its system calls fails
MonDies ==
  /\ mon.pc \notin {"off", "down"}
  /\ Fault("monitor")
  /\ MonFatal
  /\ UNCHANGED <<files, pidfile, proc>>

\* One step of the monitor, other than executing redis-server
Monitors ==
  \/ MonStarts \/ MonLists \/ MonLoaded
  \/ \E i \in Instances : MonLoads(i) \/ CopyDataDir(i) \/ CheckLock(i)
  \/ CopyLogDir \/ CopyTruncate \/ CopyFill \/ CopiedAll
  \/ SweepDone \/ ReadPidfile \/ Ping \/ RemovePidfile
  \/ RestartFails \/ RestartWait
=============================================================================

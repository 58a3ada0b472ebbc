--------------------------- MODULE InstanceProofs ---------------------------
(***************************************************************************)
(* Without a booting monitor the redis-server of a deprovisioned instance  *)
(* stays gone, and, with one call at a time, no failing call leaves half   *)
(* an instance behind.  With a monitor a call hangs only while the monitor *)
(* rewrites the redis.conf of that call's instance.  Without a booting one *)
(* the broker implements Service.                                          *)
(***************************************************************************)
EXTENDS LockProofs, SharedService

-----------------------------------------------------------------------------
(* Processes, when only the broker starts them. *)

\* A Provision gets to starting redis-server once.
LEMMA StartSource ==
  ASSUME TypeInv, Next, NEW r \in Requests, req'[r].pc = "start"
  PROVE  /\ req'[r] = req[r] \/ SetupFill(r)
         /\ req[r].pc \in Unwritten \cup {"start"} /\ ~HandlerStart(r)
<1>. USE DEF TypeInv, TypeOK, BrokerTypeOK, Handler, At, Unwritten
<1>1. ASSUME NEW a \in Replies, Reply(r, a) \/ req'[r] = Answered(req[r], a)
      PROVE  FALSE
  BY <1>1, ReplyEffect
<1>2. ~HandlerStart(r)
  BY SMTT(30) DEF HandlerStart, Start, Goto
<1>3. CASE Create(r)
  <2>1. ~ListInstances(r)
    BY DEF ListInstances
  <2>5. ASSUME NEW i \in Instances, CountInstance(r, i)
        PROVE  FALSE
    BY <1>1, <2>5 DEF CountInstance, Replies
  <2>2. ~CheckLimit(r) /\ ~FindFreePort(r)
    BY <1>1 DEF CheckLimit, FindFreePort, Replies
  <2>3. ~SetupDataDir(r) /\ ~SetupLogDir(r) /\ ~SetupLock(r) /\ ~SetupTruncate(r)
    BY <1>1 DEF SetupDataDir, SetupLogDir, SetupLock, SetupTruncate, Goto, Replies
  <2>4. ~StartFails(r) /\ ~WaitUntilConnectable(r) /\ ~UnlockInstance(r)
    BY <1>1 DEF StartFails, WaitUntilConnectable, UnlockInstance, Goto, Replies
  <2>. QED  BY <1>2, <1>3, <2>1, <2>2, <2>3, <2>4, <2>5, Zenon DEF Create, SetupFill
<1>4. ~Destroy(r)
  <2>1. ~DestroyFind(r) /\ ~DestroyLock(r) /\ ~KillInstance(r) /\ ~Kill(r)
    BY <1>1 DEF DestroyFind, DestroyLock, KillInstance, Kill, Goto, Replies
  <2>2. ~DeleteNames(r) /\ ~DeleteEntry(r)
    BY DEF DeleteNames, DeleteEntry
  <2>3. ~DeleteBaseDir(r) /\ ~DeleteLogDir(r) /\ ~DeletePidfile(r)
    BY <1>1 DEF DeleteBaseDir, DeleteLogDir, DeletePidfile, Goto, Replies
  <2>. QED  BY <2>1, <2>2, <2>3 DEF Destroy
<1>5. ~BindCredentials(r) /\ ~CallFails(r)
  BY <1>1 DEF BindCredentials, CallFails, Replies
<1>6. ASSUME NEW i \in Instances, Arrival(r, i)
      PROVE  FALSE
  BY <1>6, ArrivalEffect, SMTT(30)
<1>. HIDE DEF TypeInv
<1>. QED  BY <1>1, <1>2, <1>3, <1>4, <1>5, <1>6, OnlyItsHandler, Zenon DEF OwnStep, Replies

\* The Provision of instance i exists and is past starting redis-server.
Launched(i) ==
  /\ Settled(i)
  /\ \A q \in Requests : req[q].op = "provision" /\ req[q].id = i => ~At(q, "start")

\* A Provision past starting redis-server stays so, and its ID is not used
\* again.
LEMMA LaunchedKept ==
  ASSUME UniqueIDs, TypeInv, Next, NEW i \in Instances, Launched(i)
  PROVE  Launched(i)'
<1>1. Settled(i)'
  BY SettledKept DEF Launched
<1>2. ASSUME NEW q \in Requests, req'[q].op = "provision", req'[q].id = i, req'[q].pc = "start"
      PROVE  FALSE
  <2>1. Advanced(q)
    BY <1>2, StepSource, StartSource, ArrivalEffect DEF Active, At, Unwritten
  <2>. QED  BY <1>2, <2>1, StartSource DEF Advanced, Launched, Settled, At
<1>. QED  BY <1>1, <1>2 DEF Launched, At

\* While the monitor is off, a process is started by the Provision of its
\* instance.
LEMMA ExecSource ==
  ASSUME TypeInv, Next, mon.pc = "off", NEW p \in Pids, Alive(p)'
  PROVE  \/ Alive(p) /\ proc'[p].id = proc[p].id
         \/ \E r \in Requests :
              /\ At(r, "start") /\ req[r].op = "provision" /\ req[r].id = proc'[p].id
              /\ req' = [req EXCEPT ![r].pc = "wait"] /\ UNCHANGED pidfile
              /\ \A q \in Pids \ {p} : proc'[q] = proc[q]
<1>1. CASE \E r \in Requests : HandlerStart(r)
  <2>1. PICK r \in Requests, q \in FreePids : Start(r, q)
    BY <1>1 DEF HandlerStart
  <2>2. At(r, "start") /\ req[r].op = "provision" /\ q \in Pids
    BY <2>1 DEF Start, At, TypeInv, HandlerLocals, Building, Starting, FreePids
  <2>3. CASE q # p
    BY <2>1, <2>2, <2>3 DEF Start, Exec, Alive, TypeInv, TypeOK, HostTypeOK
  <2>4. CASE q = p
    BY <2>1, <2>2, <2>4, Zenon DEF Start, Goto, Exec, TypeInv, TypeOK, HostTypeOK
  <2>. QED  BY <2>3, <2>4
<1>2. CASE ~\E r \in Requests : HandlerStart(r)
  <2>1. ASSUME NEW r \in Requests, Kill(r)
        PROVE  proc'[p] = proc[p]
    BY <2>1 DEF Kill, At, Alive, TypeInv, TypeOK, HostTypeOK, HandlerLocals
  <2>2. ASSUME NEW r \in Requests, Create(r) \/ (Destroy(r) /\ ~Kill(r))
        PROVE  UNCHANGED proc
    BY <2>2, Zenon DEF Create, ListInstances, CountInstance, CheckLimit, FindFreePort, SetupDataDir,
       SetupLogDir, SetupLock, SetupTruncate, SetupFill, StartFails, WaitUntilConnectable,
       UnlockInstance, Destroy, DestroyFind, DestroyLock, KillInstance, DeleteNames,
       DeleteEntry, DeleteBaseDir, DeleteLogDir, DeletePidfile, hostVars
  <2>3. ASSUME NEW r \in Requests, BindCredentials(r) \/ CallFails(r)
        PROVE  UNCHANGED proc
    BY <2>3 DEF BindCredentials, CallFails, hostVars
  <2>4. ASSUME NEW r \in Requests, NEW i \in Instances, Arrival(r, i)
        PROVE  UNCHANGED proc
    BY <2>4, ArrivalEffect
  <2>5. BrokerExits => UNCHANGED proc
    BY Zenon DEF BrokerExits
  <2>6. MonitorNext => FALSE
    BY DEF MonitorNext, MonitorStep, Monitors, MonStarts, MonLists, MonLoaded, MonLoads,
       CopyDataDir, CheckLock, CopyLogDir, CopyTruncate, CopyFill, CopiedAll, SweepDone,
       ReadPidfile, Ping, RemovePidfile, RestartFails, RestartWait, MonitorRestart, Restart,
       SignalUSR1, MonDies, MonAt
  <2>7. CASE RedisNext
    <3>1. UNCHANGED req
      BY <2>7 DEF RedisNext, RedisStep
    <3>2. PICK q \in Pids : RedisRuns(q) \/ RedisDies(q)
      BY <2>7 DEF RedisNext, RedisStep
    <3>3. CASE q # p
      BY <3>2, <3>3 DEF RedisRuns, RedisListens, RedisCannotListen, RedisWritesPidfile,
         RedisLoaded, RedisDies, Alive, TypeInv, TypeOK, HostTypeOK
    <3>4. CASE q = p
      BY <3>2, <3>4 DEF RedisRuns, RedisListens, RedisCannotListen, RedisWritesPidfile,
         RedisLoaded, RedisDies, Alive, Process, TypeInv, TypeOK, HostTypeOK
    <3>. QED  BY <3>3, <3>4
  <2>8. CASE proc'[p] = proc[p]
    BY <2>8, SMTT(30) DEF Alive
  <2>. QED
    BY <1>2, <2>1, <2>2, <2>3, <2>4, <2>5, <2>6, <2>7, <2>8
    DEF Next, BrokerNext, HandlerStep, Handle
<1>. QED  BY <1>1, <1>2

\* Every process and every pidfile comes from the one Provision of its
\* instance, so an instance has one process in its life; what a Deprovision
\* is about to kill is that process, and nothing is left of it after.
Belongs(p, i) == Alive(p) /\ proc[p].id = i

ProcessInv ==
  /\ \A i \in Instances, p \in Pids : Belongs(p, i) => Launched(i)
  /\ \A i \in Instances, p, q \in Pids : Belongs(p, i) /\ Belongs(q, i) => p = q
  /\ \A i \in Instances : pidfile[i] # None =>
       Launched(i) /\ \A p \in Pids : Belongs(p, i) => pidfile[i] = p
  /\ \A r \in Requests : At(r, "kill") =>
       Launched(req[r].id) /\ \A p \in Pids : Belongs(p, req[r].id) => req[r].pid = p
  /\ \A r \in Requests :
       req[r].op = "deprovision" /\ (req[r].pc \in Deleting \/ req[r].reply = "ok") =>
       Launched(req[r].id) /\ \A p \in Pids : ~Belongs(p, req[r].id)

\* What the process invariant says of an instance survives every step.
LEMMA ProcessInvKept ==
  ASSUME UniqueIDs, TypeInv, mon.pc = "off", OneProvision, ProcessInv, Next
  PROVE  ProcessInv'
<1>1. ASSUME NEW i \in Instances, NEW p \in Pids, Belongs(p, i)', ~Belongs(p, i)
      PROVE  /\ ~Launched(i) /\ Launched(i)' /\ UNCHANGED pidfile
             /\ \A q \in Pids \ {p} : proc'[q] = proc[q]
             /\ \A q \in Requests : req'[q].pc = "kill" => req'[q] = req[q]
  <2>1. PICK r \in Requests :
          /\ At(r, "start") /\ req[r].op = "provision" /\ req[r].id = i
          /\ req' = [req EXCEPT ![r].pc = "wait"] /\ UNCHANGED pidfile
          /\ \A q \in Pids \ {p} : proc'[q] = proc[q]
    BY <1>1, ExecSource DEF Belongs, Alive
  <2>2. ~Launched(i)
    BY <2>1 DEF Launched
  <2>3. /\ req'[r].op = "provision" /\ req'[r].id = i /\ req'[r].pc = "wait"
        /\ \A q \in Requests \ {r} : req'[q] = req[q]
    BY <2>1 DEF TypeInv, TypeOK, BrokerTypeOK, Handler
  <2>4. Launched(i)'
    BY <2>1, <2>3, SMTT(30) DEF Launched, Settled, OneProvision, Unlocked, Unwritten, At
  <2>. QED  BY <2>1, <2>2, <2>3, <2>4
<1>2. ASSUME NEW i \in Instances, NEW p \in Pids, Belongs(p, i)'
      PROVE  Launched(i)'
  BY <1>1, <1>2, LaunchedKept DEF ProcessInv
<1>3. ASSUME NEW i \in Instances, NEW p \in Pids, NEW q \in Pids,
             Belongs(p, i)', Belongs(q, i)'
      PROVE  p = q
  <2>1. CASE Belongs(p, i) /\ Belongs(q, i)
    BY <2>1 DEF ProcessInv
  <2>2. ASSUME NEW a \in Pids, NEW b \in Pids, a # b,
               Belongs(a, i)', Belongs(b, i)', ~Belongs(a, i)
        PROVE  FALSE
    <3>1. ~Launched(i) /\ proc'[b] = proc[b]
      BY <1>1, <2>2
    <3>2. Belongs(b, i)
      BY <2>2, <3>1 DEF Belongs, Alive
    <3>. QED  BY <3>1, <3>2 DEF ProcessInv
  <2>. QED  BY <1>3, <2>1, <2>2
<1>4. ASSUME NEW i \in Instances, pidfile'[i] # None
      PROVE  Launched(i)' /\ \A p \in Pids : Belongs(p, i)' => pidfile'[i] = p
  <2>1. CASE pidfile'[i] = pidfile[i]
    BY <1>1, <1>4, <2>1, LaunchedKept DEF ProcessInv
  <2>2. CASE pidfile'[i] \in Pids /\ Belongs(pidfile[i], i)'
    BY <1>2, <1>3, <2>2
  <2>. QED  BY <1>4, <2>1, <2>2, PidfileSource, SMTT(30) DEF Belongs
<1>5. ASSUME NEW r \in Requests, At(r, "kill")'
      PROVE  /\ Launched(req[r].id)'
             /\ \A p \in Pids : Belongs(p, req[r].id)' => req'[r].pid = p
  <2>1. req'[r].id = req[r].id /\ req[r].id \in Instances /\ req'[r].pid \in Pids
    BY <1>5, KillSource, NextTypeInv, ZenonT(30) DEF At, TypeInv, HandlerLocals
  <2>2. Launched(req[r].id) /\ \A p \in Pids : Belongs(p, req[r].id) => req'[r].pid = p
    BY <1>5, <2>1, KillSource, NoneAssumption, Zenon DEF ProcessInv
  <2>3. Launched(req[r].id)'
    BY <2>1, <2>2, LaunchedKept DEF Launched, Settled, At
  <2>4. \A p \in Pids : Belongs(p, req[r].id)' => Belongs(p, req[r].id)
    BY <1>1, <2>1, <2>2 DEF Belongs, Alive
  <2>. QED  BY <2>2, <2>3, <2>4
<1>6. ASSUME NEW r \in Requests, req'[r].op = "deprovision",
             req'[r].pc \in Deleting \/ req'[r].reply = "ok"
      PROVE  Launched(req[r].id)' /\ \A p \in Pids : ~Belongs(p, req[r].id)'
  <2>1. DestroyAdvanced(r)
    BY <1>6, DestroySource DEF Deleting
  <2>2. req[r].op = "deprovision" /\ req'[r].id = req[r].id /\ req[r].id \in Instances
    BY <1>6, <2>1, Zenon DEF DestroyAdvanced, TypeInv, HandlerLocals
  <2>3. Launched(req[r].id)
    BY <1>6, <2>1, <2>2, Zenon DEF DestroyAdvanced, ProcessInv, Deleting, At
  <2>4. Launched(req[r].id)'
    BY <2>2, <2>3, LaunchedKept DEF Launched, Settled, At
  <2>5. ASSUME NEW p \in Pids, Belongs(p, req[r].id)'
        PROVE  FALSE
    <3>1. Belongs(p, req[r].id)
      BY <1>1, <2>2, <2>3, <2>5 DEF Belongs, Alive
    <3>2. CASE At(r, "kill") /\ proc' = [proc EXCEPT ![req[r].pid] = None]
      <4>1. req[r].pid = p
        BY <3>1, <3>2 DEF ProcessInv
      <4>. QED  BY <2>5, <3>2, <4>1, SMTT(30) DEF Belongs, Alive, TypeInv, TypeOK, HostTypeOK
    <3>. QED  BY <1>6, <2>1, <2>2, <3>1, <3>2, ZenonT(30)
              DEF DestroyAdvanced, ProcessInv, Deleting, At
  <2>. QED  BY <2>4, <2>5
<1>7. /\ \A i \in Instances, p \in Pids : Belongs(p, i)' => Launched(i)'
      /\ \A i \in Instances, p, q \in Pids : Belongs(p, i)' /\ Belongs(q, i)' => p = q
  BY <1>2, <1>3
<1>8. \A i \in Instances : pidfile'[i] # None =>
        Launched(i)' /\ \A p \in Pids : Belongs(p, i)' => pidfile'[i] = p
  BY <1>4
<1>9. \A r \in Requests : At(r, "kill")' =>
        Launched(req[r].id)' /\ \A p \in Pids : Belongs(p, req[r].id)' => req'[r].pid = p
  BY <1>5
<1>10. \A r \in Requests :
         req'[r].op = "deprovision" /\ (req'[r].pc \in Deleting \/ req'[r].reply = "ok") =>
         Launched(req[r].id)' /\ \A p \in Pids : ~Belongs(p, req[r].id)'
  BY <1>6
<1>. QED  BY <1>7, <1>8, <1>9, <1>10, SMTT(30) DEF ProcessInv

\* While only the broker starts processes, and with an ID used for one
\* Provision only, no redis-server of a deprovisioned instance runs, whatever
\* crashed, failed or was in flight, and even when the kernel reuses pids.
THEOREM ProcessGoneForGood ==
  UniqueIDs /\ MonitorStart = "off" => (Spec => []ProcessStaysGone)
<1>. SUFFICES ASSUME UniqueIDs, MonitorStart = "off"
              PROVE  Spec => []ProcessStaysGone
  OBVIOUS
<1>. DEFINE Inv == mon.pc = "off" /\ OneProvision /\ ProcessInv
<1>1. Init => Inv
  <2>1. Init => mon.pc = "off"
    BY DEF Init, MonitorInit, MonitorAt
  <2>2. Init => ProcessInv
    BY DEF Init, HostInit, BrokerInit, NoHandler, ProcessInv, Belongs, Alive, At
  <2>. QED  BY <2>1, <2>2, InitCredentials
<1>2. TypeInv /\ Inv /\ [Next]_vars => Inv'
  <2>1. ASSUME ProcessInv, UNCHANGED vars PROVE ProcessInv'
    <3>1. UNCHANGED <<pidfile, proc, req>>
      BY <2>1 DEF vars, hostVars
    <3>2. \A i \in Instances : /\ Launched(i)' <=> Launched(i)
                               /\ \A p \in Pids : Belongs(p, i)' <=> Belongs(p, i)
      BY <3>1 DEF Belongs, Alive, Launched, Settled, At
    <3>3. \A r \in Requests :
            /\ Launched(req[r].id)' <=> Launched(req[r].id)
            /\ \A p \in Pids : Belongs(p, req[r].id)' <=> Belongs(p, req[r].id)
            /\ At(r, "kill")' <=> At(r, "kill")
      BY <3>1 DEF Belongs, Alive, Launched, Settled, At
    <3>. QED  BY <2>1, <3>1, <3>2, <3>3, Zenon DEF ProcessInv
  <2>. QED  BY <2>1, OffKept, OneProvisionKept, ProcessInvKept, SMTT(30)
<1>3. TypeInv /\ Inv => ProcessStaysGone
  <2>1. ProcessInv =>
          \A r \in Requests : req[r].op = "deprovision" /\ req[r].reply = "ok" =>
            \A p \in Pids : ~Belongs(p, req[r].id)
    BY Zenon DEF ProcessInv
  <2>. QED  BY <2>1 DEF Belongs, ProcessStaysGone, Deprovisioned
<1>. QED  BY <1>1, <1>2, <1>3, TypeInvHolds, PTL DEF Spec

-----------------------------------------------------------------------------
(* Instances without a redis.conf that can be read.                        *)

FaultsLeft == \A kind \in FaultKind : faults[kind] <= MaxFaults[kind]

BrokerUnhurt == \A kind \in {"io", "broker"} : faults[kind] = MaxFaults[kind]

\* A step spends one fault of one kind, or none.
LEMMA FaultSource ==
  ASSUME TypeInv, Next
  PROVE  UNCHANGED faults \/ \E kind \in FaultKind : Fault(kind)
<1>. USE DEF hostVars
<1>1. ASSUME NEW r \in Requests, NEW i \in Instances, Arrival(r, i)
      PROVE  UNCHANGED faults \/ Fault("io")
  BY <1>1, Zenon DEF Arrival, Provision, Deprovision, Bind, Unbind, Unimplemented, instanceExists
<1>2. ASSUME NEW r \in Requests, Create(r)
      PROVE  UNCHANGED faults
  BY <1>2, Zenon DEF Create, ListInstances, CountInstance, CheckLimit, FindFreePort, SetupDataDir,
       SetupLogDir, SetupLock, SetupTruncate, SetupFill, StartFails, WaitUntilConnectable,
       UnlockInstance
<1>3. ASSUME NEW r \in Requests, Destroy(r)
      PROVE  UNCHANGED faults \/ Fault("io")
  BY <1>3, Zenon DEF Destroy, DestroyFind, DestroyLock, KillInstance, Kill, DeleteNames,
       DeleteEntry, DeleteBaseDir, DeleteLogDir, DeletePidfile
<1>4. ASSUME NEW r \in Requests, BindCredentials(r) \/ HandlerStart(r) \/ CallFails(r)
      PROVE  UNCHANGED faults \/ Fault("io")
  BY <1>4, Zenon DEF BindCredentials, HandlerStart, Start, CallFails
<1>5. BrokerExits => Fault("broker")
  BY Zenon DEF BrokerExits
<1>6. MonitorNext => UNCHANGED faults \/ Fault("monitor")
  BY Zenon DEF MonitorNext, MonitorStep, Monitors, MonStarts, MonLists, MonLoaded, MonLoads,
       CopyDataDir, CheckLock, CopyLogDir, CopyTruncate, CopyFill, CopiedAll, SweepDone,
       ReadPidfile, Ping, RemovePidfile, RestartFails, RestartWait, MonitorRestart, Restart,
       SignalUSR1, MonDies
<1>7. RedisNext => UNCHANGED faults \/ Fault("redis")
  BY Zenon DEF RedisNext, RedisStep, RedisRuns, RedisListens, RedisCannotListen,
       RedisWritesPidfile, RedisLoaded, RedisDies
<1>. QED
  BY <1>1, <1>2, <1>3, <1>4, <1>5, <1>6, <1>7
  DEF Next, BrokerNext, HandlerStep, Handle, FaultKind

\* Faults only become fewer: when none of a kind was spent, none is spent now.
LEMMA FaultsLeftKept ==
  ASSUME TypeInv, FaultsLeft, Next
  PROVE  /\ FaultsLeft'
         /\ \A kind \in FaultKind :
              faults'[kind] = MaxFaults[kind] => faults[kind] = MaxFaults[kind] /\ ~Fault(kind)
<1>1. faults \in [FaultKind -> Nat] /\ MaxFaults \in [FaultKind -> Nat]
  BY FaultsAssumption DEF TypeInv, TypeOK, HostTypeOK
<1>2. CASE UNCHANGED faults
  BY <1>1, <1>2 DEF FaultsLeft, Fault
<1>3. ASSUME NEW kind \in FaultKind, Fault(kind)
      PROVE  /\ faults'[kind] < faults[kind]
             /\ \A k \in FaultKind \ {kind} : faults'[k] = faults[k]
             /\ faults' \in [FaultKind -> Nat]
  BY <1>1, <1>3 DEF Fault
<1>4. \A kind \in FaultKind : Fault(kind) => faults'[kind] < faults[kind]
  BY <1>3
<1>5. ASSUME NEW kind \in FaultKind, Fault(kind)
      PROVE  \A k \in FaultKind : faults'[k] <= faults[k]
  BY <1>1, <1>3, <1>5
<1>6. \A k \in FaultKind : faults'[k] <= faults[k] /\ faults'[k] \in Nat
  BY <1>1, <1>2, <1>3, <1>5, FaultSource
<1>. QED  BY <1>1, <1>4, <1>6 DEF FaultsLeft

\* The steps that change the files in the base directory of an instance.
FileStep(r) == \/ SetupDataDir(r) \/ SetupLock(r) \/ SetupTruncate(r) \/ SetupFill(r)
               \/ UnlockInstance(r) \/ DestroyLock(r) \/ DeleteEntry(r) \/ DeleteBaseDir(r)

\* Where a handler is when it takes such a step.
LEMMA FileStepAt ==
  ASSUME NEW q \in Requests, FileStep(q)
  PROVE  /\ req[q].pc \in {"mkdata", "lock", "truncate", "fill", "unlock", "mark", "remove"}
         /\ req[q].pc = "fill" => SetupFill(q)
         /\ req[q].pc = "remove" => DeleteEntry(q) \/ DeleteBaseDir(q)
BY DEF FileStep, SetupDataDir, SetupLock, SetupTruncate, SetupFill, UnlockInstance,
       DestroyLock, DeleteEntry, DeleteBaseDir, At

SameFiles(i) == /\ i \in dirs' <=> i \in dirs
                /\ i \in dbs' <=> i \in dbs
                /\ i \in locks' <=> i \in locks
                /\ conf'[i] = conf[i]

\* Only the handlers of an instance change its files.
LEMMA FilesOwner ==
  ASSUME TypeInv, NotBooting, Next, NEW i \in Instances
  PROVE  SameFiles(i) \/ \E r \in Requests : req[r].id = i /\ FileStep(r)
<1>. USE DEF TypeInv, TypeOK, HostTypeOK, hostVars, files
<1>1. ASSUME NEW r \in Requests, req[r].id # i, SetupDataDir(r) \/ SetupLock(r) \/ DestroyLock(r)
      PROVE  SameFiles(i)
  BY <1>1, Zenon DEF SetupDataDir, MakeDataDir, SetupLock, DestroyLock, Lock, SameFiles
<1>2. ASSUME NEW r \in Requests, req[r].id # i, SetupTruncate(r) \/ SetupFill(r)
      PROVE  SameFiles(i)
  BY <1>2 DEF SetupTruncate, TruncateConfig, SetupFill, FillConfig, SameFiles
<1>3. ASSUME NEW r \in Requests, req[r].id # i, UnlockInstance(r) \/ DeleteBaseDir(r)
      PROVE  SameFiles(i)
  BY <1>3, Zenon DEF UnlockInstance, Unlock, DeleteBaseDir, SameFiles
<1>4. ASSUME NEW r \in Requests, req[r].id # i, DeleteEntry(r)
      PROVE  SameFiles(i)
  BY <1>4 DEF DeleteEntry, RemoveEntry, SameFiles
<1>5. ASSUME NEW r \in Requests, SetupLogDir(r) \/ DeleteLogDir(r)
      PROVE  SameFiles(i)
  BY <1>5, Zenon DEF SetupLogDir, MakeLogDir, DeleteLogDir, RemoveLogDir, SameFiles
<1>6. UNCHANGED files => SameFiles(i)
  BY DEF SameFiles
<1>9. ASSUME NEW r \in Requests,
             \/ ListInstances(r) \/ CheckLimit(r) \/ FindFreePort(r) \/ StartFails(r)
             \/ WaitUntilConnectable(r) \/ \E j \in Instances : CountInstance(r, j)
             \/ DestroyFind(r) \/ KillInstance(r) \/ Kill(r) \/ DeleteNames(r)
             \/ DeletePidfile(r) \/ BindCredentials(r) \/ HandlerStart(r) \/ CallFails(r)
      PROVE  SameFiles(i)
  BY <1>6, <1>9, Zenon DEF ListInstances, CheckLimit, FindFreePort, StartFails, WaitUntilConnectable,
       CountInstance, DestroyFind, KillInstance, Kill, DeleteNames, DeletePidfile,
       BindCredentials, HandlerStart, Start, CallFails
<1>10. ASSUME NEW r \in Requests, NEW j \in Instances, Arrival(r, j)
       PROVE  SameFiles(i)
  BY <1>6, <1>10, ArrivalEffect, SMTT(30)
<1>11. BrokerExits \/ RedisNext => SameFiles(i)
  BY <1>6, Zenon DEF BrokerExits, RedisNext, RedisStep, RedisRuns, RedisListens, RedisCannotListen,
       RedisWritesPidfile, RedisLoaded, RedisDies
<1>12. MonitorNext => SameFiles(i)
  BY <1>6, Zenon DEF MonitorNext, MonitorStep, Monitors, MonStarts, MonLists, MonLoaded, MonLoads,
       CopyDataDir, CheckLock, CopyLogDir, CopyTruncate, CopyFill, CopiedAll, SweepDone,
       ReadPidfile, Ping, RemovePidfile, RestartFails, RestartWait, MonitorRestart, Restart,
       SignalUSR1, MonDies, NotBooting, Copying, MonAt
<1>. HIDE DEF TypeInv, files
<1>14. ASSUME NEW r \in Requests, FileStep(r)
       PROVE  SameFiles(i) \/ req[r].id = i
  BY <1>1, <1>2, <1>3, <1>4, <1>14 DEF FileStep
<1>15. ASSUME NEW r \in Requests, Create(r) \/ Destroy(r)
       PROVE  SameFiles(i) \/ FileStep(r)
  BY <1>5, <1>9, <1>15, Zenon DEF Create, Destroy, FileStep
<1>16. ASSUME NEW r \in Requests, OwnStep(r)
       PROVE  SameFiles(i) \/ FileStep(r)
  BY <1>9, <1>10, <1>15, <1>16, Zenon DEF OwnStep
<1>17. BrokerNext => BrokerExits \/ \E r \in Requests : OwnStep(r)
  BY DEF BrokerNext, OwnStep, HandlerStep, Handle
<1>. QED  BY <1>11, <1>12, <1>14, <1>16, <1>17 DEF Next

\* The steps at which a handler has the files of its instance in pieces.
InPieces == {"mklogs", "lock", "truncate", "fill", "remove"}

\* What a handler does there.
LEMMA PiecesStep ==
  ASSUME TypeInv, NEW r \in Requests, req[r].pc \in InPieces, OwnStep(r)
  PROVE  \/ SetupLogDir(r) \/ SetupLock(r) \/ SetupTruncate(r) \/ SetupFill(r)
         \/ DeleteEntry(r) \/ DeleteBaseDir(r) \/ Fault("io")
<1>. USE DEF InPieces, At
<1>1. ASSUME NEW i \in Instances, Arrival(r, i)
      PROVE  FALSE
  BY <1>1, Zenon DEF Arrival, Provision, Deprovision, Bind, Unbind, Unimplemented, Arrives
<1>2. Create(r) => SetupLogDir(r) \/ SetupLock(r) \/ SetupTruncate(r) \/ SetupFill(r)
  BY Zenon DEF Create, ListInstances, CountInstance, CheckLimit, FindFreePort, SetupDataDir,
       StartFails, WaitUntilConnectable, UnlockInstance
<1>3. Destroy(r) => DeleteEntry(r) \/ DeleteBaseDir(r)
  BY Zenon DEF Destroy, DestroyFind, DestroyLock, KillInstance, Kill, DeleteNames, DeleteLogDir,
       DeletePidfile
<1>4. ~BindCredentials(r) /\ ~HandlerStart(r) /\ (CallFails(r) => Fault("io"))
  BY Zenon DEF BindCredentials, HandlerStart, Start, CallFails
<1>. QED  BY <1>1, <1>2, <1>3, <1>4 DEF OwnStep

\* How a handler comes to writing redis.conf, and to removing files.
LEMMA PiecesSource ==
  ASSUME TypeInv, Next, NEW r \in Requests, req'[r].pc \in {"fill", "remove"}
  PROVE  \/ req'[r] = req[r]
         \/ /\ SetupTruncate(r) /\ TruncateConfig(req[r].id)
            /\ req'[r].pc = "fill" /\ req'[r].id = req[r].id
         \/ DeleteNames(r) \/ DeleteEntry(r)
<1>. USE DEF At
<1>1. ASSUME NEW a \in Replies, Reply(r, a) \/ req'[r] = Answered(req[r], a)
      PROVE  FALSE
  BY <1>1, ReplyEffect
<1>2. ASSUME NEW i \in Instances, Arrival(r, i)
      PROVE  FALSE
  BY <1>2, ArrivalEffect
<1>. USE DEF Handler, TypeInv, TypeOK, BrokerTypeOK, Replies
<1>3. CASE ListInstances(r) \/ CheckLimit(r) \/ FindFreePort(r)
  BY <1>1, <1>3 DEF ListInstances, CheckLimit, FindFreePort
<1>11. ASSUME NEW i \in Instances, CountInstance(r, i)
       PROVE  FALSE
  BY <1>1, <1>11 DEF CountInstance
<1>4. CASE SetupDataDir(r) \/ SetupLogDir(r) \/ SetupLock(r) \/ SetupFill(r)
  BY <1>1, <1>4 DEF SetupDataDir, SetupLogDir, SetupLock, SetupFill, Goto
<1>5. CASE SetupTruncate(r)
  BY <1>1, <1>5 DEF SetupTruncate, Goto
<1>6. CASE StartFails(r) \/ WaitUntilConnectable(r) \/ UnlockInstance(r) \/ HandlerStart(r)
  BY <1>1, <1>6 DEF StartFails, WaitUntilConnectable, UnlockInstance, HandlerStart, Start, Goto
<1>7. CASE DestroyFind(r) \/ DestroyLock(r) \/ KillInstance(r) \/ Kill(r)
  BY <1>1, <1>7 DEF DestroyFind, DestroyLock, KillInstance, Kill, Goto
<1>8. CASE DeleteBaseDir(r) \/ DeleteLogDir(r) \/ DeletePidfile(r)
  BY <1>1, <1>8 DEF DeleteBaseDir, DeleteLogDir, DeletePidfile, Goto
<1>9. CASE BindCredentials(r) \/ CallFails(r)
  BY <1>1, <1>9 DEF BindCredentials, CallFails
<1>. HIDE DEF Handler, TypeInv
<1>10. CASE Create(r) \/ Destroy(r)
  BY <1>3, <1>4, <1>5, <1>6, <1>7, <1>8, <1>10, <1>11, Zenon DEF Create, Destroy
<1>. QED
  BY <1>1, <1>2, <1>6, <1>9, <1>10, OnlyItsHandler, Zenon DEF OwnStep

InHand(i) == \E r \in Requests : req[r].id = i /\ req[r].pc \in InPieces

\* A directory without a redis.conf that can be read is in the hands of a
\* handler that writes it or removes the directory; there is a file to write
\* to; and what is left in a directory is what is left to be removed.
HalfInv ==
  BrokerUnhurt =>
    /\ \A i \in dirs : ~Readable(i) => InHand(i)
    /\ \A r \in Requests :
         /\ At(r, "fill") => conf[req[r].id] # NoFile
         /\ At(r, "remove") => Entries(req[r].id) \subseteq req[r].names

\* Nothing but a fault or another handler of the instance comes in between.
LEMMA HalfInvKept ==
  ASSUME TypeInv, NotBooting, OneCall, FaultsLeft, HalfInv, Next
  PROVE  HalfInv'
<1>. SUFFICES ASSUME BrokerUnhurt'
              PROVE  /\ \A i \in dirs' : ~Readable(i)' => InHand(i)'
                     /\ \A r \in Requests :
                          /\ At(r, "fill")' => conf'[req'[r].id] # NoFile
                          /\ At(r, "remove")' => Entries(req[r].id)' \subseteq req'[r].names
  BY DEF HalfInv
<1>1. BrokerUnhurt /\ ~Fault("io") /\ ~Fault("broker")
  BY FaultsLeftKept DEF BrokerUnhurt, FaultKind
<1>2. /\ \A i \in dirs : ~Readable(i) => InHand(i)
      /\ \A r \in Requests : /\ At(r, "fill") => conf[req[r].id] # NoFile
                             /\ At(r, "remove") => Entries(req[r].id) \subseteq req[r].names
  BY <1>1 DEF HalfInv
<1>3. ASSUME NEW r \in Requests
      PROVE  /\ FileStep(r) => Active(r) /\ req[r].id \in Instances
             /\ req[r].pc \in InPieces => Active(r) /\ req[r].id \in Instances
  BY DEF FileStep, SetupDataDir, SetupLock, SetupTruncate, SetupFill, UnlockInstance, DestroyLock,
       DeleteEntry, DeleteBaseDir, At, Active, InPieces, TypeInv, HandlerLocals
<1>4. ASSUME NEW r \in Requests, NEW q \in Requests, FileStep(r), req[q].pc \in InPieces,
             req[q].id = req[r].id
      PROVE  q = r
  BY <1>3, <1>4 DEF OneCall
<1>0. req \in [Requests -> Handler] /\ conf \in [Instances -> Instance \cup {NoFile, Torn}]
  BY DEF TypeInv, TypeOK, BrokerTypeOK, HostTypeOK
<1>5. ASSUME NEW r \in Requests, req[r].pc \in InPieces, req[r].id \in dirs, OwnStep(r)
      PROVE  \/ req'[r].id = req[r].id /\ req'[r].pc \in InPieces
             \/ conf'[req[r].id] \notin {NoFile, Torn}
             \/ req[r].id \notin dirs'
  <2>. USE DEF At
  <2>1. CASE SetupLogDir(r) \/ SetupLock(r) \/ SetupTruncate(r)
    BY <1>0, <1>5, <2>1, SMTT(30)
    DEF SetupLogDir, SetupLock, SetupTruncate, InstanceExists, Goto, Handler, InPieces
  <2>2. CASE SetupFill(r)
    <3>1. req[r].inst \in Instance
      BY <2>2 DEF SetupFill, TypeInv, HandlerLocals, Building, Unwritten
    <3>2. conf'[req[r].id] = req[r].inst
      BY <1>0, <1>2, <1>3, <1>5, <2>2 DEF SetupFill, FillConfig
    <3>. QED  BY <3>1, <3>2, NoFileAssumption
  <2>3. CASE DeleteEntry(r)
    BY <1>0, <2>3 DEF DeleteEntry, Handler, InPieces
  <2>4. CASE DeleteBaseDir(r)
    <3>1. Entries(req[r].id) = {}
      BY <1>2, <2>4 DEF DeleteBaseDir
    <3>. QED  BY <2>4, <3>1, SMTT(30) DEF DeleteBaseDir
  <2>. QED  BY <1>1, <1>5, <2>1, <2>2, <2>3, <2>4, PiecesStep, SMTT(30)
<1>6. ASSUME NEW i \in dirs', ~Readable(i)'
      PROVE  InHand(i)'
  <2>0. i \in Instances
    BY NextTypeInv DEF TypeInv, TypeOK, HostTypeOK
  <2>1. ASSUME NEW r \in Requests, req[r].id = i, req[r].pc \in InPieces, i \in dirs
        PROVE  InHand(i)'
    <3>1. CASE req'[r] = req[r]
      BY <2>1, <3>1 DEF InHand
    <3>2. CASE OwnStep(r)
      BY <1>5, <1>6, <2>1, <3>2 DEF InHand, Readable
    <3>. QED  BY <1>1, <3>1, <3>2, OnlyItsHandler
  <2>2. CASE i \in dirs /\ ~Readable(i)
    BY <1>2, <2>1, <2>2 DEF InHand
  <2>3. CASE SameFiles(i)
    BY <1>6, <2>2, <2>3 DEF SameFiles, Readable
  <2>4. ASSUME NEW r \in Requests, req[r].id = i, FileStep(r), ~(i \in dirs /\ ~Readable(i))
        PROVE  InHand(i)'
    <3>. USE DEF At, Handler, InPieces
    <3>1. CASE SetupDataDir(r)
      BY <1>0, <2>4, <3>1 DEF SetupDataDir, Goto, InHand
    <3>2. CASE SetupTruncate(r)
      BY <1>0, <1>6, <2>4, <3>2 DEF SetupTruncate, Goto, InHand, InstanceExists, files
    <3>3. CASE DeleteEntry(r)
      BY <1>0, <2>4, <3>3 DEF DeleteEntry, InHand
    <3>4. CASE SetupFill(r)
      <4>1. req[r].inst \in Instance
        BY <3>4 DEF SetupFill, TypeInv, HandlerLocals, Building, Unwritten
      <4>2. conf'[i] = req[r].inst
        BY <1>0, <1>2, <2>0, <2>4, <3>4 DEF SetupFill, FillConfig
      <4>. QED  BY <1>6, <4>1, <4>2, NoFileAssumption DEF Readable
    <3>5. CASE SetupLock(r) \/ UnlockInstance(r) \/ DestroyLock(r) \/ DeleteBaseDir(r)
      <4>1. dirs' \subseteq dirs /\ conf' = conf
        BY <3>5, Zenon DEF SetupLock, UnlockInstance, DestroyLock, DeleteBaseDir, Lock, Unlock, files
      <4>. QED  BY <1>6, <2>4, <4>1 DEF Readable
    <3>. QED  BY <2>4, <3>1, <3>2, <3>3, <3>4, <3>5 DEF FileStep
  <2>. QED  BY <2>0, <2>2, <2>3, <2>4, FilesOwner
<1>7. ASSUME NEW r \in Requests, At(r, "fill")'
      PROVE  conf'[req'[r].id] # NoFile
  <2>. USE DEF At
  <2>1. CASE req'[r] = req[r]
    <3>1. req[r].id \in Instances /\ conf[req[r].id] # NoFile /\ req[r].pc \in InPieces
      BY <1>2, <1>3, <1>7, <2>1 DEF InPieces
    <3>2. ASSUME NEW q \in Requests, req[q].id = req[r].id, FileStep(q)
          PROVE  SetupFill(r)
      BY <1>4, <1>7, <2>1, <3>1, <3>2, FileStepAt
    <3>3. ~SetupFill(r)
      BY <1>0, <1>7, <2>1 DEF SetupFill, Goto, Handler
    <3>. QED  BY <2>1, <3>1, <3>2, <3>3, FilesOwner DEF SameFiles
  <2>2. CASE TruncateConfig(req[r].id) /\ req'[r].id = req[r].id
    BY <1>0, <2>2, NoFileAssumption DEF TruncateConfig, TypeInv, TypeOK, HostTypeOK
  <2>3. ~DeleteNames(r) /\ ~DeleteEntry(r)
    BY <1>0, <1>7 DEF DeleteNames, DeleteEntry, Handler
  <2>. QED  BY <1>7, <2>1, <2>2, <2>3, PiecesSource
<1>8. ASSUME NEW r \in Requests, At(r, "remove")'
      PROVE  Entries(req[r].id)' \subseteq req'[r].names
  <2>. USE DEF At
  <2>1. CASE DeleteNames(r)
    BY <1>0, <2>1 DEF DeleteNames, Entries, hostVars, Handler
  <2>2. CASE DeleteEntry(r)
    <3>1. PICK e \in req[r].names : RemoveEntry(req[r].id, e) /\ req' = [req EXCEPT ![r].names = @ \ {e}]
      BY <2>2, Zenon DEF DeleteEntry
    <3>2. req'[r].id = req[r].id /\ req'[r].names = req[r].names \ {e}
      BY <1>0, <3>1 DEF Handler
    <3>3. Entries(req[r].id) \subseteq req[r].names /\ req[r].id \in Instances
      BY <1>2, <1>3, <2>2, Zenon DEF DeleteEntry, FileStep
    <3>. QED  BY <1>0, <3>1, <3>2, <3>3 DEF Entries, RemoveEntry
  <2>3. CASE req'[r] = req[r]
    <3>1. /\ req[r].id \in Instances /\ Entries(req[r].id) \subseteq req[r].names
          /\ req[r].pc \in InPieces
      BY <1>2, <1>3, <1>8, <2>3 DEF InPieces
    <3>2. ASSUME NEW q \in Requests, req[q].id = req[r].id, FileStep(q)
          PROVE  DeleteEntry(r) \/ DeleteBaseDir(r)
      BY <1>4, <1>8, <2>3, <3>1, <3>2, FileStepAt
    <3>3. ~DeleteBaseDir(r)
      <4>1. ASSUME NEW a \in Replies, Reply(r, a)
            PROVE  FALSE
        BY <1>8, <4>1, ReplyEffect
      <4>. QED  BY <1>0, <1>8, <4>1 DEF DeleteBaseDir, Goto, Handler, Replies
    <3>4. CASE SameFiles(req[r].id)
      BY <2>3, <3>1, <3>4 DEF SameFiles, Entries
    <3>. QED  BY <2>2, <3>1, <3>2, <3>3, <3>4, FilesOwner
  <2>4. ~SetupTruncate(r) \/ req'[r].pc # "fill"
    BY <1>8
  <2>. QED  BY <1>8, <2>1, <2>2, <2>3, <2>4, PiecesSource
<1>. QED  BY <1>6, <1>7, <1>8

\* When clients wait for an instance's call before the next one, and no monitor
\* boots, a directory without a readable redis.conf is always in the hands of
\* a handler, however often IDs are used again and redis-servers die, and on a
\* host with any number of instances and calls.
THEOREM NoInstanceLeftHalf == Serialised /\ NeverBoots => (Spec => []NoHalfInstance)
<1>. SUFFICES ASSUME Serialised, NeverBoots
              PROVE  Spec => []NoHalfInstance
  OBVIOUS
<1>. DEFINE Inv == NotBooting /\ OneCall /\ FaultsLeft /\ HalfInv
<1>1. Init => Inv
  <2>1. Init => NotBooting
    BY DEF NeverBoots, Init, MonitorInit, MonitorAt, NotBooting, Copying
  <2>2. Init => FaultsLeft
    BY FaultsAssumption DEF Init, HostInit, FaultsLeft
  <2>3. Init => OneCall
    BY DEF Init, BrokerInit, NoHandler, OneCall, Active
  <2>4. Init => HalfInv
    BY DEF Init, HostInit, BrokerInit, NoHandler, HalfInv, Active, At
  <2>. QED  BY <2>1, <2>2, <2>3, <2>4
<1>2. TypeInv /\ Inv /\ [Next]_vars => Inv'
  <2>1. Inv /\ UNCHANGED vars => OneCall' /\ FaultsLeft' /\ HalfInv'
    BY DEF vars, hostVars, OneCall, FaultsLeft, HalfInv, BrokerUnhurt, InHand, Readable, Entries,
         At, Active
  <2>. QED  BY <2>1, NotBootingKept, OneCallKept, FaultsLeftKept, HalfInvKept
<1>3. Inv => NoHalfInstance
  BY SMTT(30) DEF HalfInv, BrokerUnhurt, NoHalfInstance, InHand, InPieces, Active
<1>. QED  BY <1>1, <1>2, <1>3, TypeInvHolds, PTL DEF Spec

-----------------------------------------------------------------------------
(* Handlers left waiting. *)

\* The redis.conf that a handler starts redis-server on was written by the
\* handler; when it is truncated, the monitor is about to write it again.
TornInv ==
  \A r \in Requests : At(r, "start") /\ conf[req[r].id] = Torn
                        => mon.pc = "copyfill" /\ mon.id = req[r].id

\* A monitor that truncated a redis.conf writes it next, unless it dies.
LEMMA RewriteGoesOn ==
  ASSUME TypeInv, Next, mon.pc = "copyfill"
  PROVE  \/ mon'.pc = "copyfill" /\ mon'.id = mon.id
         \/ CopyFill
         \/ Fault("monitor")
<1>. USE DEF TypeInv, TypeOK, MonitorTypeOK, Monitor, MonAt
<1>1. CASE UNCHANGED mon
  BY <1>1
<1>2. MonitorStep => CopyFill
  BY Zenon DEF MonitorStep, Monitors, MonStarts, MonLists, MonLoaded, MonLoads, CopyDataDir,
       CheckLock, CopyLogDir, CopyTruncate, CopiedAll, SweepDone, ReadPidfile, Ping,
       RemovePidfile, RestartFails, RestartWait
<1>3. ~MonitorRestart
  BY DEF MonitorRestart, Restart
<1>4. CASE SignalUSR1 \/ MonDies
  BY <1>4 DEF SignalUSR1, MonDies
<1>5. BrokerNext \/ RedisNext => UNCHANGED mon
  BY DEF BrokerNext, RedisNext, HandlerStep, HandlerStart, RedisStep
<1>. QED  BY <1>1, <1>2, <1>3, <1>4, <1>5 DEF Next, MonitorNext

\* No step leaves a handler before a redis.conf that stays truncated.
LEMMA TornInvKept ==
  ASSUME TypeInv, OneProvision, TornInv, ~Fault("monitor"), Next
  PROVE  TornInv'
<1>. SUFFICES ASSUME NEW r \in Requests, req'[r].pc = "start", conf'[req'[r].id] = Torn
              PROVE  mon'.pc = "copyfill" /\ mon'.id = req'[r].id
  BY DEF TornInv, At
<1>. DEFINE i == req[r].id
<1>1. /\ req[r].pc \in {"fill", "start"} /\ req[r].op = "provision" /\ i \in Instances
      /\ req[r].pc = "fill" => req[r].inst \in Instance
      /\ req'[r].id = i /\ (req[r].pc = "start" \/ SetupFill(r))
  <2>1. req'[r] = req[r] \/ SetupFill(r)
    BY StartSource
  <2>2. SetupFill(r) => req[r].pc = "fill" /\ req'[r].id = i
    BY DEF SetupFill, Goto, At, TypeInv, TypeOK, BrokerTypeOK, Handler
  <2>. QED  BY <2>1, <2>2 DEF TypeInv, HandlerLocals, Building, Unwritten, Starting
<1>2. conf \in [Instances -> Instance \cup {NoFile, Torn}] /\ mon \in Monitor
  BY DEF TypeInv, TypeOK, HostTypeOK, MonitorTypeOK
<1>3. ~SetupFill(r)
  <2>1. SetupFill(r) => conf'[i] \in {NoFile, req[r].inst} /\ req[r].pc = "fill"
    BY <1>1, <1>2 DEF SetupFill, FillConfig, At
  <2>. QED  BY <1>1, <2>1, NoFileAssumption
<1>4. CASE conf[i] = Torn
  <2>1. mon.pc = "copyfill" /\ mon.id = i
    BY <1>1, <1>3, <1>4 DEF TornInv, At
  <2>2. ~CopyFill
    <3>1. mon.inst \in Instance
      BY <2>1, NoneAssumption DEF TypeInv, MonitorLocals, Copying
    <3>2. CopyFill => conf'[i] \in {NoFile, mon.inst}
      BY <1>1, <1>2, <2>1 DEF CopyFill, FillConfig
    <3>. QED  BY <1>1, <3>1, <3>2, NoFileAssumption
  <2>. QED  BY <1>1, <2>1, <2>2, RewriteGoesOn
<1>5. CASE conf[i] # Torn
  <2>1. ASSUME NEW q \in Requests, SetupTruncate(q), req[q].id = i
        PROVE  FALSE
    <3>1. req[q].pc = "truncate" /\ HandlerLocals(q)
      BY <2>1, Zenon DEF SetupTruncate, At, TypeInv
    <3>2. req[q].op = "provision"
      BY <3>1 DEF HandlerLocals, Building, Unwritten
    <3>. QED  BY <1>1, <1>3, <2>1, <3>1, <3>2 DEF OneProvision
  <2>2. ASSUME NEW q \in Requests, SetupFill(q), req[q].id = i, conf'[i] = req[q].inst
        PROVE  FALSE
    <3>1. req[q].inst \in Instance
      BY <2>2 DEF SetupFill, At, TypeInv, HandlerLocals, Building, Unwritten
    <3>. QED  BY <1>1, <2>2, <3>1, NoFileAssumption
  <2>3. CopyFill /\ mon.id = i /\ conf'[i] = mon.inst => FALSE
    <3>1. mon.id = i => mon.inst \in Instance
      BY <1>1, NoneAssumption DEF TypeInv, MonitorLocals
    <3>. QED  BY <1>1, <3>1, NoFileAssumption
  <2>4. CASE mon.id = i /\ MonGoto("copyfill")
    BY <1>1, <1>2, <2>4 DEF MonGoto, Monitor
  <2>. QED  BY <1>1, <1>5, <2>1, <2>2, <2>3, <2>4, NoFileAssumption, ConfSource, Zenon
<1>. QED  BY <1>4, <1>5

\* A handler comes to wait for a redis-server in the foreground only from the
\* step that executes it on a truncated redis.conf.
LEMMA HungSource ==
  ASSUME TypeInv, Next, NEW r \in Requests, req[r].pc # "hung", req'[r].pc = "hung"
  PROVE  At(r, "start") /\ conf[req[r].id] = Torn
<1>. USE DEF At
<1>1. ASSUME NEW a \in Replies, Reply(r, a) \/ req'[r] = Answered(req[r], a)
      PROVE  FALSE
  BY <1>1, ReplyEffect
<1>2. ASSUME NEW i \in Instances, Arrival(r, i)
      PROVE  FALSE
  BY <1>2, ArrivalEffect
<1>3. CASE StartFails(r)
  <2>1. ~Reply(r, "error")
    BY <1>1 DEF Replies
  <2>. QED  BY <1>3, <2>1, Zenon DEF StartFails, Foreground
<1>. USE DEF TypeInv, TypeOK, BrokerTypeOK, Handler, Replies
<1>4. ~ListInstances(r) /\ ~CheckLimit(r) /\ ~FindFreePort(r)
  BY <1>1 DEF ListInstances, CheckLimit, FindFreePort
<1>5. ASSUME NEW i \in Instances, CountInstance(r, i)
      PROVE  FALSE
  BY <1>1, <1>5 DEF CountInstance
<1>6. ~SetupDataDir(r) /\ ~SetupLogDir(r) /\ ~SetupLock(r) /\ ~SetupTruncate(r) /\ ~SetupFill(r)
  BY <1>1 DEF SetupDataDir, SetupLogDir, SetupLock, SetupTruncate, SetupFill, Goto
<1>7. ~WaitUntilConnectable(r) /\ ~UnlockInstance(r) /\ ~HandlerStart(r)
  BY <1>1 DEF WaitUntilConnectable, UnlockInstance, HandlerStart, Start, Goto
<1>8. ~DestroyFind(r) /\ ~DestroyLock(r) /\ ~KillInstance(r) /\ ~Kill(r)
  BY <1>1 DEF DestroyFind, DestroyLock, KillInstance, Kill, Goto
<1>9. ~DeleteNames(r) /\ ~DeleteEntry(r)
  BY DEF DeleteNames, DeleteEntry
<1>10. ~DeleteBaseDir(r) /\ ~DeleteLogDir(r) /\ ~DeletePidfile(r)
  BY <1>1 DEF DeleteBaseDir, DeleteLogDir, DeletePidfile, Goto
<1>11. ~BindCredentials(r) /\ ~CallFails(r)
  BY <1>1 DEF BindCredentials, CallFails
<1>. HIDE DEF TypeInv, Handler
<1>12. ~Destroy(r) /\ (Create(r) => StartFails(r))
  BY <1>4, <1>5, <1>6, <1>7, <1>8, <1>9, <1>10, Zenon DEF Create, Destroy
<1>. QED  BY <1>1, <1>2, <1>3, <1>7, <1>11, <1>12, OnlyItsHandler, Zenon DEF OwnStep

\* When an ID is used for one Provision only and the monitor does not die, a
\* handler is left waiting for redis-server only in the moment in which the
\* booting monitor rewrites that redis.conf, whatever else is in flight, fails
\* or is cut off.
THEOREM HangsAreBoots ==
  UniqueIDs /\ MaxFaults["monitor"] = 0 => (Spec => HangsOnlyAtBoot)
<1>. SUFFICES ASSUME UniqueIDs, MaxFaults["monitor"] = 0
              PROVE  Spec => HangsOnlyAtBoot
  OBVIOUS
<1>. DEFINE Inv == OneProvision /\ FaultsLeft /\ TornInv
<1>1. Init => Inv
  <2>1. Init => FaultsLeft
    BY FaultsAssumption DEF Init, HostInit, FaultsLeft
  <2>. QED  BY <2>1, InitCredentials DEF Init, BrokerInit, NoHandler, TornInv, At
<1>2. TypeInv /\ Inv /\ Next => Inv'
  <2>1. TypeInv /\ FaultsLeft => ~Fault("monitor")
    BY DEF FaultsLeft, Fault, FaultKind, TypeInv, TypeOK, HostTypeOK
  <2>. QED  BY <2>1, OneProvisionKept, FaultsLeftKept, TornInvKept
<1>3. Inv /\ UNCHANGED vars => Inv'
  BY OneProvisionKept DEF vars, hostVars, OneProvision, FaultsLeft, TornInv, At
<1>4. TypeInv /\ Inv /\ [Next]_vars =>
        [\A r \in Requests : ~At(r, "hung") /\ At(r, "hung")'
                               => mon.pc = "copyfill" /\ mon.id = req[r].id]_vars
  BY HungSource DEF TornInv, At
<1>. QED  BY <1>1, <1>2, <1>3, <1>4, TypeInvHolds, PTL DEF Spec, HangsOnlyAtBoot

-----------------------------------------------------------------------------
(* What the platform sees: answers first, then credentials, then each step *)
(* of Service.                                                             *)

\* A handler has an answer when it is done and not before.
ReplyInv == \A r \in Requests : req[r].pc = "done" <=> req[r].reply # "none"

\* An answer keeps what the handler built.
LEMMA ReplyKeeps ==
  ASSUME TypeInv, NEW r \in Requests, NEW a \in Replies, Reply(r, a)
  PROVE  req'[r].pc = "done" /\ req'[r].reply = a /\ req'[r].inst = req[r].inst
<1>1. req[r] \in Handler
  BY DEF TypeInv, TypeOK, BrokerTypeOK
<1>2. req'[r] = Answered(req[r], a)
  BY ZenonT(30) DEF Reply, Answered, TypeInv, TypeOK, BrokerTypeOK
<1>. QED  BY <1>1, <1>2 DEF Answered, Handler

\* The answers of a handler that is at work, and what it found before a success.
Success(r) ==
  \/ At(r, "unlock") /\ req[r].id \in locks /\ req'[r].inst = req[r].inst
  \/ At(r, "rmpid")
  \/ At(r, "credentials") /\ Readable(req[r].id) /\ req'[r].inst = conf[req[r].id]

Goes(r) == req'[r].reply = req[r].reply /\ req'[r].pc \notin {"idle", "done"}

Fails(r) == /\ req'[r].pc = "done" /\ req'[r].inst = req[r].inst
            /\ \/ req'[r].reply \in {"error", "aborted"}
               \/ req'[r].reply = "limit" /\ req[r].op = "provision"

Succeeds(r) == req'[r].pc = "done" /\ req'[r].reply = "ok" /\ Success(r)

\* A handler at work goes on, fails or succeeds.
LEMMA AnswerSource ==
  ASSUME TypeInv, NEW r \in Requests, OwnStep(r)
  PROVE  \/ \E i \in Instances : Arrival(r, i)
         \/ Active(r) /\ (Goes(r) \/ Fails(r) \/ Succeeds(r))
<1>1. ASSUME NEW a \in {"error", "aborted"}, Reply(r, a)
      PROVE  Fails(r)
  BY <1>1, ReplyKeeps DEF Fails, Replies
<1>2. ASSUME NEW s \in Steps \ {"idle", "done"}, Goto(r, s)
      PROVE  Goes(r)
  BY <1>2 DEF Goto, Goes, TypeInv, TypeOK, BrokerTypeOK, Handler
<1>3. {"load", "pick", "mkdata", "mklogs", "lock", "truncate", "fill", "start", "wait", "unlock",
       "hung", "mark", "pid", "kill", "names", "remove", "rmlogs", "rmpid"} \subseteq Steps \ {"idle", "done"}
  BY DEF Steps, Unlocked, Unwritten, Starting, Destroying
<1>4. ASSUME NEW s \in Steps \ {"idle", "done"}, At(r, s)
      PROVE  Active(r)
  BY <1>4 DEF At, Active
<1>5. CASE ListInstances(r) \/ \E i \in Instances : CountInstance(r, i)
  <2>1. ASSUME NEW i \in Instances,
               req' = [req EXCEPT ![r].todo = @ \ {i}, ![r].n = @ + 1], At(r, "load")
        PROVE  Goes(r)
    BY <2>1 DEF Goes, At, TypeInv, TypeOK, BrokerTypeOK, Handler
  <2>2. ListInstances(r) => Goes(r)
    BY DEF ListInstances, Goes, TypeInv, TypeOK, BrokerTypeOK, Handler
  <2>. QED  BY <1>1, <1>3, <1>4, <1>5, <2>1, <2>2, Zenon DEF ListInstances, CountInstance, At, Active
<1>6. CASE CheckLimit(r)
  <2>1. req[r].op = "provision"
    BY <1>6 DEF CheckLimit, At, TypeInv, HandlerLocals, Counting
  <2>2. Reply(r, "limit") => Fails(r)
    BY <2>1, ReplyKeeps DEF Fails, Replies
  <2>3. req' = [req EXCEPT ![r].pc = "pick", ![r].n = 0] => Goes(r)
    BY DEF Goes, TypeInv, TypeOK, BrokerTypeOK, Handler
  <2>. QED  BY <1>3, <1>4, <1>6, <2>2, <2>3, Zenon DEF CheckLimit
<1>7. CASE FindFreePort(r)
  <2>1. ASSUME NEW port \in Ports,
               req' = [req EXCEPT ![r].pc = "mkdata", ![r].inst = [port |-> port, password |-> r]]
        PROVE  Goes(r)
    BY <2>1 DEF Goes, TypeInv, TypeOK, BrokerTypeOK, Handler
  <2>. QED  BY <1>1, <1>3, <1>4, <1>7, <2>1, Zenon DEF FindFreePort
<1>8. CASE SetupDataDir(r) \/ SetupLogDir(r) \/ SetupLock(r) \/ SetupTruncate(r) \/ SetupFill(r)
  BY <1>1, <1>2, <1>3, <1>4, <1>8, Zenon
  DEF SetupDataDir, SetupLogDir, SetupLock, SetupTruncate, SetupFill
<1>9. CASE StartFails(r) \/ WaitUntilConnectable(r) \/ HandlerStart(r)
  BY <1>1, <1>2, <1>3, <1>4, <1>9, Zenon DEF StartFails, WaitUntilConnectable, HandlerStart, Start
<1>10. CASE UnlockInstance(r)
  <2>1. Unlock(req[r].id) /\ Reply(r, "ok") => Succeeds(r)
    BY <1>10, ReplyKeeps DEF UnlockInstance, Unlock, Succeeds, Success, Replies
  <2>. QED  BY <1>1, <1>3, <1>4, <1>10, <2>1, Zenon DEF UnlockInstance
<1>11. CASE DestroyFind(r) \/ DestroyLock(r) \/ KillInstance(r) \/ Kill(r)
  <2>1. ASSUME NEW x, req' = [req EXCEPT ![r].pc = "mark", ![r].inst = x]
        PROVE  Goes(r)
    BY <2>1 DEF Goes, TypeInv, TypeOK, BrokerTypeOK, Handler
  <2>2. ASSUME NEW x, NEW s \in {"kill", "names"}, req' = [req EXCEPT ![r].pc = s, ![r].pid = x]
        PROVE  Goes(r)
    BY <2>2 DEF Goes, TypeInv, TypeOK, BrokerTypeOK, Handler
  <2>3. "find" \in Steps \ {"idle", "done"}
    BY DEF Steps, Destroying
  <2>. QED  BY <1>1, <1>2, <1>3, <1>4, <1>11, <2>1, <2>2, <2>3, Zenon
            DEF DestroyFind, DestroyLock, KillInstance, Kill
<1>12. CASE DeleteNames(r) \/ DeleteEntry(r)
  <2>1. Goes(r)
    BY <1>12 DEF DeleteNames, DeleteEntry, Goes, At, TypeInv, TypeOK, BrokerTypeOK, Handler
  <2>. QED  BY <1>3, <1>4, <1>12, <2>1, Zenon DEF DeleteNames, DeleteEntry
<1>13. CASE DeleteBaseDir(r) \/ DeleteLogDir(r)
  BY <1>1, <1>2, <1>3, <1>4, <1>13, Zenon DEF DeleteBaseDir, DeleteLogDir
<1>14. CASE DeletePidfile(r)
  <2>1. Succeeds(r)
    BY <1>14, ReplyKeeps DEF DeletePidfile, Succeeds, Success, Replies
  <2>. QED  BY <1>3, <1>4, <1>14, <2>1, Zenon DEF DeletePidfile
<1>15. CASE BindCredentials(r)
  <2>1. Readable(req[r].id) /\ At(r, "credentials")
          /\ req' = [req EXCEPT ![r].pc = "done", ![r].reply = "ok", ![r].inst = conf[req[r].id]]
        => Succeeds(r)
    BY DEF Succeeds, Success, TypeInv, TypeOK, BrokerTypeOK, Handler
  <2>2. "credentials" \in Steps \ {"idle", "done"}
    BY DEF Steps
  <2>. QED  BY <1>1, <1>4, <1>15, <2>1, <2>2, Zenon DEF BindCredentials
<1>16. CASE CallFails(r)
  BY <1>1, <1>16, Zenon DEF CallFails
<1>17. CASE Create(r)
  BY <1>5, <1>6, <1>7, <1>8, <1>9, <1>10, <1>17, Zenon DEF Create
<1>18. CASE Destroy(r)
  BY <1>11, <1>12, <1>13, <1>14, <1>18, Zenon DEF Destroy
<1>. QED  BY <1>9, <1>15, <1>16, <1>17, <1>18, Zenon DEF OwnStep

\* What a call is answered with as it arrives.
LEMMA ArrivalAnswer ==
  ASSUME TypeInv, NEW r \in Requests, NEW i \in Instances, Arrival(r, i)
  PROVE  \E o \in Operations, s \in Steps, a \in {"none", "error", "missing", "ok", "exists"} :
           /\ Begin(r, o, i, s, a) /\ Arrives(r, o, i)
           /\ s = "done" <=> a # "none"
           /\ a = "exists" => o = "provision" /\ i \in dirs
           /\ a = "ok" => o = "unbind" /\ i \in dirs
           /\ a = "missing" => o \in {"deprovision", "bind", "unbind"}
<1>. USE DEF Operations
<1>0. {"list", "find", "credentials", "done"} \subseteq Steps
  BY DEF Steps, Unlocked, Destroying
<1>1. instanceExists(i, TRUE) => i \in dirs
  BY DEF instanceExists, InstanceExists
<1>2. ASSUME NEW plan, Provision(r, i, plan)
      PROVE  /\ Arrives(r, "provision", i)
             /\ \/ Begin(r, "provision", i, "done", "exists") /\ i \in dirs
                \/ Begin(r, "provision", i, "done", "error")
                \/ Begin(r, "provision", i, "list", "none")
  BY <1>1, <1>2, Zenon DEF Provision
<1>3. Deprovision(r, i) => /\ Arrives(r, "deprovision", i)
                           /\ \/ Begin(r, "deprovision", i, "find", "none")
                              \/ Begin(r, "deprovision", i, "done", "missing")
  BY Zenon DEF Deprovision
<1>4. Bind(r, i) => /\ Arrives(r, "bind", i)
                    /\ \/ Begin(r, "bind", i, "credentials", "none")
                       \/ Begin(r, "bind", i, "done", "missing")
  BY Zenon DEF Bind
<1>5. Unbind(r, i) => /\ Arrives(r, "unbind", i)
                      /\ \/ Begin(r, "unbind", i, "done", "ok") /\ i \in dirs
                         \/ Begin(r, "unbind", i, "done", "missing")
  BY <1>1, Zenon DEF Unbind
<1>6. Unimplemented(r, i) => Arrives(r, "other", i) /\ Begin(r, "other", i, "done", "error")
  BY DEF Unimplemented
<1>7. CASE \E plan \in Services \cup {"unknown"} : Provision(r, i, plan)
  BY <1>0, <1>2, <1>7
<1>8. CASE Deprovision(r, i)
  BY <1>0, <1>3, <1>8
<1>9. CASE Bind(r, i)
  BY <1>0, <1>4, <1>9
<1>10. CASE Unbind(r, i)
  BY <1>0, <1>5, <1>10
<1>11. CASE Unimplemented(r, i)
  BY <1>0, <1>6, <1>11
<1>. QED  BY <1>7, <1>8, <1>9, <1>10, <1>11 DEF Arrival

\* A call that has arrived is as Begin says.
LEMMA Begun ==
  ASSUME TypeInv, NEW r \in Requests, NEW o, NEW i, NEW s, NEW a, Begin(r, o, i, s, a)
  PROVE  req'[r].op = o /\ req'[r].id = i /\ req'[r].pc = s /\ req'[r].reply = a
BY DEF Begin, TypeInv, TypeOK, BrokerTypeOK, Handler

\* Answers stay, and come with the end of the handler.
LEMMA ReplyInvKept == ASSUME TypeInv, ReplyInv, Next PROVE ReplyInv'
<1>. SUFFICES ASSUME NEW r \in Requests
              PROVE  req'[r].pc = "done" <=> req'[r].reply # "none"
  BY DEF ReplyInv
<1>1. CASE req'[r] = req[r]
  BY <1>1 DEF ReplyInv
<1>2. CASE req'[r] = Answered(req[r], "aborted")
  BY <1>2, ReplyEffect DEF Replies
<1>3. ASSUME NEW i \in Instances, Arrival(r, i)
      PROVE  req'[r].pc = "done" <=> req'[r].reply # "none"
  BY <1>3, ArrivalAnswer, Begun
<1>4. CASE Active(r) /\ (Goes(r) \/ Fails(r) \/ Succeeds(r))
  BY <1>4 DEF ReplyInv, Active, Goes, Fails, Succeeds
<1>. QED  BY <1>1, <1>2, <1>3, <1>4, OnlyItsHandler, AnswerSource

-----------------------------------------------------------------------------
\* Drawn is about what Provisions gave.
LEMMA DrawnGiven ==
  ASSUME TypeInv, NEW i \in Instances
  PROVE  /\ Drawn(i) = {x \in Instance : Given(i, x)}
         /\ OneProvision => \A x \in Drawn(i) : Drawn(i) = {x}
<1>1. \A r \in Requests : req[r].inst \in Instance \cup {None}
  BY DEF TypeInv, TypeOK, BrokerTypeOK, Handler
<1>2. Drawn(i) = {x \in Instance : Given(i, x)}
  BY <1>1, NoneAssumption DEF Drawn, Given
<1>3. ASSUME OneProvision, NEW x \in Drawn(i), NEW y \in Drawn(i)
      PROVE  x = y
  BY <1>3 DEF Drawn, OneProvision
<1>. QED  BY <1>2, <1>3

\* The directories of an instance, and a Deprovision that found it, show that
\* its credentials were drawn.
DrawnInv == /\ \A i \in dirs : Drawn(i) # {}
            /\ \A r \in Requests : req[r].pc \in Undoing => Drawn(req[r].id) # {}

\* What was drawn stays, and what is found was drawn.
LEMMA DrawnInvKept ==
  ASSUME TypeInv, NotBooting, CopiesGiven, DrawnInv, Next
  PROVE  DrawnInv'
<1>1. ASSUME NEW i \in Instances, Drawn(i) # {}
      PROVE  Drawn(i)' # {}
  <2>1. PICK x \in Instance : Given(i, x)
    BY <1>1, DrawnGiven
  <2>2. Given(i, x)'
    BY <2>1, GivenStable
  <2>. QED  BY <2>2, NoneAssumption DEF Drawn, Given
<1>2. ASSUME NEW i \in Instances, Readable(i)
      PROVE  Drawn(i) # {}
  <2>1. conf[i] \in Copies(i)
    BY <1>2 DEF Copies, Readable, TypeInv, TypeOK, HostTypeOK
  <2>2. Given(i, conf[i]) /\ conf[i] \in Instance
    BY <2>1 DEF CopiesGiven, Copies
  <2>. QED  BY <2>2, DrawnGiven
<1>3. ASSUME NEW i \in dirs'
      PROVE  Drawn(i)' # {}
  <2>1. i \in Instances
    BY NextTypeInv DEF TypeInv, TypeOK, HostTypeOK
  <2>2. i \in dirs \/ \E q \in Requests : At(q, "mkdata") /\ req[q].id = i
    BY <1>3, <2>1, FilesSource, NewDirectories
  <2>3. ASSUME NEW q \in Requests, At(q, "mkdata"), req[q].id = i
        PROVE  Drawn(i) # {}
    BY <2>3, NoneAssumption DEF At, TypeInv, HandlerLocals, Building, Drawn
  <2>. QED  BY <1>1, <2>1, <2>2, <2>3 DEF DrawnInv
<1>4. ASSUME NEW r \in Requests, req'[r].pc \in Undoing
      PROVE  Drawn(req[r].id)' # {}
  <2>1. req'[r].op = "deprovision"
    BY <1>4, NextTypeInv DEF TypeInv, HandlerLocals, Undoing
  <2>2. DestroyAdvanced(r)
    BY <1>4, <2>1, DestroySource DEF Undoing, Destroying
  <2>3. /\ req'[r].id = req[r].id
        /\ req[r].pc \in Undoing \/ (DestroyFind(r) /\ Readable(req[r].id))
    BY <1>4, <2>2 DEF DestroyAdvanced
  <2>4. req[r].id \in Instances
    BY <2>3 DEF TypeInv, HandlerLocals, DestroyFind, At, Undoing, Destroying
  <2>5. Drawn(req[r].id) # {}
    BY <1>2, <2>3, <2>4 DEF DrawnInv
  <2>. QED  BY <1>1, <2>3, <2>4, <2>5 DEF Drawn
<1>. QED  BY <1>3, <1>4 DEF DrawnInv

-----------------------------------------------------------------------------
(* Each step of the shared VM is one of Service, or invisible.             *)

\* The instances that are gone are those of the calls seen.
LEMMA GoneSeen ==
  /\ gone = {i \in Instances : \E r \in Requests : /\ calls[r].op = "deprovision"
                                                   /\ calls[r].id = i
                                                   /\ calls[r].reply = "ok"}
  /\ gone' = {i \in Instances : \E r \in Requests : /\ calls'[r].op = "deprovision"
                                                    /\ calls'[r].id = i
                                                    /\ calls'[r].reply = "ok"}
BY DEF gone, calls, Called, Deprovisioned

\* What a Provision draws, it draws while it goes on.
Draws(r) == req[r].op = "provision" /\ req[r].inst = None /\ req'[r].inst # None

\* Only a Provision that draws changes what is drawn.
LEMMA DrawnSame ==
  ASSUME TypeInv, Next, \A r \in Requests : ~Draws(r)
  PROVE  drawn' = drawn
<1>1. ASSUME NEW r \in Requests
      PROVE  \/ /\ req'[r].op = req[r].op /\ req'[r].id = req[r].id
                /\ req[r].op = "provision" => req'[r].inst = req[r].inst
             \/ req'[r].inst = None /\ req[r].inst = None
  BY HandlerSource DEF Draws
<1>2. ASSUME NEW i \in Instances
      PROVE  Drawn(i)' = Drawn(i)
  BY <1>1 DEF Drawn
<1>. QED  BY <1>2 DEF drawn

\* The step that draws.
LEMMA DrawStep ==
  ASSUME TypeInv, ReplyInv, OneProvision, Next, NEW r \in Requests, Draws(r), OwnStep(r)
  PROVE  Promise!Draw(r, req'[r].inst) /\ req'[r].inst \in Instance
<1>1. Active(r) /\ Goes(r)
  <2>1. ~\E i \in Instances : Arrival(r, i)
    BY ArrivalEffect DEF Draws, At, TypeInv, HandlerLocals
  <2>2. ~Fails(r)
    BY DEF Fails, Draws
  <2>3. ~Succeeds(r)
    BY DEF Succeeds, Success, Draws, At, TypeInv, HandlerLocals, Destroying
  <2>. QED  BY <2>1, <2>2, <2>3, AnswerSource
<1>2. req'[r].op = "provision" /\ req'[r].id = req[r].id
  BY <1>1, HandlerSource, ArrivalEffect DEF Draws, At, Active
<1>3. req[r].id \in Instances /\ req[r].reply = "none" /\ req'[r].inst \in Instance
  <2>1. req[r].id \in Instances /\ req[r].reply = "none"
    BY <1>1 DEF TypeInv, HandlerLocals, ReplyInv, Active
  <2>2. req'[r] \in Handler
    BY NextTypeInv DEF TypeInv, TypeOK, BrokerTypeOK
  <2>. QED  BY <2>1, <2>2 DEF Handler, Draws
<1>4. \A q \in Requests \ {r} : req'[q] = req[q]
  BY OthersStay
<1>5. UNCHANGED calls
  BY <1>1, <1>2, <1>4 DEF calls, Called, Goes, Draws
<1>6. Drawn(req[r].id) = {}
  BY DEF Drawn, OneProvision, Draws
<1>7. Drawn(req[r].id)' = {req'[r].inst}
  BY <1>2, <1>4 DEF Drawn, OneProvision, Draws
<1>8. ASSUME NEW i \in Instances, i # req[r].id
      PROVE  Drawn(i)' = Drawn(i)
  BY <1>2, <1>4, <1>8 DEF Drawn
<1>9. drawn' = [drawn EXCEPT ![req[r].id] = {req'[r].inst}]
  BY <1>2, <1>3, <1>7, <1>8 DEF drawn
<1>10. /\ calls[r].id = req[r].id /\ calls[r].op = "provision" /\ calls[r].reply = "none"
       /\ drawn[req[r].id] = {}
  BY <1>3, <1>6 DEF calls, Called, drawn, Draws
<1>. QED  BY <1>3, <1>5, <1>9, <1>10, GoneSeen DEF Promise!Draw, Promise!Pending

\* An instance whose directory exists is there for the platform: it was drawn
\* and no Deprovision of it was answered with success.
LEMMA DirsHeld ==
  ASSUME TypeInv, FilesInv, DrawnInv, NEW i \in dirs
  PROVE  Promise!Held(i) /\ i \in Instances /\ drawn[i] # {}
<1>1. i \in Instances
  BY DEF TypeInv, TypeOK, HostTypeOK
<1>2. i \notin gone
  BY <1>1 DEF gone, Deprovisioned, FilesInv
<1>. QED  BY <1>1, <1>2 DEF Promise!Held, drawn, DrawnInv

\* A call that arrives.
LEMMA CallStep ==
  ASSUME UniqueIDs, TypeInv, FilesInv, DrawnInv, Next, NEW r \in Requests, NEW i \in Instances,
         Arrival(r, i)
  PROVE  Promise!Next
<1>1. PICK o \in Operations, s \in Steps, a \in {"none", "error", "missing", "ok", "exists"} :
           /\ Begin(r, o, i, s, a) /\ Arrives(r, o, i)
           /\ s = "done" <=> a # "none"
           /\ a = "exists" => o = "provision" /\ i \in dirs
           /\ a = "ok" => o = "unbind" /\ i \in dirs
           /\ a = "missing" => o \in {"deprovision", "bind", "unbind"}
  BY ArrivalAnswer
<1>2. a # "exists"
  <2>1. i \in dirs => Drawn(i) # {}
    BY DEF DrawnInv
  <2>. QED  BY <1>1, <2>1 DEF Drawn, Arrives
<1>3. At(r, "idle") /\ req[r].op = "none" /\ req[r].inst = None /\ req'[r].inst = None
  BY ArrivalEffect DEF At, TypeInv, HandlerLocals
<1>4. \A q \in Requests \ {r} : req'[q] = req[q]
  BY ArrivalEffect
<1>5. /\ req'[r].op = o /\ req'[r].id = i /\ req'[r].reply = a
      /\ ~(o = "bind" /\ a = "ok") /\ ~(o = "deprovision" /\ a = "ok")
  BY <1>1, Begun
<1>6. calls' = [calls EXCEPT ![r] = [op |-> o, id |-> i, reply |-> a, given |-> {}]]
  BY <1>4, <1>5 DEF calls, Called
<1>7. drawn' = drawn
  BY <1>3, <1>4, DrawnSame DEF Draws
<1>8. gone' = gone
  BY <1>3, <1>4, <1>5 DEF gone, Deprovisioned
<1>9. calls[r].op = "none"
  BY <1>3 DEF calls, Called
<1>10. a = "ok" => Promise!Held(i)
  BY <1>1, DirsHeld
<1>11. Promise!Call(r, o, i, a)
  BY <1>1, <1>2, <1>6, <1>7, <1>8, <1>9, <1>10 DEF Promise!Call, Operations
<1>. QED  BY <1>1, <1>2, <1>11, Zenon DEF Promise!Next, Operations

\* A call that fails.
LEMMA FailStep ==
  ASSUME TypeInv, ReplyInv, Next, NEW r \in Requests, OwnStep(r), Active(r), Fails(r)
  PROVE  Promise!Next
<1>1. req'[r].op = req[r].op /\ req'[r].id = req[r].id
  BY HandlerSource, ArrivalEffect DEF At, Active
<1>2. \A q \in Requests \ {r} : req'[q] = req[q]
  BY OthersStay
<1>3. req[r].reply = "none" /\ req[r].op # "none"
  BY DEF ReplyInv, Active, TypeInv, TypeOK, BrokerTypeOK, Handler, HandlerLocals, Steps, Counting,
     Building, Unlocked, Unwritten, Starting, Destroying
<1>. DEFINE a == req'[r].reply
<1>4. a \in {"limit", "error", "aborted"} /\ (a = "limit" => req[r].op = "provision")
  BY DEF Fails
<1>5. calls' = [q \in Requests |-> IF q \in {r} THEN [calls[q] EXCEPT !.reply = a] ELSE calls[q]]
  BY <1>1, <1>2, <1>3, <1>4 DEF calls, Called
<1>6. drawn' = drawn
  BY <1>2, DrawnSame DEF Draws, Fails
<1>7. gone' = gone
  BY <1>1, <1>2, <1>3, <1>4 DEF gone, Deprovisioned
<1>8. Promise!Pending(r) /\ (a = "limit" => calls[r].op = "provision")
  BY <1>3, <1>4 DEF Promise!Pending, calls, Called
<1>. HIDE DEF a
<1>9. Promise!Refuse({r}, a)
  BY <1>4, <1>5, <1>6, <1>7, <1>8 DEF Promise!Refuse
<1>. QED  BY <1>4, <1>9 DEF Promise!Next

\* The broker ends, and every call in flight with it.
LEMMA EndStep ==
  ASSUME TypeInv, ReplyInv, Next, BrokerExits
  PROVE  Promise!Next
<1>. DEFINE S == {r \in Requests : Active(r)}
<1>1. ASSUME NEW r \in Requests
      PROVE  /\ req'[r] = IF r \in S THEN Answered(req[r], "aborted") ELSE req[r]
             /\ r \in S => req[r].reply = "none" /\ req[r].op # "none"
  <2>1. req'[r] = IF Active(r) THEN Answered(req[r], "aborted") ELSE req[r]
    BY Zenon DEF BrokerExits, Answered
  <2>2. Active(r) => req[r].reply = "none" /\ req[r].op # "none"
    BY DEF ReplyInv, Active, TypeInv, TypeOK, BrokerTypeOK, Handler, HandlerLocals, Steps, Counting,
       Building, Unlocked, Unwritten, Starting, Destroying
  <2>. QED  BY <2>1, <2>2
<1>2. ASSUME NEW r \in S
      PROVE  /\ req'[r].op = req[r].op /\ req'[r].id = req[r].id
             /\ req'[r].inst = req[r].inst /\ req'[r].reply = "aborted"
  BY <1>1, <1>2 DEF Answered, TypeInv, TypeOK, BrokerTypeOK, Handler
<1>3. S # {} /\ S \subseteq Requests
  BY DEF BrokerExits
<1>. HIDE DEF S
<1>4. calls' = [r \in Requests |-> IF r \in S THEN [calls[r] EXCEPT !.reply = "aborted"] ELSE calls[r]]
  <2>1. ASSUME NEW r \in Requests, r \in S
        PROVE  Called(req'[r]) = [Called(req[r]) EXCEPT !.reply = "aborted"]
    <3>1. Called(req'[r]) = [op |-> req[r].op, id |-> req[r].id, reply |-> "aborted", given |-> {}]
      BY <1>2, <2>1 DEF Called
    <3>2. Called(req[r]) = [op |-> req[r].op, id |-> req[r].id, reply |-> "none", given |-> {}]
      BY <1>1, <2>1 DEF Called
    <3>. QED  BY <3>1, <3>2
  <2>2. ASSUME NEW r \in Requests, r \notin S
        PROVE  Called(req'[r]) = Called(req[r])
    BY <1>1, <2>2
  <2>. HIDE DEF Called
  <2>. QED  BY <2>1, <2>2 DEF calls
<1>5. drawn' = drawn
  BY <1>1, <1>2, DrawnSame DEF Draws
<1>6. gone' = gone
  BY <1>1, <1>2 DEF gone, Deprovisioned
<1>7. \A r \in S : Promise!Pending(r)
  BY <1>1, <1>3 DEF Promise!Pending, calls, Called
<1>8. Promise!Refuse(S, "aborted")
  BY <1>3, <1>4, <1>5, <1>6, <1>7 DEF Promise!Refuse
<1>. QED  BY <1>3, <1>8 DEF Promise!Next

\* A call that succeeds.
LEMMA SucceedStep ==
  ASSUME TypeInv, FilesInv, DrawnInv, ReplyInv, OneProvision, CopiesGiven, Next,
         NEW r \in Requests, OwnStep(r), Active(r), Succeeds(r)
  PROVE  Promise!Next
<1>. DEFINE i == req[r].id
<1>1. req'[r].op = req[r].op /\ req'[r].id = i /\ i \in Instances
  BY HandlerSource, ArrivalEffect DEF At, Active, TypeInv, HandlerLocals
<1>2. \A q \in Requests \ {r} : req'[q] = req[q]
  BY OthersStay
<1>3. req[r].reply = "none" /\ req'[r].reply = "ok"
  BY DEF ReplyInv, Active, Succeeds
<1>4. \/ /\ req[r].op = "provision" /\ i \in locks /\ req'[r].inst = req[r].inst
      \/ req[r].op = "deprovision" /\ At(r, "rmpid")
      \/ req[r].op = "bind" /\ Readable(i) /\ req'[r].inst = conf[i]
  BY DEF Succeeds, Success, At, TypeInv, HandlerLocals, Building, Starting, Destroying
<1>5. drawn' = drawn
  BY <1>2, <1>4, DrawnSame DEF Draws
<1>6. i \in locks \/ Readable(i) => i \in dirs
  BY <1>1 DEF FilesInv, Readable
<1>7. At(r, "rmpid") => drawn[i] # {}
  BY <1>1 DEF At, DrawnInv, Undoing, Destroying, drawn
<1>8. Readable(i) => drawn[i] = {conf[i]}
  <2>1. ASSUME Readable(i)
        PROVE  conf[i] \in Copies(i)
    BY <1>1, <2>1 DEF Copies, Readable, TypeInv, TypeOK, HostTypeOK
  <2>2. Readable(i) => Given(i, conf[i]) /\ conf[i] \in Instance
    BY <1>1, <2>1 DEF CopiesGiven, Copies
  <2>. QED  BY <1>1, <2>2, DrawnGiven DEF drawn
<1>9. /\ calls[r].op = req[r].op /\ calls[r].id = i /\ calls[r].reply = "none"
      /\ Promise!Pending(r)
  BY <1>3, <1>4 DEF calls, Called, Promise!Pending
<1>10. calls' = [calls EXCEPT ![r] = [op |-> @.op, id |-> @.id, reply |-> "ok",
                                      given |-> IF @.op = "bind" THEN drawn[@.id] ELSE {}]]
  <2>1. Called(req'[r]) = [op |-> req[r].op, id |-> i, reply |-> "ok",
                           given |-> IF req[r].op = "bind" THEN drawn[i] ELSE {}]
    BY <1>1, <1>3, <1>4, <1>8 DEF Called
  <2>. HIDE DEF Called
  <2>. QED  BY <1>2, <1>9, <2>1 DEF calls
<1>11. gone' = IF req[r].op = "deprovision" THEN gone \cup {i} ELSE gone
  BY <1>1, <1>2, <1>3 DEF gone, Deprovisioned
<1>. HIDE DEF i
<1>12. Promise!Succeed(r)
  <2>1. CASE req[r].op = "deprovision"
    BY <1>4, <1>5, <1>7, <1>9, <1>10, <1>11, <2>1 DEF Promise!Succeed
  <2>2. CASE req[r].op \in {"provision", "bind"}
    BY <1>4, <1>5, <1>6, <1>9, <1>10, <1>11, <2>2, DirsHeld DEF Promise!Succeed
  <2>. QED  BY <1>4, <2>1, <2>2
<1>. QED  BY <1>12 DEF Promise!Next

\* A step that the platform does not see.
LEMMA SilentStep ==
  ASSUME TypeInv, ReplyInv, Next, NEW r \in Requests, OwnStep(r), Active(r), Goes(r), ~Draws(r)
  PROVE  UNCHANGED <<drawn, gone, calls>>
<1>1. req'[r].op = req[r].op /\ req'[r].id = req[r].id
  BY HandlerSource, ArrivalEffect DEF At, Active
<1>2. \A q \in Requests \ {r} : req'[q] = req[q]
  BY OthersStay
<1>3. req[r].reply = "none" /\ req'[r].reply = "none"
  BY DEF ReplyInv, Active, Goes
<1>4. calls' = calls
  BY <1>1, <1>2, <1>3 DEF calls, Called
<1>5. drawn' = drawn
  BY <1>2, DrawnSame DEF Draws
<1>. QED  BY <1>4, <1>5, GoneSeen

ServiceInv == NotBooting /\ OneProvision /\ CopiesGiven /\ FilesInv /\ ReplyInv /\ DrawnInv

\* Every step of the shared VM is one of Service, or does not show.
LEMMA ServiceStep ==
  ASSUME UniqueIDs, TypeInv, ServiceInv, [Next]_vars
  PROVE  [Promise!Next]_(Promise!vars)
<1>. USE DEF ServiceInv
<1>1. CASE UNCHANGED req
  BY <1>1 DEF Promise!vars, drawn, gone, calls, Drawn, Called, Deprovisioned
<1>2. CASE Next /\ BrokerExits
  BY <1>2, EndStep
<1>3. ASSUME Next, NEW r \in Requests, OwnStep(r)
      PROVE  [Promise!Next]_(Promise!vars)
  <2>1. CASE \E i \in Instances : Arrival(r, i)
    BY <1>3, <2>1, CallStep
  <2>2. CASE Active(r) /\ Fails(r)
    BY <1>3, <2>2, FailStep
  <2>3. CASE Active(r) /\ Succeeds(r)
    BY <1>3, <2>3, SucceedStep
  <2>4. CASE Draws(r)
    BY <1>3, <2>4, DrawStep DEF Promise!Next
  <2>5. CASE Active(r) /\ Goes(r) /\ ~Draws(r)
    BY <1>3, <2>5, SilentStep DEF Promise!vars
  <2>. QED  BY <1>3, <2>1, <2>2, <2>3, <2>4, <2>5, AnswerSource
<1>. QED  BY <1>1, <1>2, <1>3, WhoMoves DEF vars

\* With IDs used for one Provision only, and no monitor booting meanwhile, the
\* broker keeps the promise of Service for any number of instances, calls in
\* flight, ports and processes, and however often calls fail, redis-servers
\* die and the broker ends.
THEOREM ServiceRefinement == UniqueIDs /\ NeverBoots => (Spec => ImplementsService)
<1>. SUFFICES ASSUME UniqueIDs, NeverBoots
              PROVE  Spec => ImplementsService
  OBVIOUS
<1>1. Init => ServiceInv
  <2>1. Init => ReplyInv /\ DrawnInv
    BY DEF Init, HostInit, BrokerInit, NoHandler, ReplyInv, DrawnInv, Undoing, Destroying
  <2>. QED  BY <2>1, InitFiles, InitCredentials DEF ServiceInv
<1>2. TypeInv /\ ServiceInv /\ [Next]_vars => ServiceInv'
  <2>1. ReplyInv /\ DrawnInv /\ UNCHANGED vars => ReplyInv' /\ DrawnInv'
    <3>1. UNCHANGED vars => UNCHANGED <<dirs, req>> /\ \A i : Drawn(i)' = Drawn(i)
      BY DEF vars, hostVars, Drawn
    <3>. QED  BY <3>1 DEF ReplyInv, DrawnInv
  <2>. QED  BY <2>1, FilesInvStutters, NotBootingKept, OneProvisionKept, CopiesGivenKept,
               FilesInvKept, ReplyInvKept, DrawnInvKept DEF ServiceInv
<1>3. Init => Promise!Init
  <2>. SUFFICES ASSUME Init PROVE Promise!Init
    OBVIOUS
  <2>1. \A r \in Requests : req[r] = NoHandler
    BY DEF Init, BrokerInit
  <2>2. \A r \in Requests : req[r].op = "none"
    BY <2>1 DEF NoHandler
  <2>3. \A i \in Instances : Drawn(i) = {}
    BY <2>2 DEF Drawn
  <2>4. gone = {}
    BY <2>2 DEF gone, Deprovisioned
  <2>5. Called(NoHandler) = [op |-> "none", id |-> None, reply |-> "none", given |-> {}]
    BY DEF Called, NoHandler
  <2>. QED  BY <2>1, <2>3, <2>4, <2>5 DEF Promise!Init, calls, drawn
<1>4. TypeInv /\ ServiceInv /\ [Next]_vars => [Promise!Next]_(Promise!vars)
  BY ServiceStep
<1>. QED  BY <1>1, <1>2, <1>3, <1>4, TypeInvHolds, PTL DEF Spec, ImplementsService, Promise!Spec
=============================================================================

----------------------------- MODULE LockProofs -----------------------------
(***************************************************************************)
(* Deprovision kills only its own instance's process, and the monitor      *)
(* keeps its hands off an instance that is being provisioned.  Without a   *)
(* booting monitor the files of a deprovisioned instance stay gone, and    *)
(* the limit on instances is exceeded by no more than the calls in flight. *)
(***************************************************************************)
EXTENDS SharedVM_proofs, FiniteSetTheorems

-----------------------------------------------------------------------------
(* Pidfiles. *)

\* A pidfile is written by the process it names, and otherwise removed.
LEMMA PidfileSource ==
  ASSUME TypeInv, Next, NEW i \in Instances
  PROVE  \/ pidfile'[i] \in {pidfile[i], None}
         \/ /\ pidfile'[i] \in Pids /\ Alive(pidfile[i])'
            /\ proc'[pidfile'[i]].id = i
<1>. USE DEF TypeInv, TypeOK, HostTypeOK, hostVars, files
<1>1. ASSUME NEW p \in Pids, RedisWritesPidfile(p)
      PROVE  pidfile'[i] = pidfile[i] \/ (pidfile'[i] = p /\ Alive(p)' /\ proc'[p].id = i)
  <2>1. proc[p] \in Process /\ proc'[p] = [proc[p] EXCEPT !.phase = "loading"]
    BY <1>1 DEF RedisWritesPidfile
  <2>2. proc'[p].id = proc[p].id /\ proc'[p] # None
    BY <2>1, NoneAssumption DEF Process, Phase
  <2>. QED  BY <1>1, <2>2 DEF RedisWritesPidfile, Alive
<1>2. ASSUME RedisNext, ~\E p \in Pids : RedisWritesPidfile(p)
      PROVE  UNCHANGED pidfile
  BY <1>2 DEF RedisNext, RedisStep, RedisRuns, RedisListens, RedisCannotListen, RedisLoaded,
       RedisDies
<1>3. ASSUME NEW r \in Requests, DeletePidfile(r)
      PROVE  pidfile'[i] \in {pidfile[i], None}
  BY <1>3 DEF DeletePidfile
<1>4. ASSUME NEW r \in Requests, Create(r) \/ (Destroy(r) /\ ~DeletePidfile(r))
      PROVE  UNCHANGED pidfile
  BY <1>4, ZenonT(30)
  DEF Create, ListInstances, CountInstance, CheckLimit, FindFreePort, SetupDataDir,
       SetupLogDir, SetupLock, SetupTruncate, SetupFill, StartFails, WaitUntilConnectable,
       UnlockInstance, Destroy, DestroyFind, DestroyLock, KillInstance, Kill, DeleteNames,
       DeleteEntry, DeleteBaseDir, DeleteLogDir
<1>5. ASSUME BrokerNext, \A r \in Requests : ~Create(r) /\ ~Destroy(r)
      PROVE  UNCHANGED pidfile
  <2>1. ASSUME NEW r \in Requests, NEW j \in Instances, Arrival(r, j)
        PROVE  UNCHANGED pidfile
    BY <2>1, ArrivalEffect
  <2>2. ASSUME NEW r \in Requests, HandlerStep(r) \/ HandlerStart(r) \/ CallFails(r)
        PROVE  UNCHANGED pidfile
    BY <1>5, <2>2 DEF HandlerStep, Handle, BindCredentials, HandlerStart, Start, CallFails
  <2>3. BrokerExits => UNCHANGED pidfile
    BY Zenon DEF BrokerExits
  <2>. QED  BY <1>5, <2>1, <2>2, <2>3 DEF BrokerNext
<1>6. MonitorNext => pidfile'[i] \in {pidfile[i], None}
  BY Zenon DEF MonitorNext, MonitorStep, Monitors, MonStarts, MonLists, MonLoaded, MonLoads,
       CopyDataDir, CheckLock, CopyLogDir, CopyTruncate, CopyFill, CopiedAll, SweepDone,
       ReadPidfile, Ping, RemovePidfile, RestartFails, RestartWait, MonitorRestart, Restart,
       SignalUSR1, MonDies
<1>7. CASE \E p \in Pids : RedisWritesPidfile(p)
  BY <1>1, <1>7 DEF Alive
<1>. QED
  BY <1>2, <1>3, <1>4, <1>5, <1>6, <1>7 DEF Next, BrokerNext, HandlerStep, Handle

\* A handler is about to kill what it just read from the pidfile.
LEMMA KillSource ==
  ASSUME TypeInv, Next, NEW r \in Requests, At(r, "kill")'
  PROVE  /\ req'[r].id = req[r].id
         /\ \/ At(r, "kill") /\ req'[r].pid = req[r].pid
            \/ UNCHANGED proc /\ req'[r].pid = pidfile[req[r].id]
<1>. USE DEF TypeInv, TypeOK, BrokerTypeOK, Handler, At
<1>1. CASE req'[r] = req[r]
  BY <1>1
<1>2. ASSUME NEW q \in Requests, KillInstance(q)
      PROVE  req'[r] = req[r] \/ (/\ req'[r].id = req[r].id /\ UNCHANGED proc
                                  /\ req'[r].pid = pidfile[req[r].id])
  BY <1>2 DEF KillInstance, InstancePid, hostVars, Reply
<1>3. ASSUME NEW q \in Requests, Create(q)
      PROVE  req'[r] = req[r]
  <2>1. CASE ListInstances(q) \/ CheckLimit(q) \/ FindFreePort(q)
    BY <2>1, SMTT(30) DEF ListInstances, CheckLimit, FindFreePort, Reply
  <2>4. ASSUME NEW i \in Instances, CountInstance(q, i)
        PROVE  req'[r] = req[r]
    BY <2>4 DEF CountInstance, Reply
  <2>2. CASE SetupDataDir(q) \/ SetupLogDir(q) \/ SetupLock(q) \/ SetupTruncate(q) \/ SetupFill(q)
    BY <2>2, SMTT(30)
    DEF SetupDataDir, SetupLogDir, SetupLock, SetupTruncate, SetupFill, Goto, Reply
  <2>3. CASE StartFails(q) \/ WaitUntilConnectable(q) \/ UnlockInstance(q)
    BY <2>3, SMTT(30) DEF StartFails, WaitUntilConnectable, UnlockInstance, Goto, Reply
  <2>. QED  BY <1>3, <2>1, <2>2, <2>3, <2>4 DEF Create
<1>4. ASSUME NEW q \in Requests, Destroy(q), ~KillInstance(q)
      PROVE  req'[r] = req[r]
  <2>1. CASE DestroyFind(q) \/ DestroyLock(q) \/ Kill(q)
    BY <2>1, SMTT(30) DEF DestroyFind, DestroyLock, Kill, Goto, Reply
  <2>2. CASE DeleteNames(q) \/ DeleteEntry(q)
    BY <2>2 DEF DeleteNames, DeleteEntry
  <2>3. CASE DeleteBaseDir(q) \/ DeleteLogDir(q) \/ DeletePidfile(q)
    BY <2>3, SMTT(30) DEF DeleteBaseDir, DeleteLogDir, DeletePidfile, Goto, Reply
  <2>. QED  BY <1>4, <2>1, <2>2, <2>3 DEF Destroy
<1>5. ASSUME NEW q \in Requests, BindCredentials(q) \/ HandlerStart(q) \/ CallFails(q)
      PROVE  req'[r] = req[r]
  BY <1>5, SMTT(30) DEF BindCredentials, HandlerStart, Start, CallFails, Goto, Reply
<1>6. ASSUME NEW q \in Requests, NEW i \in Instances, Arrival(q, i)
      PROVE  req'[r] = req[r]
  BY <1>6, ArrivalEffect
<1>7. ASSUME BrokerExits
      PROVE  req'[r] = req[r]
  <2>1. req'[r] = IF Active(r) THEN Answered(req[r], "aborted") ELSE req[r]
    BY <1>7, Zenon DEF BrokerExits, Answered
  <2>. QED  BY <2>1, AnsweredType, SMTT(30) DEF Replies
<1>8. MonitorNext \/ RedisNext => req'[r] = req[r]
  BY DEF MonitorNext, RedisNext, MonitorStep, MonitorRestart, RedisStep
<1>. QED
  BY <1>1, <1>2, <1>3, <1>4, <1>5, <1>6, <1>7, <1>8 DEF Next, BrokerNext, HandlerStep, Handle

\* A pidfile that names a live process names one of its own instance's.
PidfilesOwn ==
  \A i \in Instances : pidfile[i] # None /\ Alive(pidfile[i]) => proc[pidfile[i]].id = i

\* Pidfiles and the pids handlers have read keep naming processes of their
\* instance.
LEMMA PidInvKept ==
  ASSUME ~PidReuse, TypeInv, PidfilesOwn, KillsOwnProcess, Next
  PROVE  PidfilesOwn' /\ KillsOwnProcess'
<1>1. ASSUME NEW p \in Pids, Referenced(p), Alive(p)'
      PROVE  Alive(p) /\ proc'[p].id = proc[p].id
  BY <1>1, ProcessSource DEF Alive, FreePids
<1>2. ASSUME NEW i \in Instances, pidfile'[i] # None, Alive(pidfile[i])'
      PROVE  proc'[pidfile'[i]].id = i
  <2>1. CASE pidfile'[i] = pidfile[i]
    <3>1. pidfile[i] \in Pids /\ Referenced(pidfile[i])
      BY <1>2, <2>1 DEF Referenced, TypeInv, TypeOK, HostTypeOK
    <3>. QED  BY <1>1, <1>2, <2>1, <3>1 DEF PidfilesOwn
  <2>. QED  BY <1>2, <2>1, PidfileSource
<1>3. ASSUME NEW r \in Requests, At(r, "kill")', Alive(req[r].pid)'
      PROVE  proc'[req'[r].pid].id = req'[r].id
  <2>1. CASE At(r, "kill") /\ req'[r].pid = req[r].pid
    <3>1. req[r].pid \in Pids /\ Referenced(req[r].pid)
      BY <2>1 DEF At, HandlerLocals, Referenced, TypeInv
    <3>. QED  BY <1>1, <1>3, <2>1, <3>1, KillSource DEF KillsOwnProcess
  <2>2. CASE UNCHANGED proc /\ req'[r].pid = pidfile[req[r].id]
    <3>1. req'[r].pid \in Pids /\ req'[r].id \in Instances
      BY <1>3, NextTypeInv DEF At, HandlerLocals, TypeInv
    <3>. QED  BY <1>3, <2>2, <3>1, KillSource, NoneAssumption DEF PidfilesOwn, Alive
  <2>. QED  BY <1>3, <2>1, <2>2, KillSource
<1>. QED  BY <1>2, <1>3 DEF PidfilesOwn, KillsOwnProcess

\* While the kernel does not reuse a pid that a pidfile or a handler still
\* names, Deprovision kills no other instance's redis-server, however stale
\* the pidfile it read.
THEOREM KillsOnlyItsOwn == ~PidReuse => (Spec => []KillsOwnProcess)
<1>. SUFFICES ASSUME ~PidReuse
              PROVE  Spec => []KillsOwnProcess
  OBVIOUS
<1>1. Init => PidfilesOwn /\ KillsOwnProcess
  BY DEF Init, HostInit, BrokerInit, NoHandler, PidfilesOwn, KillsOwnProcess, At
<1>2. PidfilesOwn /\ KillsOwnProcess /\ UNCHANGED vars => PidfilesOwn' /\ KillsOwnProcess'
  BY DEF vars, hostVars, PidfilesOwn, KillsOwnProcess, At, Alive
<1>3. TypeInv /\ PidfilesOwn /\ KillsOwnProcess /\ [Next]_vars => PidfilesOwn' /\ KillsOwnProcess'
  BY <1>2, PidInvKept
<1>. QED  BY <1>1, <1>3, TypeInvHolds, PTL DEF Spec

-----------------------------------------------------------------------------
(* The lock file.  Until Provision wrote redis.conf the monitor cannot see *)
(* the instance; from then on the lock file is there.                      *)

Provisioning(r) == req[r].op = "provision" /\ Active(r)

Hidden(i) == ~Readable(i) /\ mon.found[i] = None /\ mon.id # i

ProtectInv ==
  \A r \in Requests : Provisioning(r) =>
    /\ req[r].pc \in Unlocked \cup Unwritten => Hidden(req[r].id)
    /\ req[r].pc \in Unwritten \cup Starting => req[r].id \in locks
    /\ mon.pc \in Ensuring => mon.id # req[r].id

\* One call per instance at a time.
OneCall == \A r, q \in Requests : Active(r) /\ Active(q) /\ req[r].id = req[q].id => r = q

\* A lock file is removed by the handlers of its instance only.
LEMMA LockSource ==
  ASSUME TypeInv, Next, NEW i \in locks, i \notin locks'
  PROVE  \E q \in Requests : req[q].id = i /\ (UnlockInstance(q) \/ DeleteEntry(q))
<1>. USE DEF hostVars, files
<1>1. ASSUME NEW q \in Requests, UnlockInstance(q) \/ DeleteEntry(q)
      PROVE  req[q].id = i
  BY <1>1 DEF UnlockInstance, Unlock, DeleteEntry, RemoveEntry
<1>2. ASSUME NEW q \in Requests, Create(q), ~UnlockInstance(q)
      PROVE  FALSE
  BY <1>2, Zenon DEF Create, ListInstances, CountInstance, CheckLimit, FindFreePort, SetupDataDir,
       MakeDataDir, SetupLogDir, MakeLogDir, SetupLock, Lock, SetupTruncate, TruncateConfig,
       SetupFill, FillConfig, StartFails, WaitUntilConnectable
<1>3. ASSUME NEW q \in Requests, Destroy(q), ~DeleteEntry(q)
      PROVE  FALSE
  BY <1>3 DEF Destroy, DestroyFind, DestroyLock, Lock, KillInstance, Kill, DeleteNames,
       DeleteBaseDir, DeleteLogDir, RemoveLogDir, DeletePidfile
<1>4. ASSUME BrokerNext, \A q \in Requests : ~Create(q) /\ ~Destroy(q)
      PROVE  FALSE
  BY <1>4, ZenonT(30)
  DEF BrokerNext, Arrival, Provision, Deprovision, Bind, Unbind, Unimplemented, HandlerStep,
      Handle,
       BindCredentials, HandlerStart, Start, CallFails, BrokerExits
<1>5. ~MonitorNext
  BY Zenon DEF MonitorNext, MonitorStep, Monitors, MonStarts, MonLists, MonLoaded, MonLoads,
       CopyDataDir, MakeDataDir, CheckLock, CopyLogDir, MakeLogDir, CopyTruncate,
       TruncateConfig, CopyFill, FillConfig, CopiedAll, SweepDone, ReadPidfile, Ping,
       RemovePidfile, RestartFails, RestartWait, MonitorRestart, Restart, SignalUSR1, MonDies
<1>6. ~RedisNext
  BY DEF RedisNext, RedisStep, RedisRuns, RedisListens, RedisCannotListen,
       RedisWritesPidfile, RedisLoaded, RedisDies
<1>. QED  BY <1>1, <1>2, <1>3, <1>4, <1>5, <1>6 DEF Next

\* The monitor takes an instance in hand after it found no lock file.
LEMMA EnsuringSource ==
  ASSUME TypeInv, Next, mon'.pc \in Ensuring
  PROVE  \/ mon.pc \in Ensuring /\ mon'.id = mon.id
         \/ UNCHANGED hostVars /\ UNCHANGED req /\ mon'.id \in Found \ locks
<1>. USE DEF TypeInv, TypeOK, MonitorTypeOK, Monitor, MonitorSteps, Copying, Ensuring, MonAt
<1>1. CASE UNCHANGED mon
  BY <1>1
<1>2. ASSUME NEW i \in Instances, CheckLock(i), UNCHANGED req
      PROVE  UNCHANGED hostVars /\ UNCHANGED req /\ mon'.id \in Found \ locks
  BY <1>2, Zenon DEF CheckLock, Take
<1>8. ~MonFatal
  BY DEF MonFatal, MonitorAt
<1>3. CASE ReadPidfile \/ Ping \/ RemovePidfile \/ RestartFails \/ RestartWait
  BY <1>3, <1>8, Zenon
  DEF ReadPidfile, Ping, RemovePidfile, RestartFails, RestartWait, MonGoto, MonNext
<1>4. CASE MonitorRestart
  BY <1>4 DEF MonitorRestart, Restart, MonGoto
<1>5. CASE SignalUSR1 \/ MonDies
  BY <1>5, <1>8 DEF SignalUSR1, MonDies
<1>6. CASE MonStarts \/ MonLists \/ MonLoaded \/ CopiedAll
  BY <1>6, <1>8, Zenon DEF MonStarts, MonLists, MonLoaded, CopiedAll, MonGoto
<1>10. CASE CopyLogDir \/ CopyTruncate \/ CopyFill \/ SweepDone
  BY <1>10, <1>8, Zenon DEF CopyLogDir, CopyTruncate, CopyFill, SweepDone, MonGoto, MonNext
<1>9. ASSUME NEW i \in Instances, MonLoads(i) \/ CopyDataDir(i)
      PROVE  FALSE
  BY <1>9, Zenon DEF MonLoads, CopyDataDir, Take
<1>7. BrokerNext \/ RedisNext => UNCHANGED mon
  BY DEF BrokerNext, RedisNext, HandlerStep, HandlerStart, RedisStep
<1>. QED
  BY <1>1, <1>2, <1>3, <1>4, <1>5, <1>6, <1>7, <1>9, <1>10
  DEF Next, MonitorNext, MonitorStep, Monitors

\* How a Provision gets to the step it is at.
Advanced(r) ==
  /\ req'[r].op = req[r].op /\ req'[r].id = req[r].id /\ Active(r)
  /\ req'[r].pc \in Unlocked \cup Unwritten =>
       req[r].pc \in Unlocked \cup Unwritten /\ ~SetupFill(r)
  /\ req'[r].pc \in Unwritten \cup Starting =>
       \/ req[r].pc \in Unwritten \cup Starting
       \/ req[r].id \in locks'
  /\ ~UnlockInstance(r)

\* A call in progress has just arrived or is a step further, as Advanced says.
LEMMA StepSource ==
  ASSUME TypeInv, Next, NEW r \in Requests, Active(r)'
  PROVE  \/ \E i \in Instances : Arrival(r, i) /\ req'[r].id = i /\ UNCHANGED <<files, mon>>
         \/ Advanced(r)
<1>. USE DEF TypeInv, TypeOK, BrokerTypeOK, Handler, Active, At, Unlocked, Unwritten, Starting
<1>1. CASE req'[r] = req[r]
  BY <1>1 DEF Advanced, SetupFill, UnlockInstance, Goto, Reply
<1>2. ASSUME NEW i \in Instances, Arrival(r, i), UNCHANGED mon
      PROVE  req'[r].id = i /\ UNCHANGED <<files, mon>>
  BY <1>2, ArrivalEffect
<1>3. ASSUME NEW i \in Instances, CountInstance(r, i)
      PROVE  Advanced(r)
  BY <1>3 DEF CountInstance, Reply, Advanced, SetupFill, UnlockInstance
<1>4. CASE ListInstances(r) \/ CheckLimit(r)
  BY <1>4, SMTT(30) DEF ListInstances, CheckLimit, Reply, Advanced, SetupFill, UnlockInstance
<1>5. CASE FindFreePort(r)
  BY <1>5 DEF FindFreePort, Reply, Advanced, SetupFill, UnlockInstance
<1>6. CASE SetupDataDir(r) \/ SetupLogDir(r) \/ SetupTruncate(r)
  BY <1>6, SMTT(30) DEF SetupDataDir, SetupLogDir, SetupTruncate, Goto, Reply, Advanced, SetupFill,
              UnlockInstance
<1>7. CASE SetupLock(r)
  BY <1>7 DEF SetupLock, Lock, Goto, Reply, Advanced, SetupFill, UnlockInstance
<1>8. CASE SetupFill(r) \/ UnlockInstance(r)
  BY <1>8 DEF SetupFill, UnlockInstance, Goto, Reply, Advanced
<1>25. CASE StartFails(r) \/ WaitUntilConnectable(r)
  BY <1>25 DEF StartFails, WaitUntilConnectable, SetupFill, UnlockInstance, Goto, Reply, Advanced
<1>9. CASE DestroyFind(r) \/ DestroyLock(r)
  BY <1>9 DEF DestroyFind, DestroyLock, Goto, Reply, Advanced, SetupFill, UnlockInstance
<1>24. CASE KillInstance(r) \/ Kill(r)
  BY <1>24 DEF KillInstance, Kill, Goto, Reply, Advanced, SetupFill, UnlockInstance
<1>10. CASE DeleteNames(r) \/ DeleteEntry(r)
  BY <1>10 DEF DeleteNames, DeleteEntry, Goto, Reply, Advanced, SetupFill, UnlockInstance
<1>26. CASE DeleteBaseDir(r) \/ DeleteLogDir(r) \/ DeletePidfile(r)
  BY <1>26, SMTT(30) DEF DeleteBaseDir, DeleteLogDir, DeletePidfile, Goto, Reply, Advanced,
       SetupFill, UnlockInstance
<1>11. CASE BindCredentials(r) \/ CallFails(r)
  BY <1>11, SMTT(30) DEF BindCredentials, CallFails, Reply
<1>12. CASE HandlerStart(r)
  BY <1>12, SMTT(30) DEF HandlerStart, Start, Goto, Advanced, SetupFill, UnlockInstance
<1>13. ASSUME NEW q \in Requests \ {r}, Create(q)
       PROVE  req'[r] = req[r]
  BY <1>13, ZenonT(30)
  DEF Create, ListInstances, CountInstance, CheckLimit, FindFreePort, SetupDataDir,
       SetupLogDir, SetupLock, SetupTruncate, SetupFill, StartFails, WaitUntilConnectable,
       UnlockInstance, Goto, Reply
<1>14. ASSUME NEW q \in Requests \ {r}, Destroy(q)
       PROVE  req'[r] = req[r]
  BY <1>14, Zenon
  DEF Destroy, DestroyFind, DestroyLock, KillInstance, Kill, DeleteNames, DeleteEntry,
       DeleteBaseDir, DeleteLogDir, DeletePidfile, Goto, Reply
<1>15. ASSUME NEW q \in Requests \ {r}, BindCredentials(q) \/ HandlerStart(q) \/ CallFails(q)
       PROVE  req'[r] = req[r]
  BY <1>15 DEF BindCredentials, HandlerStart, Start, CallFails, Goto, Reply
<1>16. ASSUME NEW q \in Requests \ {r}, NEW i \in Instances, Arrival(q, i)
       PROVE  req'[r] = req[r]
  BY <1>16, ArrivalEffect
<1>17. ASSUME BrokerExits
       PROVE  req'[r] = req[r]
  <2>1. req'[r] = IF Active(r) THEN Answered(req[r], "aborted") ELSE req[r]
    BY <1>17, Zenon DEF BrokerExits, Answered
  <2>. QED  BY <2>1, AnsweredType, SMTT(30) DEF Replies
<1>18. MonitorNext \/ RedisNext => req'[r] = req[r]
  BY DEF MonitorNext, RedisNext, MonitorStep, MonitorRestart, RedisStep
<1>19. CASE \E i \in Instances : Arrival(r, i) /\ UNCHANGED mon
  BY <1>2, <1>19
<1>20. CASE Create(r)
  BY <1>3, <1>4, <1>5, <1>6, <1>7, <1>8, <1>20, <1>25 DEF Create
<1>21. CASE Destroy(r)
  BY <1>9, <1>10, <1>21, <1>24, <1>26 DEF Destroy
<1>22. CASE \E q \in Requests \ {r} :
               \/ \E i \in Instances : Arrival(q, i)
               \/ Create(q) \/ Destroy(q) \/ BindCredentials(q) \/ HandlerStart(q) \/ CallFails(q)
  BY <1>1, <1>13, <1>14, <1>15, <1>16, <1>22
<1>23. CASE BrokerExits \/ MonitorNext \/ RedisNext
  BY <1>1, <1>17, <1>18, <1>23
<1>. HIDE DEF TypeInv, Active, Unlocked, Unwritten, Starting
<1>. QED
  BY <1>11, <1>12, <1>19, <1>20, <1>21, <1>22, <1>23
  DEF Next, BrokerNext, HandlerStep, Handle

\* A call arrives at an instance that no other call works on.
LEMMA OneCallKept ==
  ASSUME Serialised, TypeInv, OneCall, Next
  PROVE  OneCall'
<1>. SUFFICES ASSUME NEW r \in Requests, NEW q \in Requests, r # q,
                     Active(r)', Active(q)', req'[r].id = req'[q].id
              PROVE  FALSE
  BY DEF OneCall
<1>1. ASSUME NEW a \in Requests, NEW b \in Requests, a # b, NEW i \in Instances,
             Arrival(a, i), Active(b)'
      PROVE  req'[b].id # i
  <2>1. req'[b] = req[b]
    BY <1>1, ArrivalEffect
  <2>2. \A c \in Requests : Active(c) => req[c].id # i
    BY <1>1, ArrivalEffect
  <2>. QED  BY <1>1, <2>1, <2>2 DEF Active
<1>2. CASE Advanced(r) /\ Advanced(q)
  BY <1>2, Zenon DEF Advanced, OneCall
<1>. QED  BY <1>1, <1>2, StepSource

\* A Provision in flight is at one of Create's steps.
LEMMA CreatingSteps ==
  ASSUME TypeInv, NEW r \in Requests, Provisioning(r)
  PROVE  req[r].pc \in Unlocked \cup Unwritten \cup Starting
BY DEF Provisioning, Active, TypeInv, TypeOK, BrokerTypeOK, Handler, HandlerLocals, Steps,
       Destroying

\* No step of broker or monitor ends the protection of a Provision early.
LEMMA ProtectInvKept ==
  ASSUME Serialised, UniqueIDs, TypeInv, OneCall, OneProvision, CopiesGiven, ProtectInv, Next
  PROVE  ProtectInv'
<1>. SUFFICES ASSUME NEW r \in Requests, Provisioning(r)'
              PROVE  /\ req'[r].pc \in Unlocked \cup Unwritten => Hidden(req[r].id)'
                     /\ req'[r].pc \in Unwritten \cup Starting => req'[r].id \in locks'
                     /\ mon'.pc \in Ensuring => mon'.id # req'[r].id
  BY DEF ProtectInv
<1>1. CASE \E i \in Instances : Arrival(r, i) /\ req'[r].id = i /\ UNCHANGED <<files, mon>>
  <2>. PICK i \in Instances : Arrival(r, i) /\ req'[r].id = i /\ UNCHANGED <<files, mon>>
    BY <1>1
  <2>1. \A x : ~Given(i, x)
    BY ArrivalEffect DEF Provisioning, Given
  <2>2. Copies(i) = {}
    BY <2>1 DEF CopiesGiven
  <2>3. Hidden(i)
    <3>1. mon.found[i] \in Instance \cup {None} /\ (mon.id = i => mon.inst \in Instance)
      BY NoneAssumption DEF TypeInv, TypeOK, MonitorTypeOK, Monitor, MonitorLocals
    <3>2. conf[i] \in Instance \cup {NoFile, Torn}
      BY DEF TypeInv, TypeOK, HostTypeOK
    <3>. QED  BY <2>2, <3>1, <3>2 DEF Copies, Hidden, Readable
  <2>4. Hidden(i)'
    BY <2>3 DEF Hidden, Readable, files
  <2>5. req'[r].pc = "list"
    BY ArrivalEffect DEF Provisioning, Active
  <2>. QED  BY <2>4, <2>5 DEF Hidden, Unlocked, Unwritten, Starting
<1>2. CASE Advanced(r)
  <2>. DEFINE i == req[r].id
  <2>1. Provisioning(r) /\ req'[r].id = i /\ i \in Instances
    BY <1>2 DEF Advanced, Provisioning, Active, TypeInv, HandlerLocals
  <2>2. ASSUME NEW q \in Requests, Active(q), req[q].id = i
        PROVE  q = r
    BY <2>1, <2>2 DEF OneCall, Provisioning
  <2>3. ASSUME req'[r].pc \in Unlocked \cup Unwritten
        PROVE  Hidden(req[r].id)'
    <3>1. Hidden(i) /\ ~SetupFill(r)
      BY <1>2, <2>1, <2>3 DEF Advanced, ProtectInv
    <3>2. ~Readable(i)'
      <4>1. ~\E q \in Requests : SetupFill(q) /\ req[q].id = i
        BY <2>2, <3>1 DEF SetupFill, At, Active
      <4>2. conf'[i] \in {conf[i], NoFile, Torn}
        BY <2>1, <3>1, <4>1, ConfSource DEF Hidden
      <4>. QED  BY <2>1, <3>1, <4>2, NoFileAssumption DEF Hidden, Readable
    <3>3. mon'.found[i] = None
      <4>1. mon'.found[i] \in Instance \cup {None}
        BY <2>1, NextTypeInv DEF TypeInv, TypeOK, MonitorTypeOK, Monitor
      <4>2. conf[i] \notin Instance
        BY <3>1, NoFileAssumption DEF Hidden, Readable
      <4>. QED  BY <2>1, <3>1, <4>1, <4>2, MonitorSource DEF Hidden
    <3>4. mon'.id # i
      <4>1. mon'.id = i => mon'.inst \in Instance
        BY <2>1, NoneAssumption, NextTypeInv DEF TypeInv, MonitorLocals
      <4>. QED  BY <2>1, <3>1, <4>1, NoneAssumption, MonitorSource DEF Hidden, Instance
    <3>. QED  BY <2>1, <3>2, <3>3, <3>4 DEF Hidden, Readable
  <2>4. ASSUME req'[r].pc \in Unwritten \cup Starting
        PROVE  i \in locks'
    <3>1. CASE i \in locks
      BY <1>2, <2>1, <2>2, <3>1, LockSource
      DEF Advanced, UnlockInstance, DeleteEntry, At, Active, Provisioning, TypeInv, HandlerLocals,
          Destroying
    <3>. QED  BY <1>2, <2>1, <2>4, <3>1 DEF Advanced, ProtectInv
  <2>5. ASSUME mon'.pc \in Ensuring
        PROVE  mon'.id # i
    <3>1. CASE mon'.id \in Found \ locks /\ UNCHANGED req
      BY <2>1, <3>1, CreatingSteps DEF ProtectInv, Hidden, Found
    <3>. QED  BY <2>1, <2>5, <3>1, EnsuringSource DEF ProtectInv
  <2>. QED  BY <2>1, <2>3, <2>4, <2>5
<1>. QED  BY <1>1, <1>2, StepSource DEF Provisioning

\* When clients wait for an instance's call before the next one, and use an
\* ID for one Provision only, the monitor never works on an instance whose
\* Provision is in flight.
THEOREM LockProtects == Serialised /\ UniqueIDs => (Spec => []ProvisionProtected)
<1>. SUFFICES ASSUME Serialised, UniqueIDs
              PROVE  Spec => []ProvisionProtected
  OBVIOUS
<1>. DEFINE Inv == OneCall /\ OneProvision /\ CopiesGiven /\ ProtectInv
<1>1. Init => Inv
  BY InitCredentials
  DEF Init, BrokerInit, NoHandler, OneCall, OneProvision, ProtectInv, Provisioning, Active
<1>2. TypeInv /\ Inv /\ [Next]_vars => Inv'
  <2>1. Inv /\ UNCHANGED vars => OneCall' /\ ProtectInv'
    BY DEF vars, hostVars, OneCall, ProtectInv, Provisioning, Active, Hidden, Readable
  <2>. QED
    BY <2>1, OneCallKept, OneProvisionKept, CopiesGivenKept, ProtectInvKept
<1>3. Inv => ProvisionProtected
  BY DEF ProtectInv, Provisioning, ProvisionProtected
<1>. QED  BY <1>1, <1>2, <1>3, TypeInvHolds, PTL DEF Spec

-----------------------------------------------------------------------------
(* What a step does to one handler. *)

OwnStep(r) == \/ \E i \in Instances : Arrival(r, i)
              \/ Create(r) \/ Destroy(r) \/ BindCredentials(r)
              \/ HandlerStart(r) \/ CallFails(r)

\* A step of one handler leaves the others alone.
LEMMA OthersStay ==
  ASSUME TypeInv, NEW q \in Requests, NEW r \in Requests \ {q}, OwnStep(q)
  PROVE  req'[r] = req[r]
<1>. USE DEF TypeInv, TypeOK, BrokerTypeOK
<1>1. CASE Create(q)
  BY <1>1, Zenon DEF Create, ListInstances, CountInstance, CheckLimit, FindFreePort, SetupDataDir,
       SetupLogDir, SetupLock, SetupTruncate, SetupFill, StartFails, WaitUntilConnectable,
       UnlockInstance, Goto, Reply
<1>2. CASE Destroy(q)
  BY <1>2, Zenon DEF Destroy, DestroyFind, DestroyLock, KillInstance, Kill, DeleteNames,
       DeleteEntry, DeleteBaseDir, DeleteLogDir, DeletePidfile, Goto, Reply
<1>3. CASE BindCredentials(q) \/ HandlerStart(q) \/ CallFails(q)
  BY <1>3 DEF BindCredentials, HandlerStart, Start, CallFails, Goto, Reply
<1>4. ASSUME NEW i \in Instances, Arrival(q, i)
      PROVE  req'[r] = req[r]
  BY <1>4, ArrivalEffect
<1>. HIDE DEF TypeInv
<1>. QED  BY <1>1, <1>2, <1>3, <1>4 DEF OwnStep

\* Requests are moved by a step of one of them, or all at once by the end of
\* the broker.
LEMMA WhoMoves ==
  ASSUME Next
  PROVE  UNCHANGED req \/ BrokerExits \/ \E q \in Requests : OwnStep(q) /\ UNCHANGED mon
<1>1. MonitorNext \/ RedisNext => UNCHANGED req
  BY DEF MonitorNext, RedisNext, MonitorStep, MonitorRestart, RedisStep
<1>2. BrokerNext => BrokerExits \/ \E q \in Requests : OwnStep(q) /\ UNCHANGED mon
  BY DEF BrokerNext, OwnStep, HandlerStep, HandlerStart, Handle
<1>. QED  BY <1>1, <1>2 DEF Next

\* A handler is moved by its own steps and by the end of the broker only.
LEMMA OnlyItsHandler ==
  ASSUME TypeInv, Next, NEW r \in Requests
  PROVE  \/ req'[r] = req[r]
         \/ /\ req'[r] = Answered(req[r], "aborted")
            /\ UNCHANGED <<files, pidfile, proc>> /\ Fault("broker")
         \/ OwnStep(r) /\ UNCHANGED mon
<1>1. ASSUME BrokerExits
      PROVE  \/ req'[r] = req[r]
             \/ /\ req'[r] = Answered(req[r], "aborted")
                /\ UNCHANGED <<files, pidfile, proc>> /\ Fault("broker")
  BY <1>1, Zenon DEF BrokerExits, Answered
<1>2. ASSUME NEW q \in Requests, OwnStep(q)
      PROVE  q = r \/ req'[r] = req[r]
  BY <1>2, OthersStay
<1>. QED  BY <1>1, <1>2, WhoMoves

\* An answer ends the handler.
LEMMA ReplyEffect ==
  ASSUME TypeInv, NEW r \in Requests, NEW a \in Replies,
         Reply(r, a) \/ req'[r] = Answered(req[r], a)
  PROVE  /\ req'[r].pc = "done" /\ req'[r].reply = a
         /\ req'[r].op = req[r].op /\ req'[r].id = req[r].id
<1>1. req[r] \in Handler
  BY DEF TypeInv, TypeOK, BrokerTypeOK
<1>2. req'[r] = Answered(req[r], a)
  BY ZenonT(30) DEF Reply, Answered, TypeInv, TypeOK, BrokerTypeOK
<1>. QED  BY <1>1, <1>2 DEF Answered, Handler

\* The steps of Destroy after FindByID, and those after the kill.
Undoing == Destroying \ {"find"}
Deleting == {"names", "remove", "rmlogs", "rmpid"}

\* How a Deprovision gets to the step it is at.
DestroyAdvanced(r) ==
  /\ req'[r].op = req[r].op /\ req'[r].id = req[r].id
  /\ req'[r].pc \in Undoing =>
       \/ req[r].pc \in Undoing
       \/ DestroyFind(r) /\ Readable(req[r].id)
  /\ req'[r].pc \in Deleting =>
       \/ req[r].pc \in Deleting
       \/ At(r, "kill") /\ proc' = [proc EXCEPT ![req[r].pid] = None]
  /\ req'[r].pc = "rmlogs" =>
       \/ At(r, "rmlogs")
       \/ At(r, "remove") /\ Entries(req[r].id) = {} /\ dirs' = dirs \ {req[r].id}
  /\ req'[r].pc = "rmpid" => At(r, "rmpid") \/ DeleteLogDir(r)
  /\ req'[r].reply = "ok" => req[r].reply = "ok" \/ At(r, "rmpid")

\* A Deprovision has just arrived, or got where it is as DestroyAdvanced says.
LEMMA DestroySource ==
  ASSUME TypeInv, Next, NEW r \in Requests, req'[r].op = "deprovision"
  PROVE  \/ req'[r].pc \in {"find", "done"} /\ req'[r].reply \in {"none", "missing"}
         \/ DestroyAdvanced(r)
<1>. USE DEF Undoing, Deleting, Destroying, At
<1>1. CASE req'[r] = req[r]
  BY <1>1 DEF DestroyAdvanced
<1>2. ASSUME NEW a \in Replies \ {"ok"}, Reply(r, a) \/ req'[r] = Answered(req[r], a)
      PROVE  DestroyAdvanced(r)
  BY <1>2, ReplyEffect DEF DestroyAdvanced
<1>3. ASSUME NEW i \in Instances, Arrival(r, i)
      PROVE  req'[r].pc \in {"find", "done"} /\ req'[r].reply \in {"none", "missing"}
  <2>1. ASSUME NEW o, NEW s, NEW a, Begin(r, o, i, s, a)
        PROVE  req'[r].op = o /\ req'[r].pc = s /\ req'[r].reply = a
    BY <2>1 DEF Begin, Handler, TypeInv, TypeOK, BrokerTypeOK
  <2>2. Deprovision(r, i)
    <3>1. ASSUME NEW plan, Provision(r, i, plan)
          PROVE  req'[r].op = "provision"
      BY <2>1, <3>1, Zenon DEF Provision
    <3>2. Bind(r, i) => req'[r].op = "bind"
      BY <2>1, Zenon DEF Bind
    <3>3. Unbind(r, i) => req'[r].op = "unbind"
      BY <2>1, Zenon DEF Unbind
    <3>4. Unimplemented(r, i) => req'[r].op = "other"
      BY <2>1 DEF Unimplemented
    <3>. QED  BY <1>3, <3>1, <3>2, <3>3, <3>4 DEF Arrival
  <2>. QED  BY <2>1, <2>2, Zenon DEF Deprovision
<1>. USE DEF Handler, TypeInv, TypeOK, BrokerTypeOK
<1>4. CASE Create(r) \/ HandlerStart(r) \/ BindCredentials(r)
  <2>1. req'[r].op = req[r].op
    <3>1. req[r].op # "none"
      BY <1>4, Zenon
      DEF Create, ListInstances, CountInstance, CheckLimit, FindFreePort, SetupDataDir,
          SetupLogDir, SetupLock, SetupTruncate, SetupFill, StartFails, WaitUntilConnectable,
          UnlockInstance, HandlerStart, Start, BindCredentials, HandlerLocals, Counting,
          Building, Unwritten, Starting
    <3>. QED  BY <1>4, <3>1, HandlerSource, ArrivalEffect, Zenon DEF HandlerLocals
  <2>. QED  BY <1>4, <2>1, ZenonT(30)
      DEF Create, ListInstances, CountInstance, CheckLimit, FindFreePort, SetupDataDir,
          SetupLogDir, SetupLock, SetupTruncate, SetupFill, StartFails, WaitUntilConnectable,
          UnlockInstance, HandlerStart, Start, BindCredentials, HandlerLocals, Counting,
          Building, Unwritten, Starting
<1>5. CASE DestroyFind(r)
  BY <1>2, <1>5 DEF DestroyFind, Replies, DestroyAdvanced
<1>6. CASE DestroyLock(r)
  BY <1>2, <1>6 DEF DestroyLock, Goto, Replies, DestroyAdvanced
<1>7. CASE KillInstance(r)
  BY <1>2, <1>7 DEF KillInstance, Replies, DestroyAdvanced
<1>8. CASE Kill(r)
  BY <1>2, <1>8 DEF Kill, Replies, DestroyAdvanced
<1>9. CASE DeleteNames(r) \/ DeleteEntry(r)
  BY <1>9 DEF DeleteNames, DeleteEntry, DestroyAdvanced
<1>10. CASE DeleteBaseDir(r)
  BY <1>2, <1>10 DEF DeleteBaseDir, Goto, Replies, DestroyAdvanced
<1>11. CASE DeleteLogDir(r)
  BY <1>11, SMTT(30) DEF DeleteLogDir, Goto, DestroyAdvanced
<1>12. CASE DeletePidfile(r)
  <2>1. Reply(r, "ok") /\ "ok" \in Replies /\ req[r].pc = "rmpid"
    BY <1>12, Zenon DEF DeletePidfile, Replies
  <2>2. req'[r].pc = "done" /\ req'[r].op = req[r].op /\ req'[r].id = req[r].id
    BY <2>1, ReplyEffect, Zenon
  <2>. QED  BY <2>1, <2>2, Zenon DEF DestroyAdvanced
<1>13. CASE CallFails(r)
  BY <1>2, <1>13 DEF CallFails, Replies
<1>. HIDE DEF TypeInv, Handler
<1>. QED
  BY <1>1, <1>2, <1>3, <1>4, <1>5, <1>6, <1>7, <1>8, <1>9, <1>10, <1>11, <1>12, <1>13,
     OnlyItsHandler, Zenon DEF OwnStep, Destroy, Replies

-----------------------------------------------------------------------------
(* Files.  Whether the monitor boots while the broker works is a matter of *)
(* deployment; these results are about a VM on which it does not.          *)

NeverBoots == MonitorStart = "off" \/ (MonitorStart = "sweep" /\ ~Restarts)

NotBooting == /\ mon.pc \notin Copying \cup {"bootload"}
              /\ Restarts => mon.pc = "off"

\* A monitor that is off stays off.
LEMMA OffKept == ASSUME mon.pc = "off", [Next]_vars PROVE UNCHANGED mon
<1>1. MonitorNext => FALSE
  BY DEF MonitorNext, MonitorStep, Monitors, MonStarts, MonLists, MonLoaded, MonLoads,
       CopyDataDir, CheckLock, CopyLogDir, CopyTruncate, CopyFill, CopiedAll, SweepDone,
       ReadPidfile, Ping, RemovePidfile, RestartFails, RestartWait, MonitorRestart, Restart,
       SignalUSR1, MonDies, MonAt
<1>. QED
  BY <1>1 DEF Next, BrokerNext, RedisNext, HandlerStep, HandlerStart, RedisStep, vars

\* A monitor that does not boot at first never does.
LEMMA NotBootingKept == ASSUME TypeInv, NotBooting, [Next]_vars PROVE NotBooting'
<1>. DEFINE Booting(step) == step \in Copying \cup {"bootload"}
<1>. USE DEF Copying, Ensuring, MonAt, TypeInv, TypeOK, MonitorTypeOK, Monitor
<1>1. CASE UNCHANGED mon
  BY <1>1 DEF NotBooting
<1>2. CASE mon.pc = "off"
  BY <1>1, <1>2, OffKept
<1>3. CASE ~Restarts /\ MonitorNext
  <2>. SUFFICES ~Booting(mon'.pc)
    BY <1>3 DEF NotBooting
  <2>1. ~Booting(mon.pc)
    BY DEF NotBooting
  <2>2. CASE MonFatal
    BY <2>2 DEF MonFatal, MonitorAt
  <2>3. ASSUME NEW i \in Instances, MonLoads(i) \/ CopyDataDir(i)
        PROVE  ~Booting(mon'.pc)
    BY <2>1, <2>3, Zenon DEF MonLoads, CopyDataDir
  <2>4. ASSUME NEW i \in Instances, CheckLock(i)
        PROVE  ~Booting(mon'.pc)
    BY <2>1, <2>4, Zenon DEF CheckLock, Take
  <2>5. CASE MonStarts \/ MonLists \/ MonLoaded \/ CopiedAll \/ SweepDone
    BY <1>3, <2>1, <2>5, Zenon DEF MonStarts, MonLists, MonLoaded, CopiedAll, SweepDone, MonGoto
  <2>6. CASE CopyLogDir \/ CopyTruncate \/ CopyFill
    BY <2>1, <2>6 DEF CopyLogDir, CopyTruncate, CopyFill
  <2>7. CASE ReadPidfile \/ Ping \/ RemovePidfile
    BY <2>1, <2>2, <2>7, Zenon DEF ReadPidfile, Ping, RemovePidfile, MonGoto, MonNext
  <2>8. CASE RestartFails \/ RestartWait \/ MonitorRestart
    BY <2>1, <2>2, <2>8, Zenon
    DEF RestartFails, RestartWait, MonitorRestart, Restart, MonGoto, MonNext
  <2>9. CASE SignalUSR1 \/ MonDies
    BY <2>1, <2>2, <2>9 DEF SignalUSR1, MonDies
  <2>. HIDE DEF Booting
  <2>. QED
    BY <1>3, <2>2, <2>3, <2>4, <2>5, <2>6, <2>7, <2>8, <2>9
    DEF MonitorNext, MonitorStep, Monitors
<1>4. BrokerNext \/ RedisNext \/ UNCHANGED vars => UNCHANGED mon
  BY DEF BrokerNext, RedisNext, HandlerStep, HandlerStart, RedisStep, vars
<1>. QED  BY <1>1, <1>2, <1>3, <1>4 DEF Next, NotBooting

\* What can become of the files of an instance in one step.
FilesAdvanced(i) ==
  \/ UNCHANGED files
  \/ \E r \in Requests : SetupDataDir(r)
  \/ \E r \in Requests : SetupLogDir(r)
  \/ \E r \in Requests :
       /\ At(r, "remove") /\ Entries(req[r].id) = {} /\ dirs' = dirs \ {req[r].id}
       /\ UNCHANGED <<dbs, logs, locks, conf>>
  \/ /\ UNCHANGED dirs /\ dbs' \subseteq dbs /\ logs' \subseteq logs
     /\ i \in locks' => i \in locks \cup dirs
     /\ conf'[i] # NoFile => conf[i] # NoFile \/ i \in dirs

\* Every step changes the files of an instance as FilesAdvanced says only.
LEMMA FilesSource ==
  ASSUME TypeInv, NotBooting, Next, NEW i \in Instances
  PROVE  FilesAdvanced(i)
<1>. USE DEF TypeInv, TypeOK, HostTypeOK, hostVars, files
<1>1. ASSUME NEW r \in Requests, SetupDataDir(r) \/ SetupLogDir(r)
      PROVE  FilesAdvanced(i)
  BY <1>1 DEF FilesAdvanced
<1>2. ASSUME NEW r \in Requests, SetupLock(r) \/ DestroyLock(r)
      PROVE  FilesAdvanced(i)
  BY <1>2 DEF SetupLock, DestroyLock, Lock, FilesAdvanced
<1>3. ASSUME NEW r \in Requests, SetupTruncate(r)
      PROVE  FilesAdvanced(i)
  BY <1>3 DEF SetupTruncate, TruncateConfig, FilesAdvanced
<1>4. ASSUME NEW r \in Requests, SetupFill(r)
      PROVE  FilesAdvanced(i)
  BY <1>4 DEF SetupFill, FillConfig, FilesAdvanced
<1>5. ASSUME NEW r \in Requests, UnlockInstance(r)
      PROVE  FilesAdvanced(i)
  BY <1>5 DEF UnlockInstance, Unlock, FilesAdvanced
<1>6. ASSUME NEW r \in Requests, DeleteEntry(r)
      PROVE  FilesAdvanced(i)
  BY <1>6 DEF DeleteEntry, RemoveEntry, FilesAdvanced
<1>7. ASSUME NEW r \in Requests, DeleteBaseDir(r)
      PROVE  FilesAdvanced(i)
  BY <1>7 DEF DeleteBaseDir, FilesAdvanced
<1>8. ASSUME NEW r \in Requests, DeleteLogDir(r)
      PROVE  FilesAdvanced(i)
  BY <1>8 DEF DeleteLogDir, RemoveLogDir, FilesAdvanced
<1>9. ASSUME NEW r \in Requests,
             \/ ListInstances(r) \/ CheckLimit(r) \/ FindFreePort(r) \/ StartFails(r)
             \/ WaitUntilConnectable(r) \/ \E j \in Instances : CountInstance(r, j)
             \/ DestroyFind(r) \/ KillInstance(r) \/ Kill(r) \/ DeleteNames(r)
             \/ DeletePidfile(r) \/ BindCredentials(r) \/ HandlerStart(r) \/ CallFails(r)
      PROVE  UNCHANGED files
  BY <1>9, Zenon DEF ListInstances, CheckLimit, FindFreePort, StartFails, WaitUntilConnectable,
       CountInstance, DestroyFind, KillInstance, Kill, DeleteNames, DeletePidfile,
       BindCredentials, HandlerStart, Start, CallFails
<1>10. ASSUME NEW r \in Requests, NEW j \in Instances, Arrival(r, j)
       PROVE  UNCHANGED files
  BY <1>10, ArrivalEffect
<1>11. BrokerExits \/ RedisNext => UNCHANGED files
  BY Zenon DEF BrokerExits, RedisNext, RedisStep, RedisRuns, RedisListens, RedisCannotListen,
       RedisWritesPidfile, RedisLoaded, RedisDies
<1>12. MonitorNext => UNCHANGED files
  BY Zenon DEF MonitorNext, MonitorStep, Monitors, MonStarts, MonLists, MonLoaded, MonLoads,
       CopyDataDir, CheckLock, CopyLogDir, CopyTruncate, CopyFill, CopiedAll, SweepDone,
       ReadPidfile, Ping, RemovePidfile, RestartFails, RestartWait, MonitorRestart, Restart,
       SignalUSR1, MonDies, NotBooting, Copying, MonAt
<1>. HIDE DEF TypeInv, files
<1>13. CASE UNCHANGED files
  BY <1>13 DEF FilesAdvanced
<1>. QED
  BY <1>1, <1>2, <1>3, <1>4, <1>5, <1>6, <1>7, <1>8, <1>9, <1>10, <1>11, <1>12, <1>13
  DEF Next, BrokerNext, HandlerStep, Handle, Create, Destroy

\* Only a Provision of the instance creates a directory for it.
LEMMA NewDirectories ==
  ASSUME NEW i, FilesAdvanced(i)
  PROVE  /\ i \in dirs' => i \in dirs \/ \E q \in Requests : At(q, "mkdata") /\ req[q].id = i
         /\ i \in logs' => i \in logs \/ \E q \in Requests : At(q, "mklogs") /\ req[q].id = i
<1>1. CASE \E r \in Requests : SetupDataDir(r)
  BY <1>1 DEF SetupDataDir, MakeDataDir
<1>2. CASE \E r \in Requests : SetupLogDir(r)
  BY <1>2 DEF SetupLogDir, MakeLogDir
<1>3. CASE dirs' \subseteq dirs /\ logs' \subseteq logs
  BY <1>3
<1>. QED  BY <1>1, <1>2, <1>3 DEF FilesAdvanced, files

\* The Provision of instance i exists and is past writing redis.conf.
Settled(i) ==
  /\ \E q \in Requests : req[q].op = "provision" /\ req[q].id = i
  /\ \A q \in Requests : req[q].op = "provision" /\ req[q].id = i
                           => req[q].pc \notin Unlocked \cup Unwritten

\* A Provision past writing redis.conf stays so, and its ID is not used again.
LEMMA SettledKept ==
  ASSUME UniqueIDs, TypeInv, Next, NEW i \in Instances, Settled(i)
  PROVE  Settled(i)'
<1>1. PICK q \in Requests : req[q].op = "provision" /\ req[q].id = i
  BY SMTT(30) DEF Settled
<1>2. req'[q].op = "provision" /\ req'[q].id = i
  BY <1>1, HandlerSource, ArrivalEffect, Zenon DEF At, TypeInv, HandlerLocals
<1>3. ASSUME NEW r \in Requests, req'[r].op = "provision", req'[r].id = i,
             req'[r].pc \in Unlocked \cup Unwritten
      PROVE  FALSE
  <2>1. Active(r)'
    BY <1>3, SMTT(30) DEF Active, Unlocked, Unwritten
  <2>2. ASSUME NEW j \in Instances, Arrival(r, j), req'[r].id = j
        PROVE  FALSE
    BY <1>1, <1>3, <2>2, ArrivalEffect, ZenonT(30)
  <2>3. CASE Advanced(r)
    BY <1>3, <2>3 DEF Advanced, Settled
  <2>. QED  BY <2>1, <2>2, <2>3, StepSource
<1>. QED  BY <1>2, <1>3 DEF Settled

\* An instance that can be read, and one a Deprovision found readable, is
\* settled; without its directory nothing in it exists; and a Deprovision past
\* removing a directory does not meet it again.
FilesInv ==
  /\ \A i \in Instances : Readable(i) => Settled(i)
  /\ \A i \in Instances \ dirs : i \notin dbs \cup locks /\ conf[i] = NoFile
  /\ \A r \in Requests : req[r].op = "deprovision" =>
       /\ req[r].pc \in Undoing \/ req[r].reply = "ok" => Settled(req[r].id)
       /\ req[r].pc \in {"rmlogs", "rmpid"} \/ req[r].reply = "ok" => req[r].id \notin dirs
       /\ req[r].pc = "rmpid" \/ req[r].reply = "ok" => req[r].id \notin logs

\* What the files invariant says of an instance survives every step.
LEMMA FilesInvKept ==
  ASSUME UniqueIDs, TypeInv, NotBooting, OneProvision, FilesInv, Next
  PROVE  FilesInv'
<1>1. ASSUME NEW i \in Instances, Readable(i)'
      PROVE  Settled(i)'
  <2>1. CASE conf'[i] = conf[i]
    BY <1>1, <2>1, SettledKept DEF Readable, FilesInv
  <2>2. ASSUME NEW r \in Requests, SetupFill(r), req[r].id = i
        PROVE  Settled(i)'
    <3>1. req[r].op = "provision" /\ req \in [Requests -> Handler]
      BY <2>2 DEF SetupFill, At, TypeInv, TypeOK, BrokerTypeOK, HandlerLocals, Building, Unwritten
    <3>2. /\ req'[r].op = "provision" /\ req'[r].id = i /\ req'[r].pc = "start"
          /\ \A q \in Requests \ {r} : req'[q] = req[q]
      BY <2>2, <3>1, SMTT(30) DEF SetupFill, Goto, Handler
    <3>. QED  BY <2>2, <3>1, <3>2 DEF Settled, OneProvision, Unlocked, Unwritten
  <2>. QED
    BY <1>1, <2>1, <2>2, ConfSource, Zenon DEF Readable, NotBooting, CopyFill, MonAt, Copying
<1>2. ASSUME NEW i \in Instances, i \notin dirs'
      PROVE  i \notin dbs' \cup locks' /\ conf'[i] = NoFile
  <2>1. FilesAdvanced(i)
    BY FilesSource
  <2>. QED
    BY <1>2, <2>1 DEF FilesAdvanced, FilesInv, files, SetupDataDir, MakeDataDir, SetupLogDir,
         MakeLogDir, Entries
<1>3. ASSUME NEW r \in Requests, req'[r].op = "deprovision",
             req'[r].pc \in Undoing \/ req'[r].reply = "ok"
      PROVE  /\ Settled(req[r].id)' /\ Settled(req[r].id) /\ req[r].id \in Instances
             /\ DestroyAdvanced(r) /\ req[r].op = "deprovision" /\ req'[r].id = req[r].id
  <2>1. DestroyAdvanced(r)
    BY <1>3, DestroySource, SMTT(30) DEF Undoing, Destroying
  <2>2. req[r].op = "deprovision" /\ req'[r].id = req[r].id /\ req[r].id \in Instances
    <3>1. req[r].op = "deprovision" /\ req'[r].id = req[r].id
      BY <1>3, <2>1, Zenon DEF DestroyAdvanced
    <3>. QED  BY <3>1, Zenon DEF TypeInv, HandlerLocals
  <2>3. Settled(req[r].id)
    BY <1>3, <2>1, <2>2, ZenonT(30) DEF DestroyAdvanced, FilesInv, Undoing, Destroying, At
  <2>4. Settled(req[r].id)'
    BY <2>2, <2>3, SettledKept
  <2>. QED  BY <2>1, <2>2, <2>3, <2>4, Zenon DEF Settled
<1>4. ASSUME NEW r \in Requests, req'[r].op = "deprovision",
             req'[r].pc \in {"rmlogs", "rmpid"} \/ req'[r].reply = "ok"
      PROVE  req'[r].id \notin dirs'
  <2>. DEFINE i == req[r].id
  <2>1. /\ Settled(i) /\ i \in Instances
        /\ DestroyAdvanced(r) /\ req[r].op = "deprovision" /\ req'[r].id = i
    BY <1>3, <1>4 DEF Undoing, Destroying
  <2>2. CASE dirs' = dirs \ {i}
    BY <2>1, <2>2, SMTT(30)
  <2>3. CASE i \notin dirs
    <3>1. FilesAdvanced(i)
      BY <2>1, FilesSource
    <3>2. ASSUME NEW q \in Requests, At(q, "mkdata")
          PROVE  req[q].id # i
      BY <2>1, <3>2, SMTT(30) DEF At, Settled, Unlocked, TypeInv, HandlerLocals, Building
    <3>. QED  BY <2>1, <2>3, <3>1, <3>2, NewDirectories
  <2>. QED
    BY <1>4, <2>1, <2>2, <2>3, Zenon DEF DestroyAdvanced, FilesInv, At, DeleteLogDir
<1>5. ASSUME NEW r \in Requests, req'[r].op = "deprovision",
             req'[r].pc = "rmpid" \/ req'[r].reply = "ok"
      PROVE  req'[r].id \notin logs'
  <2>. DEFINE i == req[r].id
  <2>1. /\ Settled(i) /\ i \in Instances
        /\ DestroyAdvanced(r) /\ req[r].op = "deprovision" /\ req'[r].id = i
    BY <1>3, <1>5 DEF Undoing, Destroying
  <2>2. CASE DeleteLogDir(r)
    BY <2>1, <2>2 DEF DeleteLogDir, RemoveLogDir
  <2>3. CASE i \notin logs
    <3>1. FilesAdvanced(i)
      BY <2>1, FilesSource
    <3>2. ASSUME NEW q \in Requests, At(q, "mklogs")
          PROVE  req[q].id # i
      BY <2>1, <3>2 DEF At, Settled, Unlocked, TypeInv, HandlerLocals, Building
    <3>. QED  BY <2>1, <2>3, <3>1, <3>2, NewDirectories
  <2>. QED
    BY <1>5, <2>1, <2>2, <2>3, Zenon DEF DestroyAdvanced, FilesInv, At
<1>. QED  BY <1>1, <1>2, <1>3, <1>4, <1>5 DEF FilesInv, Settled

\* At first there are no files, and no monitor is booting.
LEMMA InitFiles == ASSUME NeverBoots, Init PROVE NotBooting /\ FilesInv
<1>1. NotBooting
  BY DEF NeverBoots, Init, MonitorInit, MonitorAt, NotBooting, Copying
<1>2. FilesInv
  BY DEF Init, HostInit, BrokerInit, NoHandler, FilesInv, Readable
<1>. QED  BY <1>1, <1>2

\* A step outside the VM does not touch its files.
LEMMA FilesInvStutters == FilesInv /\ UNCHANGED vars => FilesInv'
<1>. SUFFICES ASSUME FilesInv, UNCHANGED vars PROVE FilesInv'
  OBVIOUS
<1>1. UNCHANGED <<dirs, dbs, logs, locks, conf, req>>
  BY Zenon DEF vars, hostVars
<1>2. ASSUME NEW i
      PROVE  (Settled(i)' <=> Settled(i)) /\ (Readable(i)' <=> Readable(i))
  BY <1>1, Zenon DEF Settled, Readable
<1>3. \A i \in Instances : Readable(i)' => Settled(i)'
  BY <1>2, Zenon DEF FilesInv
<1>4. \A i \in Instances \ dirs' : i \notin dbs' \cup locks' /\ conf'[i] = NoFile
  BY <1>1, Zenon DEF FilesInv
<1>5. ASSUME NEW r \in Requests, req'[r].op = "deprovision"
      PROVE  /\ req'[r].pc \in Undoing \/ req'[r].reply = "ok" => Settled(req[r].id)'
             /\ req'[r].pc \in {"rmlogs", "rmpid"} \/ req'[r].reply = "ok" => req'[r].id \notin dirs'
             /\ req'[r].pc = "rmpid" \/ req'[r].reply = "ok" => req'[r].id \notin logs'
  BY <1>1, <1>2, <1>5, Zenon DEF FilesInv
<1>. QED  BY <1>3, <1>4, <1>5, Zenon DEF FilesInv

\* On a VM where the monitor does not boot, and with an ID used for one
\* Provision only, the files of a deprovisioned instance stay gone, however
\* many other calls on it were in flight, failed or were cut off.
THEOREM FilesGoneForGood == UniqueIDs /\ NeverBoots => (Spec => []FilesStayGone)
<1>. SUFFICES ASSUME UniqueIDs, NeverBoots
              PROVE  Spec => []FilesStayGone
  OBVIOUS
<1>. DEFINE Inv == NotBooting /\ OneProvision /\ FilesInv
<1>1. Init => Inv
  BY InitFiles, InitCredentials
<1>2. TypeInv /\ Inv /\ [Next]_vars => Inv'
  BY FilesInvStutters, NotBootingKept, OneProvisionKept, FilesInvKept
<1>3. TypeInv /\ Inv => FilesStayGone
  <2>. SUFFICES ASSUME FilesInv, NEW r \in Requests, NEW i \in Instances, req[r].id = i,
                       req[r].op = "deprovision", req[r].reply = "ok"
                PROVE  i \notin dirs \cup dbs \cup logs \cup locks /\ conf[i] = NoFile
    BY Zenon DEF FilesStayGone, Deprovisioned
  <2>1. i \notin dirs /\ i \notin logs
    BY Zenon DEF FilesInv
  <2>. QED  BY <2>1, Zenon DEF FilesInv
<1>. QED  BY <1>1, <1>2, <1>3, TypeInvHolds, PTL DEF Spec

-----------------------------------------------------------------------------
(* The limit on instances. *)

InFlight == {r \in Requests : Active(r)}

\* A Provision that may still create a directory: it is counting and will stay
\* below the limit, or it passed the check.
Admitted(r) == \/ At(r, "load") /\ Cardinality(req[r].todo) + req[r].n < Limit
               \/ req[r].pc \in {"pick", "mkdata"}

Admissions == {r \in Requests : Admitted(r)}

\* A Provision is admitted by what it counted.
LEMMA CountSource ==
  ASSUME TypeInv, Next, NEW r \in Requests, IsFiniteSet(req[r].todo), IsFiniteSet(dirs)
  PROVE  /\ req'[r].todo \subseteq req[r].todo \cup dirs
         /\ Admitted(r)' => /\ ~SetupDataDir(r)
                            /\ Admitted(r) \/ (UNCHANGED dirs /\ Cardinality(dirs) < Limit)
<1>. USE DEF TypeInv, TypeOK, BrokerTypeOK, Handler, At
<1>. DEFINE Goal == /\ req'[r].todo \subseteq req[r].todo \cup dirs
                    /\ Admitted(r)' => /\ ~SetupDataDir(r)
                                       /\ Admitted(r) \/ (UNCHANGED dirs /\ Cardinality(dirs) < Limit)
<1>1. ASSUME NEW a \in Replies, Reply(r, a) \/ req'[r] = Answered(req[r], a)
      PROVE  Goal
  <2>1. req'[r] = Answered(req[r], a)
    BY <1>1, Zenon DEF Reply, Answered
  <2>2. req'[r].todo = {} /\ req'[r].pc = "done"
    BY <2>1 DEF Answered
  <2>. QED  BY <2>2 DEF Admitted
<1>2. CASE req'[r] = req[r]
  BY <1>2 DEF Admitted, SetupDataDir, Goto
<1>3. ASSUME req'[r].todo = req[r].todo, req'[r].pc \notin {"load", "pick", "mkdata"}
      PROVE  Goal
  BY <1>3 DEF Admitted
<1>4. CASE ListInstances(r)
  <2>1. /\ req'[r].pc = "load" /\ req'[r].todo = dirs /\ req'[r].n = req[r].n /\ req[r].n \in Nat
        /\ UNCHANGED dirs /\ req[r].pc = "list"
    BY <1>4 DEF ListInstances, hostVars
  <2>2. Cardinality(dirs) \in Nat /\ Limit \in Nat
    BY FS_CardinalityType, LimitAssumption
  <2>3. Admitted(r)' => Cardinality(dirs) < Limit
    <3>. HIDE DEF TypeInv, TypeOK, BrokerTypeOK, Handler
    <3>. QED  BY <2>1, <2>2 DEF Admitted
  <2>4. ~SetupDataDir(r)
    BY <2>1, Zenon DEF SetupDataDir
  <2>. HIDE DEF TypeInv, TypeOK, BrokerTypeOK, Handler, At
  <2>. QED  BY <2>1, <2>3, <2>4, Zenon
<1>5. ASSUME NEW i \in Instances, CountInstance(r, i)
      PROVE  Goal
  <2>1. CASE Reply(r, "error")
    BY <1>1, <2>1 DEF Replies
  <2>2. CASE req' = [req EXCEPT ![r].todo = @ \ {i}, ![r].n = @ + 1]
    <3>1. /\ req'[r].pc = "load" /\ req[r].pc = "load" /\ i \in req[r].todo
          /\ req'[r].todo = req[r].todo \ {i} /\ req'[r].n = req[r].n + 1 /\ req[r].n \in Nat
      BY <1>5, <2>2 DEF CountInstance
    <3>2. /\ Cardinality(req[r].todo) \in Nat
          /\ Cardinality(req[r].todo \ {i}) = Cardinality(req[r].todo) - 1
      BY <3>1, FS_CardinalityType, FS_RemoveElement
    <3>. QED  BY <3>1, <3>2 DEF Admitted, SetupDataDir
  <2>. QED  BY <1>5, <2>1, <2>2 DEF CountInstance
<1>6. CASE CheckLimit(r)
  <2>1. CASE Reply(r, "limit")
    BY <1>1, <2>1 DEF Replies
  <2>2. CASE ~AtLimit(req[r].n) /\ req' = [req EXCEPT ![r].pc = "pick", ![r].n = 0]
    <3>1. /\ req'[r].pc = "pick" /\ req'[r].todo = req[r].todo /\ req[r].todo = {}
          /\ req[r].pc = "load" /\ req[r].n \in Nat
      BY <1>6, <2>2 DEF CheckLimit
    <3>2. Cardinality({}) = 0 /\ req[r].n < Limit
      BY <2>2, <3>1, FS_EmptySet, LimitAssumption DEF AtLimit
    <3>3. Admitted(r)
      <4>. HIDE DEF TypeInv, TypeOK, BrokerTypeOK, Handler
      <4>. QED  BY <3>1, <3>2 DEF Admitted
    <3>4. ~SetupDataDir(r)
      BY <3>1, Zenon DEF SetupDataDir
    <3>. HIDE DEF TypeInv, TypeOK, BrokerTypeOK, Handler, At
    <3>. QED  BY <3>1, <3>3, <3>4
  <2>. QED  BY <1>6, <2>1, <2>2 DEF CheckLimit
<1>7. CASE FindFreePort(r)
  <2>1. CASE Reply(r, "aborted")
    BY <1>1, <2>1 DEF Replies
  <2>2. ASSUME NEW port, req' = [req EXCEPT ![r].pc = "mkdata",
                                            ![r].inst = [port |-> port, password |-> r]]
        PROVE  Goal
    BY <1>7, <2>2, Zenon DEF FindFreePort, Admitted, SetupDataDir
  <2>. QED  BY <1>7, <2>1, <2>2 DEF FindFreePort
<1>8. CASE SetupDataDir(r) \/ SetupLogDir(r) \/ SetupLock(r) \/ SetupTruncate(r) \/ SetupFill(r)
  <2>1. Reply(r, "error") \/ (\E p \in {"mklogs", "lock", "truncate", "fill", "start"} : Goto(r, p))
    BY <1>8 DEF SetupDataDir, SetupLogDir, SetupLock, SetupTruncate, SetupFill
  <2>. QED  BY <1>1, <1>3, <2>1 DEF Goto, Replies
<1>9. CASE StartFails(r) \/ WaitUntilConnectable(r) \/ UnlockInstance(r) \/ HandlerStart(r)
  <2>1. \/ \E a \in {"error", "ok"} : Reply(r, a)
        \/ \E p \in {"hung", "unlock", "wait"} : Goto(r, p)
    BY <1>9 DEF StartFails, WaitUntilConnectable, UnlockInstance, HandlerStart, Start
  <2>. QED  BY <1>1, <1>3, <2>1 DEF Goto, Replies
<1>10. CASE DestroyFind(r) \/ BindCredentials(r)
  <2>1. \/ Reply(r, "error")
        \/ req'[r].todo = req[r].todo /\ req'[r].pc \in {"mark", "done"}
    BY <1>10 DEF DestroyFind, BindCredentials
  <2>. QED  BY <1>1, <1>3, <2>1 DEF Replies
<1>11. CASE DestroyLock(r) \/ KillInstance(r) \/ Kill(r)
  <2>1. \/ Reply(r, "error")
        \/ req'[r].todo = req[r].todo /\ req'[r].pc \in {"pid", "kill", "names"}
    BY <1>11 DEF DestroyLock, KillInstance, Kill, Goto
  <2>. QED  BY <1>1, <1>3, <2>1 DEF Replies
<1>12. CASE DeleteNames(r) \/ DeleteEntry(r)
  <2>1. req'[r].todo = req[r].todo /\ req'[r].pc = "remove"
    BY <1>12 DEF DeleteNames, DeleteEntry
  <2>. QED  BY <1>3, <2>1
<1>13. CASE DeleteBaseDir(r) \/ DeleteLogDir(r) \/ DeletePidfile(r)
  <2>1. \/ \E a \in {"error", "ok"} : Reply(r, a)
        \/ \E p \in {"rmlogs", "rmpid"} : Goto(r, p)
    BY <1>13 DEF DeleteBaseDir, DeleteLogDir, DeletePidfile
  <2>. QED  BY <1>1, <1>3, <2>1 DEF Goto, Replies
<1>14. CASE CallFails(r)
  BY <1>1, <1>14, Zenon DEF CallFails, Replies
<1>15. ASSUME NEW i \in Instances, Arrival(r, i)
       PROVE  Goal
  <2>1. ASSUME NEW o, NEW s \in {"list", "find", "credentials", "done"}, NEW a, Begin(r, o, i, s, a)
        PROVE  Goal
    BY <1>3, <2>1 DEF Begin
  <2>. HIDE DEF Goal
  <2>2. ASSUME NEW plan, Provision(r, i, plan)
        PROVE  Goal
    BY <2>1, <2>2, Zenon DEF Provision
  <2>3. Deprovision(r, i) \/ Bind(r, i) => Goal
    BY <2>1, Zenon DEF Deprovision, Bind
  <2>4. Unbind(r, i) \/ Unimplemented(r, i) => Goal
    BY <2>1, Zenon DEF Unbind, Unimplemented
  <2>. QED  BY <1>15, <2>2, <2>3, <2>4 DEF Arrival
<1>. HIDE DEF Goal, TypeInv
<1>16. Goal
  BY <1>1, <1>2, <1>4, <1>5, <1>6, <1>7, <1>8, <1>9, <1>10, <1>11, <1>12, <1>13, <1>14, <1>15,
     OnlyItsHandler, Zenon DEF OwnStep, Create, Destroy, Replies, Goal
<1>. QED  BY <1>16 DEF Goal

\* Directories and admitted Provisions together stay below the bound: a
\* Provision is admitted when there are fewer directories than the limit, and
\* then no more than MaxInFlight are.
LimitInv ==
  /\ IsFiniteSet(dirs) /\ \A r \in Requests : IsFiniteSet(req[r].todo)
  /\ IsFiniteSet(InFlight) /\ Cardinality(InFlight) <= MaxInFlight
  /\ Cardinality(dirs) + Cardinality(Admissions) <= Limit + MaxInFlight - 1

\* A set grows by at most one element at a time.
LEMMA OneMore ==
  ASSUME NEW S, IsFiniteSet(S), NEW x
  PROVE  /\ IsFiniteSet(S \cup {x})
         /\ Cardinality(S) \in Nat
         /\ Cardinality(S \cup {x}) \in Nat
         /\ Cardinality(S \cup {x}) <= Cardinality(S) + 1
<1>1. Cardinality(S) \in Nat
  BY FS_CardinalityType
<1>2. IsFiniteSet(S \cup {x})
  BY FS_AddElement
<1>3. Cardinality(S \cup {x}) = IF x \in S THEN Cardinality(S) ELSE Cardinality(S) + 1
  BY FS_AddElement
<1>. QED  BY <1>1, <1>2, <1>3

\* A call arrives when fewer than MaxInFlight are in progress.
LEMMA InFlightKept ==
  ASSUME TypeInv, Next, IsFiniteSet(InFlight), Cardinality(InFlight) <= MaxInFlight
  PROVE  IsFiniteSet(InFlight') /\ Cardinality(InFlight') <= MaxInFlight
<1>. USE LimitAssumption, FS_CardinalityType
<1>1. CASE InFlight' \subseteq InFlight
  BY <1>1, FS_Subset
<1>2. ASSUME NEW r \in Requests, NEW i \in Instances, Arrival(r, i)
      PROVE  IsFiniteSet(InFlight') /\ Cardinality(InFlight') <= MaxInFlight
  <2>1. Cardinality(InFlight) < MaxInFlight
    <3>1. ASSUME NEW o, Arrives(r, o, i)
          PROVE  Cardinality(InFlight) < MaxInFlight
      BY <3>1 DEF Arrives, InFlight
    <3>2. ASSUME NEW plan, Provision(r, i, plan)
          PROVE  Arrives(r, "provision", i)
      BY <3>2 DEF Provision
    <3>3. Deprovision(r, i) \/ Bind(r, i) \/ Unbind(r, i) \/ Unimplemented(r, i)
            => \E o : Arrives(r, o, i)
      BY Zenon DEF Deprovision, Bind, Unbind, Unimplemented
    <3>. QED  BY <1>2, <3>1, <3>2, <3>3 DEF Arrival
  <2>2. InFlight' \subseteq InFlight \cup {r}
    BY <1>2, ArrivalEffect DEF InFlight, Active
  <2>3. IsFiniteSet(InFlight \cup {r}) /\ Cardinality(InFlight \cup {r}) <= MaxInFlight
    <3>1. /\ IsFiniteSet(InFlight \cup {r})
          /\ Cardinality(InFlight) \in Nat
          /\ Cardinality(InFlight \cup {r}) \in Nat
          /\ Cardinality(InFlight \cup {r}) <= Cardinality(InFlight) + 1
      BY OneMore, Zenon
    <3>. QED  BY <2>1, <3>1
  <2>. QED  BY <2>2, <2>3, FS_Subset
<1>3. CASE ~\E r \in Requests, i \in Instances : Arrival(r, i)
  BY <1>1, <1>3, StepSource, Zenon DEF InFlight, Advanced
<1>. QED  BY <1>2, <1>3

\* A directory is created by a Provision that stops being admitted by it, and
\* a Provision is admitted below the limit.
LEMMA LimitInvKept ==
  ASSUME TypeInv, NotBooting, LimitInv, Next
  PROVE  LimitInv'
<1>. USE LimitAssumption, FS_CardinalityType
<1>1. IsFiniteSet(InFlight') /\ Cardinality(InFlight') <= MaxInFlight
  BY InFlightKept DEF LimitInv
<1>2. Admissions \subseteq InFlight /\ Admissions' \subseteq InFlight'
  BY DEF Admissions, Admitted, At, InFlight, Active
<1>3. /\ IsFiniteSet(Admissions) /\ IsFiniteSet(Admissions')
      /\ Cardinality(Admissions') <= MaxInFlight
  BY <1>1, <1>2, FS_Subset DEF LimitInv
<1>4. dirs' \subseteq dirs \/ \E r \in Requests : SetupDataDir(r)
  <2>. SUFFICES ASSUME NEW i \in dirs', i \notin dirs
                PROVE  \E r \in Requests : SetupDataDir(r)
    OBVIOUS
  <2>1. i \in Instances
    BY NextTypeInv DEF TypeInv, TypeOK, HostTypeOK
  <2>. QED  BY <2>1, FilesSource, Zenon DEF FilesAdvanced, files, SetupLogDir, MakeLogDir
<1>5. IsFiniteSet(dirs') /\ Cardinality(dirs') <= Cardinality(dirs) + 1
  <2>1. CASE dirs' \subseteq dirs
    BY <2>1, FS_Subset DEF LimitInv
  <2>2. ASSUME NEW r \in Requests, SetupDataDir(r)
        PROVE  IsFiniteSet(dirs') /\ Cardinality(dirs') <= Cardinality(dirs) + 1
    BY <2>2, OneMore, Zenon DEF SetupDataDir, MakeDataDir, LimitInv
  <2>. QED  BY <1>4, <2>1, <2>2
<1>6. ASSUME NEW r \in Requests
      PROVE  /\ IsFiniteSet(req'[r].todo)
             /\ Admitted(r)' => /\ ~SetupDataDir(r)
                                /\ Admitted(r) \/ (UNCHANGED dirs /\ Cardinality(dirs) < Limit)
  <2>1. IsFiniteSet(req[r].todo \cup dirs)
    BY FS_Union, Zenon DEF LimitInv
  <2>2. req'[r].todo \subseteq req[r].todo \cup dirs
    BY CountSource DEF LimitInv
  <2>. QED  BY <2>1, <2>2, CountSource, FS_Subset DEF LimitInv
<1>7. Cardinality(dirs') + Cardinality(Admissions') <= Limit + MaxInFlight - 1
  <2>. USE DEF LimitInv
  <2>1. CASE UNCHANGED dirs /\ Cardinality(dirs) < Limit
    BY <1>3, <2>1
  <2>2. CASE Admissions' \subseteq Admissions /\ dirs' \subseteq dirs
    BY <1>3, <1>5, <2>2, FS_Subset
  <2>3. ASSUME Admissions' \subseteq Admissions, NEW r \in Requests, SetupDataDir(r)
        PROVE  Cardinality(dirs') + Cardinality(Admissions') <= Limit + MaxInFlight - 1
    <3>1. r \in Admissions /\ Admissions' \subseteq Admissions \ {r}
      BY <1>6, <2>3, Zenon DEF SetupDataDir, At, Admissions, Admitted
    <3>2. /\ IsFiniteSet(Admissions \ {r})
          /\ Cardinality(Admissions \ {r}) = Cardinality(Admissions) - 1
      BY <1>3, <3>1, FS_RemoveElement
    <3>3. Cardinality(Admissions') <= Cardinality(Admissions) - 1
      BY <3>1, <3>2, FS_Subset
    <3>. QED  BY <1>3, <1>5, <3>3
  <2>. QED  BY <1>4, <1>6, <2>1, <2>2, <2>3 DEF Admissions
<1>. QED  BY <1>1, <1>5, <1>6, <1>7, Zenon DEF LimitInv, InFlight, Admissions

\* On a VM where the monitor does not boot, there are never more instances
\* than the limit and the calls in flight beside one, however many IDs and
\* requests there are and whatever fails.
THEOREM OvershootIsBounded == NeverBoots => (Spec => []OvershootBounded)
<1>. SUFFICES ASSUME NeverBoots
              PROVE  Spec => []OvershootBounded
  OBVIOUS
<1>. DEFINE Inv == NotBooting /\ LimitInv
<1>1. Init => Inv
  <2>1. Init => NotBooting
    BY DEF NeverBoots, Init, MonitorInit, MonitorAt, NotBooting, Copying
  <2>2. ASSUME Init PROVE LimitInv
    <3>1. /\ InFlight = {} /\ Admissions = {} /\ dirs = {}
          /\ \A r \in Requests : req[r].todo = {}
      BY <2>2 DEF Init, HostInit, BrokerInit, NoHandler, InFlight, Active, Admissions, Admitted, At
    <3>2. 0 <= MaxInFlight /\ 0 + 0 <= Limit + MaxInFlight - 1
      BY LimitAssumption
    <3>. QED  BY <3>1, <3>2, FS_EmptySet DEF LimitInv
  <2>. QED  BY <2>1, <2>2
<1>2. TypeInv /\ Inv /\ [Next]_vars => Inv'
  <2>1. LimitInv /\ UNCHANGED vars => LimitInv'
    BY Zenon DEF vars, hostVars, LimitInv, InFlight, Active, Admissions, Admitted, At
  <2>. QED  BY <2>1, NotBootingKept, LimitInvKept
<1>3. Inv => OvershootBounded
  <2>. SUFFICES ASSUME Inv PROVE OvershootBounded
    OBVIOUS
  <2>1. Admissions \subseteq InFlight
    BY Zenon DEF Admissions, Admitted, At, InFlight, Active
  <2>2. Cardinality(Admissions) \in Nat /\ Cardinality(dirs) \in Nat
    BY <2>1, FS_Subset, FS_CardinalityType DEF LimitInv
  <2>. QED  BY <2>2, LimitAssumption DEF LimitInv, OvershootBounded
<1>. QED  BY <1>1, <1>2, <1>3, TypeInvHolds, PTL DEF Spec

\* The limit itself holds when the broker serves one request at a time: the
\* counts of overlapping Provisions are the only way past it.
THEOREM LimitHeldInTurn == NeverBoots /\ MaxInFlight = 1 => (Spec => []LimitRespected)
<1>. SUFFICES ASSUME NeverBoots, MaxInFlight = 1
              PROVE  Spec => []LimitRespected
  OBVIOUS
<1>1. OvershootBounded => LimitRespected
  BY LimitAssumption DEF OvershootBounded, LimitRespected
<1>. QED  BY <1>1, OvershootIsBounded, PTL
=============================================================================

--------------------------- MODULE SharedVM_proofs ---------------------------
(***************************************************************************)
(* Proofs about SharedVM for any number of instances, requests, ports,     *)
(* pids and faults: its types, the credentials of an instance, which never *)
(* change, and that at most one redis-server serves it.                    *)
(***************************************************************************)
EXTENDS SharedVM, TLAPS

-----------------------------------------------------------------------------
(* Type correctness.  A handler writes what it holds in its locals to      *)
(* files, so TypeOK is inductive only together with what those locals are  *)
(* at each step.                                                           *)

Counting == {"list", "load", "pick"}
Building == {"mkdata", "mklogs", "lock"} \cup Unwritten \cup Starting

HandlerLocals(r) ==
  /\ req[r].pc = "idle" => req[r].op = "none" /\ req[r].inst = None
  /\ req[r].pc # "idle" => req[r].id \in Instances
  /\ req[r].pc \in Counting => req[r].op = "provision" /\ req[r].inst = None
  /\ req[r].pc \in Building => req[r].op = "provision" /\ req[r].inst \in Instance
  /\ req[r].pc \in Destroying => req[r].op = "deprovision"
  /\ req[r].pc = "credentials" => req[r].op = "bind"
  /\ req[r].pc = "kill" => req[r].pid \in Pids

MonitorLocals ==
  IF mon.pc \in Ensuring \cup (Copying \ {"copy"})
  THEN mon.id \in Instances /\ mon.inst \in Instance
  ELSE mon.id = None /\ mon.inst = None

TypeInv == /\ TypeOK
           /\ \A r \in Requests : HandlerLocals(r)
           /\ MonitorLocals

\* The initial states are well typed.
LEMMA InitTypeInv == Init => TypeInv
BY FaultsAssumption, MonitorAssumption
   DEF Init, HostInit, BrokerInit, MonitorInit, NoHandler, MonitorAt, NothingFound,
       TypeInv, TypeOK, HostTypeOK, BrokerTypeOK, MonitorTypeOK, HandlerLocals,
       MonitorLocals, Handler, Monitor, MonitorSteps, Steps, Unlocked, Unwritten,
       Starting, Destroying, Operations, Replies, Counting, Building, Copying, Ensuring

\* A fault is taken from a budget that is not exhausted.
LEMMA FaultType ==
  ASSUME faults \in [FaultKind -> Nat], NEW kind \in FaultKind, Fault(kind)
  PROVE  faults' \in [FaultKind -> Nat]
BY DEF Fault

\* The steps of redis-server keep the types.
LEMMA RedisTypeInv == ASSUME TypeInv, RedisNext PROVE TypeInv'
<1>. PICK p \in Pids : RedisStep(p) \/ (RedisDies(p) /\ UNCHANGED <<req, mon>>)
  BY DEF RedisNext
<1>. USE DEF files
<1>1. proc[p] # None /\ proc[p] \in Process /\ proc[p].id \in Instances
  BY DEF RedisStep, RedisRuns, RedisListens, RedisCannotListen, RedisWritesPidfile,
         RedisLoaded, RedisDies, TypeInv, TypeOK, HostTypeOK, Process
<1>2. HostTypeOK'
  <2>1. faults' \in [FaultKind -> Nat]
    BY DEF RedisStep, RedisRuns, RedisListens, RedisCannotListen, RedisWritesPidfile,
           RedisLoaded, RedisDies, Fault, TypeInv, TypeOK, HostTypeOK, FaultKind
  <2>2. proc' \in [Pids -> Process \cup {None}]
    BY <1>1 DEF RedisStep, RedisRuns, RedisListens, RedisCannotListen, RedisWritesPidfile,
           RedisLoaded, RedisDies, TypeInv, TypeOK, HostTypeOK, Process, Phase
  <2>3. pidfile' \in [Instances -> Pids \cup {None}]
    BY <1>1 DEF RedisStep, RedisRuns, RedisListens, RedisCannotListen, RedisWritesPidfile,
           RedisLoaded, RedisDies, TypeInv, TypeOK, HostTypeOK
  <2>. QED
    BY <2>1, <2>2, <2>3 DEF RedisStep, RedisRuns, RedisListens, RedisCannotListen,
       RedisWritesPidfile, RedisLoaded, RedisDies, TypeInv, TypeOK, HostTypeOK
<1>3. UNCHANGED <<req, mon>>
  BY DEF RedisStep
<1>. QED
  BY <1>2, <1>3 DEF TypeInv, TypeOK, BrokerTypeOK, MonitorTypeOK, HandlerLocals, MonitorLocals

\* A step that writes well-typed files and moves one handler to a step its
\* locals are fit for keeps the types.
HandlerKept(r) == /\ HostTypeOK' /\ BrokerTypeOK'
                  /\ \A q \in Requests \ {r} : req'[q] = req[q]
                  /\ HandlerLocals(r)'

\* A step that replaces one handler by a well-typed one keeps the type
\* invariant.
LEMMA HandlerTypeInv ==
  ASSUME TypeInv, NEW r \in Requests, UNCHANGED mon, HandlerKept(r)
  PROVE  TypeInv'
BY DEF TypeInv, TypeOK, BrokerTypeOK, MonitorTypeOK, MonitorLocals, HandlerLocals, HandlerKept

\* Setting one more field of a handler beside its step keeps the types.
LEMMA HandlerFields ==
  ASSUME BrokerTypeOK, NEW r \in Requests, NEW s \in Steps
  PROVE  /\ \A t \in SUBSET Instances :
              req' = [req EXCEPT ![r].pc = s, ![r].todo = t] => BrokerTypeOK'
         /\ \A m \in Nat :
              req' = [req EXCEPT ![r].pc = s, ![r].n = m] => BrokerTypeOK'
         /\ \A e \in SUBSET {"db", "lock", "redis.conf"} :
              req' = [req EXCEPT ![r].pc = s, ![r].names = e] => BrokerTypeOK'
<1>. req[r] \in Handler
  BY DEF BrokerTypeOK
<1>1. ASSUME NEW t \in SUBSET Instances, req' = [req EXCEPT ![r].pc = s, ![r].todo = t]
      PROVE  BrokerTypeOK'
  <2>1. [req[r] EXCEPT !.pc = s, !.todo = t] \in Handler
    BY Zenon DEF Handler
  <2>2. req' = [req EXCEPT ![r] = [req[r] EXCEPT !.pc = s, !.todo = t]]
    BY <1>1, Zenon
  <2>. QED  BY <2>1, <2>2 DEF BrokerTypeOK
<1>2. ASSUME NEW m \in Nat, req' = [req EXCEPT ![r].pc = s, ![r].n = m]
      PROVE  BrokerTypeOK'
  <2>1. [req[r] EXCEPT !.pc = s, !.n = m] \in Handler
    BY Zenon DEF Handler
  <2>2. req' = [req EXCEPT ![r] = [req[r] EXCEPT !.pc = s, !.n = m]]
    BY <1>2, Zenon
  <2>. QED  BY <2>1, <2>2 DEF BrokerTypeOK
<1>3. ASSUME NEW e \in SUBSET {"db", "lock", "redis.conf"},
             req' = [req EXCEPT ![r].pc = s, ![r].names = e]
      PROVE  BrokerTypeOK'
  <2>1. [req[r] EXCEPT !.pc = s, !.names = e] \in Handler
    BY Zenon DEF Handler
  <2>2. req' = [req EXCEPT ![r] = [req[r] EXCEPT !.pc = s, !.names = e]]
    BY <1>3, Zenon
  <2>. QED  BY <2>1, <2>2 DEF BrokerTypeOK
<1>. QED  BY <1>1, <1>2, <1>3

\* Answering a request that arrived keeps its handler's types.
Answered(h, a) == [h EXCEPT !.pc = "done", !.reply = a, !.todo = {}, !.n = 0,
                            !.pid = None, !.names = {}]

\* An answered handler is well typed.
LEMMA AnsweredType ==
  ASSUME NEW h \in Handler, NEW a \in Replies
  PROVE  /\ Answered(h, a) \in Handler
         /\ Answered(h, a).pc = "done"
         /\ Answered(h, a).id = h.id
<1>1. "done" \in Steps
  BY DEF Steps
<1>. QED  BY <1>1, Zenon DEF Answered, Handler

\* Answering a request keeps the type invariant.
LEMMA ReplyKept ==
  ASSUME BrokerTypeOK, NEW r \in Requests, req[r].id \in Instances,
         NEW a \in Replies, Reply(r, a)
  PROVE  BrokerTypeOK' /\ HandlerLocals(r)' /\ \A q \in Requests \ {r} : req'[q] = req[q]
<1>1. req[r] \in Handler
  BY DEF BrokerTypeOK
<1>2. req' = [req EXCEPT ![r] = Answered(req[r], a)]
  BY Zenon DEF Reply, Answered
<1>3. BrokerTypeOK' /\ \A q \in Requests \ {r} : req'[q] = req[q]
  BY <1>1, <1>2, AnsweredType DEF BrokerTypeOK
<1>4. req'[r].pc = "done" /\ req'[r].id = req[r].id
  BY <1>1, <1>2, AnsweredType DEF BrokerTypeOK
<1>. QED
  BY <1>3, <1>4 DEF HandlerLocals, Counting, Building, Unwritten, Starting, Destroying

\* The steps of Create keep the type invariant.
LEMMA CreateTypeInv ==
  ASSUME TypeInv, NEW r \in Requests, Create(r), UNCHANGED mon
  PROVE  TypeInv'
<1>. USE DEF HandlerLocals, Handler, Steps, Unlocked, Unwritten, Starting, Destroying,
             Operations, Replies, Counting, Building, At, Goto, Reply, hostVars, files,
             TypeInv, TypeOK, BrokerTypeOK, HostTypeOK
<1>. SUFFICES HandlerKept(r)
  BY HandlerTypeInv
<1>1. CASE ListInstances(r)
  <2>1. dirs \in SUBSET Instances /\ "load" \in Steps
    OBVIOUS
  <2>2. BrokerTypeOK'
    BY <1>1, <2>1, HandlerFields, Zenon DEF ListInstances
  <2>3. HandlerLocals(r)'
    BY <1>1 DEF ListInstances
  <2>. QED  BY <1>1, <2>2, <2>3, SMTT(30) DEF HandlerKept, ListInstances
<1>2. CASE \E i \in Instances : CountInstance(r, i)
  BY <1>2, SMTT(30) DEF HandlerKept, CountInstance
<1>3. CASE CheckLimit(r)
  <2>1. CASE Reply(r, "limit")
    BY <1>3, <2>1, SMTT(30) DEF HandlerKept, CheckLimit
  <2>2. CASE req' = [req EXCEPT ![r].pc = "pick", ![r].n = 0]
    <3>1. BrokerTypeOK'
      BY <2>2, HandlerFields, Zenon
    <3>2. HandlerLocals(r)'
      BY <1>3, <2>2 DEF CheckLimit
    <3>. QED  BY <1>3, <2>2, <3>1, <3>2 DEF HandlerKept, CheckLimit
  <2>. QED  BY <1>3, <2>1, <2>2 DEF CheckLimit
<1>4. CASE FindFreePort(r)
  BY <1>4, SMTT(30) DEF HandlerKept, FindFreePort, Instance
<1>5. CASE SetupDataDir(r)
  BY <1>5, SMTT(30) DEF HandlerKept, SetupDataDir, MakeDataDir
<1>6. CASE SetupLogDir(r)
  BY <1>6, SMTT(30) DEF HandlerKept, SetupLogDir, MakeLogDir
<1>7. CASE SetupLock(r)
  <2>1. CASE Lock(req[r].id) /\ Goto(r, "truncate")
    BY <1>7, <2>1 DEF HandlerKept, SetupLock, Lock
  <2>2. CASE Reply(r, "error") /\ UNCHANGED files
    BY <1>7, <2>2, ReplyKept, Zenon DEF HandlerKept, SetupLock
  <2>. QED  BY <1>7, <2>1, <2>2 DEF SetupLock
<1>8. CASE SetupTruncate(r)
  BY <1>8, SMTT(30) DEF HandlerKept, SetupTruncate, TruncateConfig
<1>9. CASE SetupFill(r)
  BY <1>9 DEF HandlerKept, SetupFill, FillConfig
<1>10. CASE StartFails(r)
  BY <1>10, SMTT(30) DEF HandlerKept, StartFails
<1>11. CASE WaitUntilConnectable(r)
  BY <1>11, SMTT(30) DEF HandlerKept, WaitUntilConnectable
<1>12. CASE UnlockInstance(r)
  BY <1>12, SMTT(30) DEF HandlerKept, UnlockInstance, Unlock
<1>. QED  BY <1>1, <1>2, <1>3, <1>4, <1>5, <1>6, <1>7, <1>8, <1>9, <1>10, <1>11, <1>12 DEF Create

\* The steps of Destroy keep the type invariant.
LEMMA DestroyTypeInv ==
  ASSUME TypeInv, NEW r \in Requests, Destroy(r), UNCHANGED mon
  PROVE  TypeInv'
<1>. USE DEF HandlerLocals, Handler, Steps, Unlocked, Unwritten, Starting, Destroying,
             Operations, Replies, Counting, Building, At, Goto, Reply, hostVars, files,
             TypeInv, TypeOK, BrokerTypeOK, HostTypeOK
<1>. SUFFICES HandlerKept(r)
  BY HandlerTypeInv
<1>1. CASE DestroyFind(r)
  BY <1>1, SMTT(30) DEF HandlerKept, DestroyFind, Readable
<1>2. CASE DestroyLock(r)
  BY <1>2, SMTT(30) DEF HandlerKept, DestroyLock, Lock
<1>3. CASE KillInstance(r)
  BY <1>3, SMTT(30) DEF HandlerKept, KillInstance, InstancePid
<1>4. CASE Kill(r)
  BY <1>4, SMTT(30) DEF HandlerKept, Kill
<1>5. CASE DeleteNames(r)
  <2>1. Entries(req[r].id) \in SUBSET {"db", "lock", "redis.conf"}
    BY DEF Entries
  <2>. "remove" \in Steps
    OBVIOUS
  <2>2. BrokerTypeOK'
    <3>. HIDE DEF BrokerTypeOK, Handler, Steps, HostTypeOK
    <3>. QED  BY <1>5, <2>1, HandlerFields, Zenon DEF DeleteNames
  <2>3. HandlerLocals(r)'
    BY <1>5 DEF DeleteNames
  <2>. QED  BY <1>5, <2>2, <2>3 DEF HandlerKept, DeleteNames
<1>6. CASE DeleteEntry(r)
  BY <1>6 DEF HandlerKept, DeleteEntry, RemoveEntry
<1>7. CASE DeleteBaseDir(r)
  BY <1>7, SMTT(30) DEF HandlerKept, DeleteBaseDir
<1>8. CASE DeleteLogDir(r)
  BY <1>8 DEF HandlerKept, DeleteLogDir, RemoveLogDir
<1>9. CASE DeletePidfile(r)
  <2>1. BrokerTypeOK' /\ HandlerLocals(r)' /\ \A q \in Requests \ {r} : req'[q] = req[q]
    BY <1>9, ReplyKept, Zenon DEF DeletePidfile
  <2>2. HostTypeOK'
    <3>1. CASE Fault("io") /\ UNCHANGED pidfile
      BY <1>9, <3>1 DEF DeletePidfile, Fault, FaultKind
    <3>2. CASE pidfile' = [pidfile EXCEPT ![req[r].id] = None] /\ UNCHANGED faults
      BY <1>9, <3>2 DEF DeletePidfile
    <3>. QED  BY <1>9, <3>1, <3>2 DEF DeletePidfile
  <2>. QED  BY <2>1, <2>2 DEF HandlerKept
<1>. QED  BY <1>1, <1>2, <1>3, <1>4, <1>5, <1>6, <1>7, <1>8, <1>9 DEF Destroy

\* The arrival of a request keeps the type invariant.
LEMMA ArrivalTypeInv ==
  ASSUME TypeInv, NEW r \in Requests, NEW i \in Instances, Arrival(r, i), UNCHANGED mon
  PROVE  TypeInv'
<1>. USE DEF HandlerLocals, Handler, Steps, Unlocked, Unwritten, Starting, Destroying,
             Operations, Replies, Counting, Building, At, Goto, Reply, hostVars, files,
             TypeInv, TypeOK, BrokerTypeOK, HostTypeOK
<1>. SUFFICES HandlerKept(r)
  BY HandlerTypeInv
<1>1. ASSUME NEW found \in BOOLEAN, instanceExists(i, found)
      PROVE  faults' \in [FaultKind -> Nat]
  BY <1>1, FaultType DEF instanceExists, FaultKind
<1>2. ASSUME At(r, "idle"), UNCHANGED <<files, pidfile, proc>>,
             faults' \in [FaultKind -> Nat], NEW a \in Replies,
             \/ \E o \in Operations : Begin(r, o, i, "done", a)
             \/ Begin(r, "provision", i, "list", a)
             \/ Begin(r, "deprovision", i, "find", a)
             \/ Begin(r, "bind", i, "credentials", a)
      PROVE  HandlerKept(r)
  BY <1>2, SMTT(30) DEF HandlerKept, Begin
<1>. HIDE DEF HandlerLocals, Handler, TypeInv, hostVars, files
<1>3. CASE \E plan \in Services \cup {"unknown"} : Provision(r, i, plan)
  BY <1>1, <1>2, <1>3, Zenon DEF Provision, Arrives
<1>4. CASE Deprovision(r, i)
  BY <1>1, <1>2, <1>4, Zenon DEF Deprovision, Arrives
<1>5. CASE Bind(r, i)
  BY <1>1, <1>2, <1>5, Zenon DEF Bind, Arrives
<1>6. CASE Unbind(r, i)
  BY <1>1, <1>2, <1>6, Zenon DEF Unbind, Arrives
<1>7. CASE Unimplemented(r, i)
  <2>1. faults' \in [FaultKind -> Nat] /\ UNCHANGED <<files, pidfile, proc>>
    BY <1>7 DEF Unimplemented, hostVars, files, TypeInv
  <2>. QED  BY <1>2, <1>7, <2>1 DEF Unimplemented, Arrives
<1>. QED  BY <1>3, <1>4, <1>5, <1>6, <1>7 DEF Arrival

\* What the arrival of a request changes, and when it may happen.
LEMMA ArrivalEffect ==
  ASSUME TypeInv, NEW r \in Requests, NEW i \in Instances, Arrival(r, i)
  PROVE  /\ UNCHANGED <<files, pidfile, proc>> /\ \A q \in Requests \ {r} : req'[q] = req[q]
         /\ At(r, "idle") /\ req'[r].id = i /\ req'[r].inst = req[r].inst
         /\ req'[r].pc \in {"list", "find", "credentials", "done"}
         /\ req'[r].op = "provision" => req'[r].pc \in {"list", "done"}
         /\ UniqueIDs /\ req'[r].op = "provision" =>
              \A q \in Requests : req[q].op = "provision" => req[q].id # i
         /\ Serialised => \A q \in Requests : Active(q) => req[q].id # i
<1>1. req \in [Requests -> Handler]
  BY DEF TypeInv, TypeOK, BrokerTypeOK
<1>2. ASSUME NEW o, NEW s, NEW a, Begin(r, o, i, s, a)
      PROVE  /\ \A q \in Requests \ {r} : req'[q] = req[q]
             /\ req'[r].id = i /\ req'[r].inst = req[r].inst
             /\ req'[r].op = o /\ req'[r].pc = s
  BY <1>1, <1>2 DEF Begin, Handler
<1>3. PICK o, s, a : /\ Begin(r, o, i, s, a) /\ Arrives(r, o, i)
                     /\ UNCHANGED <<files, pidfile, proc>>
                     /\ o = "provision" => s \in {"list", "done"}
                     /\ s \in {"list", "find", "credentials", "done"}
  <2>1. ASSUME NEW plan, Provision(r, i, plan)
        PROVE  \E s, a : /\ Begin(r, "provision", i, s, a) /\ Arrives(r, "provision", i)
                         /\ UNCHANGED <<files, pidfile, proc>> /\ s \in {"list", "done"}
    BY <2>1, Zenon DEF Provision
  <2>2. Deprovision(r, i) =>
          \E s, a : Begin(r, "deprovision", i, s, a) /\ Arrives(r, "deprovision", i) /\ s \in {"find", "done"}
    BY Zenon DEF Deprovision
  <2>3. Bind(r, i) =>
          \E s, a : Begin(r, "bind", i, s, a) /\ Arrives(r, "bind", i) /\ s \in {"credentials", "done"}
    BY Zenon DEF Bind
  <2>4. Unbind(r, i) =>
          \E s, a : Begin(r, "unbind", i, s, a) /\ Arrives(r, "unbind", i) /\ s = "done"
    BY Zenon DEF Unbind
  <2>5. Unimplemented(r, i) =>
          \E s, a : Begin(r, "other", i, s, a) /\ Arrives(r, "other", i) /\ s = "done"
    BY DEF Unimplemented
  <2>6. Deprovision(r, i) \/ Bind(r, i) \/ Unbind(r, i) \/ Unimplemented(r, i)
          => UNCHANGED <<files, pidfile, proc>>
    BY Zenon DEF Deprovision, Bind, Unbind, Unimplemented, hostVars, files
  <2>. QED  BY <2>1, <2>2, <2>3, <2>4, <2>5, <2>6 DEF Arrival
<1>. QED  BY <1>2, <1>3 DEF Arrives

\* Every step of the broker keeps the type invariant.
LEMMA BrokerTypeInv == ASSUME TypeInv, BrokerNext PROVE TypeInv'
<1>1. ASSUME NEW r \in Requests, NEW i \in Instances, Arrival(r, i), UNCHANGED mon
      PROVE  TypeInv'
  BY <1>1, ArrivalTypeInv
<1>2. ASSUME NEW r \in Requests, HandlerStep(r)
      PROVE  TypeInv'
  <2>1. CASE BindCredentials(r)
    <3>1. BrokerTypeOK' /\ HandlerLocals(r)' /\ \A q \in Requests \ {r} : req'[q] = req[q]
      BY <2>1, SMTT(30) DEF BindCredentials, Readable, Reply, At, Handler, Steps, HandlerLocals, Counting,
                  Building, Unwritten, Starting, Destroying, Replies, TypeInv, TypeOK,
                  BrokerTypeOK, HostTypeOK
    <3>. QED  BY <1>2, <2>1, <3>1, HandlerTypeInv
              DEF HandlerStep, BindCredentials, hostVars, HandlerKept, TypeInv, TypeOK, HostTypeOK
  <2>. QED  BY <1>2, <2>1, CreateTypeInv, DestroyTypeInv DEF HandlerStep, Handle
<1>3. ASSUME NEW r \in Requests, HandlerStart(r)
      PROVE  TypeInv'
  <2>. PICK p \in FreePids : Start(r, p)
    BY <1>3 DEF HandlerStart
  <2>1. HostTypeOK'
    <3>1. conf[req[r].id] \in Instance /\ req[r].id \in Instances
      BY DEF Start, Exec, Readable, At, HandlerLocals, TypeInv, TypeOK, HostTypeOK
    <3>2. proc' \in [Pids -> Process \cup {None}]
      BY <3>1 DEF Start, Exec, FreePids, Instance, Process, Phase, TypeInv, TypeOK, HostTypeOK
    <3>. QED  BY <3>2 DEF Start, files, TypeInv, TypeOK, HostTypeOK
  <2>2. BrokerTypeOK' /\ HandlerLocals(r)' /\ \A q \in Requests \ {r} : req'[q] = req[q]
    BY DEF Start, Goto, At, Handler, Steps, HandlerLocals, Counting, Building, Unwritten,
           Starting, Destroying, TypeInv, TypeOK, BrokerTypeOK
  <2>. QED  BY <1>3, <2>1, <2>2, HandlerTypeInv DEF HandlerStart, HandlerKept
<1>4. ASSUME NEW r \in Requests, CallFails(r), UNCHANGED mon
      PROVE  TypeInv'
  <2>1. HostTypeOK'
    BY <1>4, SMTT(30) DEF CallFails, Fault, files, FaultKind, TypeInv, TypeOK, HostTypeOK
  <2>2. BrokerTypeOK' /\ HandlerLocals(r)' /\ \A q \in Requests \ {r} : req'[q] = req[q]
    BY <1>4, ReplyKept DEF CallFails, Active, Replies, HandlerLocals, TypeInv, TypeOK
  <2>. QED  BY <1>4, <2>1, <2>2, HandlerTypeInv DEF HandlerKept
<1>5. ASSUME BrokerExits, UNCHANGED mon
      PROVE  TypeInv'
  <2>1. HostTypeOK'
    <3>1. faults' \in [FaultKind -> Nat] /\ UNCHANGED <<files, pidfile, proc>>
      BY <1>5, FaultType, Zenon DEF BrokerExits, FaultKind, TypeInv, TypeOK, HostTypeOK
    <3>. QED  BY <3>1 DEF files, TypeInv, TypeOK, HostTypeOK
  <2>2. MonitorTypeOK' /\ MonitorLocals'
    BY <1>5 DEF TypeInv, TypeOK, MonitorTypeOK, MonitorLocals
  <2>3. req' = [r \in Requests |-> IF Active(r) THEN Answered(req[r], "aborted") ELSE req[r]]
    BY <1>5, Zenon DEF BrokerExits, Answered
  <2>4. ASSUME NEW r \in Requests
        PROVE  req'[r] \in Handler /\ HandlerLocals(r)'
    <3>1. req[r] \in Handler /\ HandlerLocals(r) /\ "aborted" \in Replies
      BY DEF TypeInv, TypeOK, BrokerTypeOK, Replies
    <3>2. CASE ~Active(r)
      BY <2>3, <3>1, <3>2 DEF HandlerLocals
    <3>3. CASE Active(r)
      <4>1. req'[r] \in Handler /\ req'[r].pc = "done" /\ req'[r].id = req[r].id
        BY <2>3, <3>1, <3>3, AnsweredType
      <4>. QED  BY <3>1, <3>3, <4>1
                DEF Active, HandlerLocals, Counting, Building, Unwritten, Starting, Destroying
    <3>. QED  BY <3>2, <3>3
  <2>5. BrokerTypeOK'
    BY <2>3, <2>4 DEF BrokerTypeOK
  <2>. QED  BY <2>1, <2>2, <2>4, <2>5 DEF TypeInv, TypeOK
<1>. QED  BY <1>1, <1>2, <1>3, <1>4, <1>5 DEF BrokerNext

\* A step of the monitor that writes well-typed files and leaves its locals
\* fit for its next step keeps the types.
LEMMA MonitorTypeInv ==
  ASSUME TypeInv, UNCHANGED req, HostTypeOK', MonitorTypeOK', MonitorLocals'
  PROVE  TypeInv'
BY DEF TypeInv, TypeOK, BrokerTypeOK, HandlerLocals

\* logger.Fatal leaves a monitor that holds nothing.
LEMMA FatalKept == MonFatal => MonitorTypeOK' /\ MonitorLocals'
<1>1. MonitorAt("down") \in Monitor
  BY DEF MonitorAt, NothingFound, Monitor, MonitorSteps
<1>. QED  BY <1>1 DEF MonFatal, MonitorAt, MonitorTypeOK, MonitorLocals, Ensuring, Copying

\* Setting one entry of the snapshot, alone or while taking it in hand.
LEMMA FoundKept ==
  ASSUME MonitorTypeOK, NEW i \in Instances, NEW x \in Instance \cup {None}
  PROVE  [mon.found EXCEPT ![i] = x] \in [Instances -> Instance \cup {None}]
BY DEF MonitorTypeOK, Monitor

\* Taking the next instance of the snapshot keeps what is known of the
\* monitor.
LEMMA TakeKept ==
  ASSUME MonitorTypeOK, NEW i \in Found, NEW s \in {"copylogs", "pid"}, Take(i, s)
  PROVE  MonitorTypeOK' /\ MonitorLocals'
<1>. DEFINE f == [mon.found EXCEPT ![i] = None]
<1>1. /\ i \in Instances /\ mon.found[i] \in Instance
      /\ f \in [Instances -> Instance \cup {None}]
      /\ s \in MonitorSteps
  BY DEF Found, MonitorTypeOK, Monitor, MonitorSteps, Copying, Ensuring
<1>2. mon' = [mon EXCEPT !.pc = s, !.id = i, !.inst = mon.found[i], !.found = f]
  BY DEF Take, MonitorTypeOK, Monitor
<1>. HIDE DEF f
<1>3. MonitorTypeOK' /\ mon'.pc = s /\ mon'.id = i /\ mon'.inst = mon.found[i]
  BY <1>1, <1>2, Zenon DEF MonitorTypeOK, Monitor
<1>. QED  BY <1>1, <1>3 DEF MonitorLocals, Ensuring, Copying

\* Every step of the running monitor keeps the type invariant.
LEMMA MonitorStepTypeInv == ASSUME TypeInv, MonitorStep PROVE TypeInv'
<1>. USE DEF MonitorTypeOK, MonitorLocals, Monitor, MonitorSteps, Copying, Ensuring, MonAt,
             MonGoto, MonFatal, MonNext, MonitorAt, NothingFound, Take, Found, hostVars, files,
             TypeInv, TypeOK, HostTypeOK
<1>. SUFFICES HostTypeOK' /\ MonitorTypeOK' /\ MonitorLocals'
  BY MonitorTypeInv DEF MonitorStep
<1>1. CASE MonStarts
  BY <1>1, Zenon DEF MonStarts
<1>2. CASE MonLists
  BY <1>2, Zenon DEF MonLists
<1>3. CASE MonLoaded
  BY <1>3 DEF MonLoaded
<1>4. ASSUME NEW i \in Instances, MonLoads(i)
      PROVE  HostTypeOK' /\ MonitorTypeOK' /\ MonitorLocals'
  <2>. DEFINE x == IF Readable(i) THEN conf[i] ELSE None
              f == [mon.found EXCEPT ![i] = x]
              t == mon.todo \ {i}
  <2>1. x \in Instance \cup {None}
    BY DEF Readable
  <2>2. f \in [Instances -> Instance \cup {None}] /\ t \in SUBSET Instances
    BY <2>1, FoundKept
  <2>3. mon' = [mon EXCEPT !.todo = t, !.found = f]
    BY <1>4 DEF MonLoads
  <2>. HIDE DEF f, t
  <2>4. MonitorTypeOK'
    BY <2>2, <2>3, Zenon
  <2>5. MonitorLocals'
    BY <1>4, <2>3 DEF MonLoads
  <2>. QED  BY <1>4, <2>4, <2>5 DEF MonLoads
<1>5. ASSUME NEW i \in Instances, CopyDataDir(i)
      PROVE  HostTypeOK' /\ MonitorTypeOK' /\ MonitorLocals'
  <2>1. HostTypeOK'
    BY <1>5 DEF CopyDataDir, MakeDataDir
  <2>. QED  BY <1>5, <2>1, TakeKept, Zenon DEF CopyDataDir
<1>6. ASSUME NEW i \in Instances, CheckLock(i)
      PROVE  HostTypeOK' /\ MonitorTypeOK' /\ MonitorLocals'
  <2>1. HostTypeOK'
    BY <1>6 DEF CheckLock
  <2>2. CASE Take(i, "pid")
    BY <1>6, <2>1, <2>2, TakeKept, Zenon DEF CheckLock
  <2>3. CASE mon' = [mon EXCEPT !.found[i] = None]
    <3>1. mon' = [mon EXCEPT !.found = [mon.found EXCEPT ![i] = None]]
      BY <2>3
    <3>2. MonitorTypeOK' /\ mon'.pc = mon.pc /\ mon'.id = mon.id /\ mon'.inst = mon.inst
      BY <3>1, FoundKept
    <3>. QED  BY <2>1, <3>2
  <2>. QED  BY <1>6, <2>2, <2>3 DEF CheckLock
<1>7. CASE CopyLogDir
  BY <1>7 DEF CopyLogDir, MakeLogDir
<1>8. CASE CopyTruncate
  <2>1. HostTypeOK'
    BY <1>8 DEF CopyTruncate, TruncateConfig
  <2>2. CASE MonGoto("copyfill")
    BY <1>8, <2>1, <2>2 DEF CopyTruncate
  <2>. QED  BY <1>8, <2>1, <2>2, FatalKept DEF CopyTruncate
<1>9. CASE CopyFill
  BY <1>9, Zenon DEF CopyFill, FillConfig
<1>10. CASE CopiedAll
  BY <1>10 DEF CopiedAll
<1>11. CASE SweepDone
  BY <1>11 DEF SweepDone
<1>12. CASE ReadPidfile
  BY <1>12 DEF ReadPidfile
<1>13. CASE Ping
  BY <1>13, Zenon DEF Ping
<1>14. CASE RemovePidfile
  <2>1. HostTypeOK'
    BY <1>14 DEF RemovePidfile
  <2>2. CASE MonGoto("exec")
    BY <1>14, <2>1, <2>2 DEF RemovePidfile
  <2>. QED  BY <1>14, <2>1, <2>2, FatalKept DEF RemovePidfile
<1>15. CASE RestartFails
  <2>1. HostTypeOK'
    BY <1>15 DEF RestartFails
  <2>2. CASE MonGoto("hung")
    BY <1>15, <2>1, <2>2 DEF RestartFails
  <2>. QED  BY <1>15, <2>1, <2>2, FatalKept DEF RestartFails
<1>16. CASE RestartWait
  <2>1. HostTypeOK'
    BY <1>16 DEF RestartWait
  <2>2. CASE MonNext("each")
    BY <1>16, <2>1, <2>2, Zenon DEF RestartWait
  <2>. QED  BY <1>16, <2>1, <2>2, FatalKept DEF RestartWait
<1>. QED
  BY <1>1, <1>2, <1>3, <1>4, <1>5, <1>6, <1>7, <1>8, <1>9, <1>10, <1>11, <1>12, <1>13, <1>14, <1>15, <1>16, Zenon
  DEF MonitorStep, Monitors

\* So do its start, its end and its signal.
LEMMA MonitorNextTypeInv == ASSUME TypeInv, MonitorNext PROVE TypeInv'
<1>1. CASE MonitorStep
  BY <1>1, MonitorStepTypeInv
<1>2. CASE MonitorRestart
  <2>. PICK p \in FreePids : Restart(p)
    BY <1>2 DEF MonitorRestart
  <2>1. conf[mon.id] \in Instance /\ mon.id \in Instances
    BY DEF Restart, Exec, Readable, MonAt, MonitorLocals, Ensuring, TypeInv, TypeOK, HostTypeOK
  <2>2. proc' \in [Pids -> Process \cup {None}]
    BY <2>1 DEF Restart, Exec, FreePids, Instance, Process, Phase, TypeInv, TypeOK, HostTypeOK
  <2>3. HostTypeOK'
    BY <2>2 DEF Restart, files, TypeInv, TypeOK, HostTypeOK
  <2>4. MonitorTypeOK' /\ MonitorLocals'
    BY DEF Restart, MonAt, MonGoto, MonitorLocals, MonitorSteps, Ensuring, Copying, Monitor,
           MonitorTypeOK, TypeInv, TypeOK
  <2>. QED  BY <1>2, <2>3, <2>4, MonitorTypeInv DEF MonitorRestart
<1>3. CASE SignalUSR1 /\ UNCHANGED req
  BY <1>3, MonitorTypeInv, Zenon DEF SignalUSR1, hostVars, TypeInv, TypeOK, HostTypeOK, MonitorTypeOK,
                              Monitor, MonitorLocals
<1>4. CASE MonDies /\ UNCHANGED req
  <2>1. faults' \in [FaultKind -> Nat]
    BY <1>4, FaultType DEF MonDies, FaultKind, TypeInv, TypeOK, HostTypeOK
  <2>2. HostTypeOK'
    BY <1>4, <2>1 DEF MonDies, files, TypeInv, TypeOK, HostTypeOK
  <2>. QED  BY <1>4, <2>2, FatalKept, MonitorTypeInv DEF MonDies
<1>. QED  BY <1>1, <1>2, <1>3, <1>4 DEF MonitorNext

\* Every step keeps the type invariant.
LEMMA NextTypeInv == TypeInv /\ [Next]_vars => TypeInv'
<1>1. TypeInv /\ UNCHANGED vars => TypeInv'
  BY DEF vars, hostVars, TypeInv, TypeOK, HostTypeOK, BrokerTypeOK, MonitorTypeOK,
         HandlerLocals, MonitorLocals
<1>. QED  BY <1>1, BrokerTypeInv, MonitorNextTypeInv, RedisTypeInv DEF Next

\* The type invariant holds in every reachable state.
LEMMA TypeInvHolds == Spec => []TypeInv
BY InitTypeInv, NextTypeInv, PTL DEF Spec

\* Every file, process, handler and the monitor always hold values of their
\* types; in particular nobody writes a configuration it does not have.
THEOREM TypeCorrect == Spec => []TypeOK
<1>1. TypeInv => TypeOK
  BY DEF TypeInv
<1>. QED  BY <1>1, TypeInvHolds, PTL

-----------------------------------------------------------------------------
(* Credentials.  A copy of an instance's port and password is only ever    *)
(* made from another copy, except by FindFreePort, which makes the first   *)
(* one; there is one lemma per place a copy can be in.                     *)

\* Instance i was given x by a Provision
Given(i, x) == \E r \in Requests : /\ req[r].op = "provision"
                                   /\ req[r].id = i
                                   /\ req[r].inst = x

\* redis.conf: written from a handler's or the monitor's instance, after the
\* same program truncated it.
LEMMA ConfSource ==
  ASSUME TypeInv, Next, NEW i \in Instances
  PROVE  \/ conf'[i] \in {conf[i], NoFile}
         \/ /\ conf'[i] = Torn
            /\ \/ \E r \in Requests : SetupTruncate(r) /\ req[r].id = i
               \/ CopyTruncate /\ mon.id = i /\ MonGoto("copyfill")
         \/ \E r \in Requests : SetupFill(r) /\ req[r].id = i /\ conf'[i] = req[r].inst
         \/ CopyFill /\ mon.id = i /\ conf'[i] = mon.inst
<1>. USE DEF TypeInv, TypeOK, HostTypeOK, hostVars, files
<1>1. CASE UNCHANGED conf
  BY <1>1
<1>2. ASSUME NEW r \in Requests, SetupTruncate(r)
      PROVE  conf'[i] = conf[i] \/ (req[r].id = i /\ conf'[i] = Torn)
  BY <1>2 DEF SetupTruncate, TruncateConfig
<1>3. ASSUME NEW r \in Requests, SetupFill(r)
      PROVE  conf'[i] = conf[i] \/ (req[r].id = i /\ conf'[i] = req[r].inst)
  BY <1>3 DEF SetupFill, FillConfig
<1>4. ASSUME NEW r \in Requests, DeleteEntry(r)
      PROVE  conf'[i] \in {conf[i], NoFile}
  BY <1>4 DEF DeleteEntry, RemoveEntry
<1>5. CASE CopyTruncate
  BY <1>5 DEF CopyTruncate, TruncateConfig
<1>6. CASE CopyFill
  BY <1>6 DEF CopyFill, FillConfig
<1>7. ASSUME NEW r \in Requests, Create(r), ~SetupTruncate(r), ~SetupFill(r)
      PROVE  UNCHANGED conf
  BY <1>7, Zenon DEF Create, ListInstances, CountInstance, CheckLimit, FindFreePort, SetupDataDir,
       MakeDataDir, SetupLogDir, MakeLogDir, SetupLock, Lock, StartFails,
       WaitUntilConnectable, UnlockInstance, Unlock
<1>8. ASSUME NEW r \in Requests, Destroy(r), ~DeleteEntry(r)
      PROVE  UNCHANGED conf
  BY <1>8 DEF Destroy, DestroyFind, DestroyLock, Lock, KillInstance, Kill, DeleteNames,
       DeleteBaseDir, DeleteLogDir, RemoveLogDir, DeletePidfile
<1>9. ASSUME BrokerNext, \A r \in Requests : ~Create(r) /\ ~Destroy(r)
      PROVE  UNCHANGED conf
  BY <1>9, Zenon DEF BrokerNext, Arrival, Provision, Deprovision, Bind, Unbind, Unimplemented, HandlerStep, Handle,
       BindCredentials, HandlerStart, Start, CallFails, BrokerExits
<1>10. ASSUME MonitorNext, ~CopyTruncate, ~CopyFill
       PROVE  UNCHANGED conf
  BY <1>10, Zenon DEF MonitorNext, MonitorStep, Monitors, MonStarts, MonLists, MonLoaded, MonLoads,
       CopyDataDir, MakeDataDir, CheckLock, CopyLogDir, MakeLogDir, CopiedAll, SweepDone,
       ReadPidfile, Ping, RemovePidfile, RestartFails, RestartWait, MonitorRestart, Restart,
       SignalUSR1, MonDies
<1>11. ASSUME RedisNext
       PROVE  UNCHANGED conf
  BY <1>11 DEF RedisNext, RedisStep, RedisRuns, RedisListens, RedisCannotListen,
       RedisWritesPidfile, RedisLoaded, RedisDies
<1>. QED
  BY <1>1, <1>2, <1>3, <1>4, <1>5, <1>6, <1>7, <1>8, <1>9, <1>10, <1>11
  DEF Next

\* The monitor's snapshot is loaded from redis.conf.
LEMMA MonitorSource ==
  ASSUME TypeInv, Next, NEW i \in Instances
  PROVE  /\ mon'.found[i] \in {mon.found[i], None, conf[i]}
         /\ mon'.id = i => \/ mon'.inst = None
                           \/ mon.id = i /\ mon'.inst = mon.inst
                           \/ mon'.inst = mon.found[i]
<1>. USE DEF TypeInv, TypeOK, MonitorTypeOK, Monitor
<1>1. CASE UNCHANGED mon
  BY <1>1
<1>2. CASE MonFatal
  BY <1>2 DEF MonFatal, MonitorAt, NothingFound
<1>3. ASSUME NEW j \in Instances, MonLoads(j)
      PROVE  mon'.found[i] \in {mon.found[i], None, conf[i]} /\ mon'.id = mon.id
               /\ mon'.inst = mon.inst
  BY <1>3 DEF MonLoads
<1>4. ASSUME NEW j \in Instances, CopyDataDir(j) \/ CheckLock(j)
      PROVE  /\ mon'.found[i] \in {mon.found[i], None}
             /\ \/ mon'.id = mon.id /\ mon'.inst = mon.inst
                \/ mon'.id = j /\ mon'.inst = mon.found[j]
  BY <1>4, Zenon DEF CopyDataDir, CheckLock, Take
<1>5. ASSUME MonitorNext, ~MonFatal, \A j \in Instances : ~MonLoads(j) /\ ~CopyDataDir(j) /\ ~CheckLock(j)
      PROVE  /\ mon'.found = mon.found
             /\ \/ mon'.id = mon.id /\ mon'.inst = mon.inst
                \/ mon'.inst = None
  BY <1>5, Zenon DEF MonitorNext, MonitorStep, Monitors, MonStarts, MonLists, MonLoaded, CopyLogDir,
       CopyTruncate, CopyFill, CopiedAll, SweepDone, ReadPidfile, Ping, RemovePidfile,
       RestartFails, RestartWait, MonitorRestart, Restart, SignalUSR1, MonDies, MonGoto, MonNext
<1>6. (BrokerNext \/ RedisNext) => UNCHANGED mon
  BY DEF BrokerNext, RedisNext, HandlerStep, HandlerStart, RedisStep
<1>. QED  BY <1>1, <1>2, <1>3, <1>4, <1>5, <1>6 DEF Next

\* A handler's instance is read from redis.conf or built by FindFreePort; the
\* one a Provision built stays with it.
LEMMA HandlerSource ==
  ASSUME TypeInv, Next, NEW r \in Requests
  PROVE  \/ /\ \E i \in Instances : Arrival(r, i)
            /\ req'[r].inst = None /\ req[r].inst = None
         \/ /\ req'[r].op = req[r].op /\ req'[r].id = req[r].id
            /\ \/ req'[r].inst = req[r].inst
               \/ req[r].op # "provision" /\ req'[r].inst = conf[req[r].id]
               \/ req[r].op = "provision" /\ req[r].inst = None
<1>. USE DEF TypeInv, TypeOK, BrokerTypeOK, Handler, HandlerLocals
<1>. DEFINE Same(q) == req'[q].op = req[q].op /\ req'[q].id = req[q].id /\ req'[q].inst = req[q].inst
<1>1. CASE Same(r)
  BY <1>1
<1>2. ASSUME NEW q \in Requests, NEW i \in Instances, Arrival(q, i)
      PROVE  (q # r => Same(r)) /\ (q = r => req'[r].inst = None /\ req[r].inst = None)
  BY <1>2, ArrivalEffect DEF At
<1>3. ASSUME NEW q \in Requests, FindFreePort(q)
      PROVE  \/ Same(r)
             \/ /\ req'[r].op = req[r].op /\ req'[r].id = req[r].id
                /\ req[r].op = "provision" /\ req[r].inst = None
  BY <1>3 DEF FindFreePort, At, Counting, Reply
<1>4. ASSUME NEW q \in Requests, DestroyFind(q) \/ BindCredentials(q)
      PROVE  \/ Same(r)
             \/ /\ req'[r].op = req[r].op /\ req'[r].id = req[r].id
                /\ req[r].op # "provision" /\ req'[r].inst = conf[req[r].id]
  BY <1>4, SMTT(30) DEF DestroyFind, BindCredentials, At, Destroying, Reply
<1>5. ASSUME NEW q \in Requests, Create(q), ~FindFreePort(q)
      PROVE  Same(r)
  <2>1. CASE ListInstances(q) \/ CheckLimit(q) \/ \E i \in Instances : CountInstance(q, i)
    <3>1. CASE Reply(q, "error") \/ Reply(q, "limit")
      BY <3>1 DEF Reply
    <3>2. CASE \E i \in Instances : req' = [req EXCEPT ![q].todo = @ \ {i}, ![q].n = @ + 1]
      BY <3>2
    <3>3. CASE ListInstances(q) \/ req' = [req EXCEPT ![q].pc = "pick", ![q].n = 0]
      BY <3>3 DEF ListInstances
    <3>. QED  BY <2>1, <3>1, <3>2, <3>3 DEF CountInstance, CheckLimit
  <2>2. CASE SetupDataDir(q) \/ SetupLogDir(q) \/ SetupLock(q) \/ SetupTruncate(q) \/ SetupFill(q)
    BY <2>2, SMTT(30) DEF SetupDataDir, SetupLogDir, SetupLock, SetupTruncate, SetupFill, Goto, Reply
  <2>3. CASE StartFails(q) \/ WaitUntilConnectable(q) \/ UnlockInstance(q)
    BY <2>3, SMTT(30) DEF StartFails, WaitUntilConnectable, UnlockInstance, Goto, Reply
  <2>. QED  BY <1>5, <2>1, <2>2, <2>3 DEF Create
<1>6. ASSUME NEW q \in Requests, Destroy(q), ~DestroyFind(q)
      PROVE  Same(r)
  <2>1. CASE DestroyLock(q) \/ KillInstance(q) \/ Kill(q)
    BY <2>1, SMTT(30) DEF DestroyLock, KillInstance, Kill, Goto, Reply
  <2>2. CASE DeleteNames(q) \/ DeleteEntry(q)
    BY <2>2 DEF DeleteNames, DeleteEntry
  <2>3. CASE DeleteBaseDir(q) \/ DeleteLogDir(q) \/ DeletePidfile(q)
    BY <2>3, SMTT(30) DEF DeleteBaseDir, DeleteLogDir, DeletePidfile, Goto, Reply
  <2>. QED  BY <1>6, <2>1, <2>2, <2>3 DEF Destroy
<1>7. ASSUME NEW q \in Requests, HandlerStart(q) \/ CallFails(q)
      PROVE  Same(r)
  BY <1>7 DEF HandlerStart, Start, CallFails, Goto, Reply
<1>8. ASSUME BrokerExits
      PROVE  Same(r)
  <2>1. req'[r] = IF Active(r) THEN Answered(req[r], "aborted") ELSE req[r]
    BY <1>8, Zenon DEF BrokerExits, Answered
  <2>. QED  BY <2>1 DEF Answered
<1>9. MonitorNext \/ RedisNext => UNCHANGED req
  BY DEF MonitorNext, RedisNext, MonitorStep, MonitorRestart, RedisStep
<1>. HIDE DEF Same
<1>10. CASE \E q \in Requests : \E i \in Instances : Arrival(q, i)
  BY <1>1, <1>2, <1>10
<1>11. CASE \E q \in Requests : FindFreePort(q)
  BY <1>1, <1>3, <1>11
<1>12. CASE \E q \in Requests : DestroyFind(q) \/ BindCredentials(q)
  BY <1>1, <1>4, <1>12
<1>. QED
  BY <1>1, <1>5, <1>6, <1>7, <1>8, <1>9, <1>10, <1>11, <1>12, Zenon
  DEF Next, BrokerNext, HandlerStep, Handle, Same

\* A redis-server takes its credentials from redis.conf when it starts.
LEMMA ProcessSource ==
  ASSUME TypeInv, Next, NEW p \in Pids, proc'[p] # None
  PROVE  \/ /\ proc[p] # None
            /\ proc'[p].id = proc[p].id
            /\ proc'[p].port = proc[p].port
            /\ proc'[p].password = proc[p].password
            /\ Bound(p)' => Bound(p) \/ RedisListens(p)
         \/ /\ p \in FreePids /\ proc'[p].phase = "starting"
            /\ Readable(proc'[p].id) /\ proc'[p].id \in Instances
            /\ proc'[p].port = conf[proc'[p].id].port
            /\ proc'[p].password = conf[proc'[p].id].password
<1>. USE DEF TypeInv, TypeOK, HostTypeOK, hostVars, files
<1>1. CASE proc'[p] = proc[p]
  BY <1>1 DEF Bound
<1>2. ASSUME NEW i \in Instances, NEW q \in FreePids, Exec(i, q)
      PROVE  \/ proc'[p] = proc[p]
             \/ /\ p \in FreePids /\ proc'[p].phase = "starting"
                /\ Readable(i) /\ proc'[p].id = i
                /\ proc'[p].port = conf[i].port /\ proc'[p].password = conf[i].password
  BY <1>2 DEF Exec, FreePids
<1>3. ASSUME NEW r \in Requests, HandlerStart(r)
      PROVE  \E q \in FreePids : req[r].id \in Instances /\ Exec(req[r].id, q)
  BY <1>3 DEF HandlerStart, Start, At, HandlerLocals
<1>4. MonitorRestart => \E q \in FreePids : mon.id \in Instances /\ Exec(mon.id, q)
  BY DEF MonitorRestart, Restart, MonAt, MonitorLocals, Ensuring
<1>5. ASSUME NEW r \in Requests, Kill(r)
      PROVE  proc'[p] = proc[p]
  BY <1>5 DEF Kill, At, HandlerLocals
<1>6. ASSUME RedisNext
      PROVE  /\ proc[p] # None /\ proc'[p].id = proc[p].id
             /\ proc'[p].port = proc[p].port /\ proc'[p].password = proc[p].password
             /\ Bound(p)' => Bound(p) \/ RedisListens(p)
  <2>. PICK q \in Pids : RedisRuns(q) \/ RedisDies(q)
    BY <1>6 DEF RedisNext, RedisStep
  <2>1. CASE q # p
    BY <2>1 DEF RedisRuns, RedisListens, RedisCannotListen, RedisWritesPidfile, RedisLoaded,
         RedisDies, Bound
  <2>2. CASE q = p
    BY <2>2 DEF RedisRuns, RedisListens, RedisCannotListen, RedisWritesPidfile, RedisLoaded,
         RedisDies, Process, Bound
  <2>. QED  BY <2>1, <2>2
<1>7. ASSUME NEW r \in Requests, Create(r) \/ (Destroy(r) /\ ~Kill(r))
      PROVE  UNCHANGED proc
  BY <1>7, Zenon DEF Create, ListInstances, CountInstance, CheckLimit, FindFreePort, SetupDataDir,
       SetupLogDir, SetupLock, SetupTruncate, SetupFill, StartFails, WaitUntilConnectable,
       UnlockInstance, Destroy, DestroyFind, DestroyLock, KillInstance, DeleteNames,
       DeleteEntry, DeleteBaseDir, DeleteLogDir, DeletePidfile
<1>8. ASSUME BrokerNext, \A r \in Requests : ~Create(r) /\ ~Destroy(r) /\ ~HandlerStart(r)
      PROVE  UNCHANGED proc
  BY <1>8, Zenon DEF BrokerNext, Arrival, Provision, Deprovision, Bind, Unbind, Unimplemented, HandlerStep, Handle,
       BindCredentials, CallFails, BrokerExits
<1>9. MonitorNext /\ ~MonitorRestart => UNCHANGED proc
  BY Zenon DEF MonitorNext, MonitorStep, Monitors, MonStarts, MonLists, MonLoaded, MonLoads,
       CopyDataDir, CheckLock, CopyLogDir, CopyTruncate, CopyFill, CopiedAll, SweepDone,
       ReadPidfile, Ping, RemovePidfile, RestartFails, RestartWait, SignalUSR1, MonDies
<1>. QED
  BY <1>1, <1>2, <1>3, <1>4, <1>5, <1>6, <1>7, <1>8, <1>9, Zenon
  DEF Next, BrokerNext, HandlerStep, Handle, Bound

-----------------------------------------------------------------------------
(* The invariant: every copy was given to its instance by a Provision, and *)
(* (when clients do not reuse IDs) by a single one.                        *)

CopiesGiven == \A i \in Instances : \A x \in Copies(i) : Given(i, x)

OneProvision == \A r, q \in Requests : /\ req[r].op = "provision"
                                       /\ req[q].op = "provision"
                                       /\ req[r].id = req[q].id
                                       => r = q

\* What a Provision gave stays given.
LEMMA GivenStable ==
  ASSUME TypeInv, Next, NEW i \in Instances, NEW x \in Instance, Given(i, x)
  PROVE  Given(i, x)'
<1>1. PICK r \in Requests : req[r].op = "provision" /\ req[r].id = i /\ req[r].inst = x
  BY DEF Given
<1>2. x # None
  BY NoneAssumption
<1>3. req'[r].op = "provision" /\ req'[r].id = i /\ req'[r].inst = x
  BY <1>1, <1>2, HandlerSource
<1>. QED  BY <1>3 DEF Given

\* Every step takes its port and password from a copy that exists or from the
\* Provision that drew them.
LEMMA CopiesGivenKept == CopiesGiven /\ TypeInv /\ [Next]_vars => CopiesGiven'
<1>1. ASSUME CopiesGiven, TypeInv, Next, NEW i \in Instances, NEW x \in Copies(i)'
      PROVE  Given(i, x)'
  <2>1. x \in Instance /\ x # None /\ x \notin {NoFile, Torn}
    BY NoneAssumption, NoFileAssumption DEF Copies
  <2>2. SUFFICES x \in Copies(i) \/ Given(i, x)'
    BY <1>1, <2>1, GivenStable DEF CopiesGiven
  <2>3. CASE conf'[i] = x
    BY <1>1, <2>1, <2>3, ConfSource DEF Copies
  <2>4. CASE mon'.found[i] = x
    BY <1>1, <2>1, <2>4, MonitorSource DEF Copies
  <2>5. CASE mon'.id = i /\ mon'.inst = x
    BY <1>1, <2>1, <2>5, MonitorSource DEF Copies
  <2>6. ASSUME NEW r \in Requests, req'[r].id = i, req'[r].inst = x
        PROVE  x \in Copies(i) \/ Given(i, x)'
    <3>1. CASE req'[r].op = "provision"
      BY <2>6, <3>1 DEF Given
    <3>2. CASE req'[r].op # "provision"
      BY <1>1, <2>1, <2>6, <3>2, HandlerSource DEF Copies
    <3>. QED  BY <3>1, <3>2
  <2>7. ASSUME NEW p \in Pids, proc'[p] # None, proc'[p].id = i,
               proc'[p].port = x.port, proc'[p].password = x.password
        PROVE  x \in Copies(i)
    <3>1. CASE /\ proc[p] # None /\ proc[p].id = i
               /\ proc[p].port = x.port /\ proc[p].password = x.password
      BY <2>1, <3>1 DEF Copies
    <3>2. CASE Readable(i) /\ conf[i].port = x.port /\ conf[i].password = x.password
      <4>1. conf[i] \in Instance
        BY <1>1, <3>2 DEF Readable, TypeInv, TypeOK, HostTypeOK
      <4>2. conf[i] = x
        BY <2>1, <3>2, <4>1 DEF Instance
      <4>. QED  BY <2>1, <4>2 DEF Copies
    <3>. QED  BY <1>1, <2>7, <3>1, <3>2, ProcessSource
  <2>. QED  BY <1>1, <2>3, <2>4, <2>5, <2>6, <2>7 DEF Copies
<1>2. CopiesGiven /\ UNCHANGED vars => CopiesGiven'
  BY DEF vars, hostVars, CopiesGiven, Copies, Given
<1>. QED  BY <1>1, <1>2 DEF CopiesGiven

\* An ID that was used for a Provision is not used for another one.
LEMMA OneProvisionKept ==
  ASSUME UniqueIDs, OneProvision, TypeInv, [Next]_vars
  PROVE  OneProvision'
<1>1. CASE UNCHANGED vars
  BY <1>1 DEF vars, OneProvision
<1>2. CASE \E r \in Requests, i \in Instances : Arrival(r, i)
  <2>. PICK r \in Requests, i \in Instances : Arrival(r, i)
    BY <1>2
  <2>1. \A q \in Requests \ {r} : req'[q] = req[q]
    BY ArrivalEffect
  <2>2. req'[r].id = i /\ req'[r].op = "provision" =>
          \A q \in Requests : req[q].op = "provision" => req[q].id # i
    BY ArrivalEffect
  <2>3. req'[r].id = i
    BY ArrivalEffect
  <2>. QED  BY <2>1, <2>2, <2>3 DEF OneProvision
<1>3. CASE Next /\ ~\E r \in Requests, i \in Instances : Arrival(r, i)
  <2>1. ASSUME NEW r \in Requests
        PROVE  req'[r].op = req[r].op /\ req'[r].id = req[r].id
    BY <1>3, HandlerSource
  <2>. QED  BY <2>1 DEF OneProvision
<1>. QED  BY <1>1, <1>2, <1>3

\* At first there is no copy and no Provision.
LEMMA InitCredentials == Init => CopiesGiven /\ OneProvision
<1>1. ASSUME Init, NEW i \in Instances
      PROVE  Copies(i) = {}
  BY <1>1, NoneAssumption, NoFileAssumption
     DEF Init, HostInit, BrokerInit, MonitorInit, NoHandler, MonitorAt, NothingFound, Copies
<1>2. Init => OneProvision
  BY DEF Init, BrokerInit, NoHandler, OneProvision
<1>. QED  BY <1>1, <1>2 DEF CopiesGiven
-----------------------------------------------------------------------------
\* When clients use an instance ID for one Provision only, all copies of an
\* instance's port and password are the same for ever, through any number of
\* monitor restarts, crashes, and concurrent calls.
THEOREM CredentialsNeverChange == UniqueIDs => (Spec => []CredentialsStable)
<1>. SUFFICES ASSUME UniqueIDs
              PROVE  Spec => []CredentialsStable
  OBVIOUS
<1>1. Init => CopiesGiven /\ OneProvision
  BY InitCredentials
<1>2. CopiesGiven /\ OneProvision => CredentialsStable
  BY DEF CopiesGiven, OneProvision, CredentialsStable, Given
<1>3. TypeInv /\ CopiesGiven /\ OneProvision /\ [Next]_vars => CopiesGiven' /\ OneProvision'
  BY CopiesGivenKept, OneProvisionKept
<1>. QED  BY <1>1, <1>2, <1>3, TypeInvHolds, PTL DEF Spec

\* No two processes listen on one port: a daemon that finds it taken exits.
PortExclusive == \A p, q \in Pids : Bound(p) /\ Bound(q) /\ proc[p].port = proc[q].port => p = q

\* A redis-server takes a port that nobody holds.
LEMMA PortExclusiveKept == PortExclusive /\ TypeInv /\ [Next]_vars => PortExclusive'
<1>1. ASSUME PortExclusive, TypeInv, Next, NEW p \in Pids, NEW q \in Pids, p # q,
             Bound(p)', Bound(q)', proc'[p].port = proc'[q].port
      PROVE  FALSE
  <2>1. ASSUME NEW s \in Pids, RedisListens(s)
        PROVE  FALSE
    <3>1. /\ s # p => Bound(p) /\ proc'[p] = proc[p]
          /\ s # q => Bound(q) /\ proc'[q] = proc[q]
          /\ proc'[s].port = proc[s].port
          /\ ~Listening(proc[s].port)
      BY <1>1, <2>1 DEF RedisListens, Bound, TypeInv, TypeOK, HostTypeOK, Process
    <3>. QED  BY <1>1, <3>1 DEF PortExclusive, Listening
  <2>2. ASSUME ~\E s \in Pids : RedisListens(s), NEW s \in Pids, Bound(s)'
        PROVE  Bound(s) /\ proc'[s].port = proc[s].port
    BY <1>1, <2>2, ProcessSource DEF Bound
  <2>. QED  BY <1>1, <2>1, <2>2 DEF PortExclusive
<1>2. PortExclusive /\ UNCHANGED vars => PortExclusive'
  BY DEF vars, hostVars, PortExclusive, Bound
<1>. QED  BY <1>1, <1>2 DEF PortExclusive

\* When clients use an instance ID for one Provision only, an instance never
\* has two redis-servers that serve it.
THEOREM OneServer == UniqueIDs => (Spec => []OneServerPerInstance)
<1>. SUFFICES ASSUME UniqueIDs
              PROVE  Spec => []OneServerPerInstance
  OBVIOUS
<1>1. Init => PortExclusive
  BY DEF Init, HostInit, PortExclusive, Bound
<1>2. ASSUME TypeInv, PortExclusive, CredentialsStable
      PROVE  OneServerPerInstance
  <2>. SUFFICES ASSUME NEW p \in Pids, NEW q \in Pids, Bound(p), Bound(q),
                       proc[p].id = proc[q].id
                PROVE  p = q
    BY DEF OneServerPerInstance
  <2>. DEFINE C(s) == [port |-> proc[s].port, password |-> proc[s].password]
  <2>1. proc[p] \in Process /\ proc[q] \in Process
    BY <1>2 DEF Bound, TypeInv, TypeOK, HostTypeOK
  <2>2. C(p) \in Copies(proc[p].id) /\ C(q) \in Copies(proc[p].id) /\ proc[p].id \in Instances
    BY <2>1, NoneAssumption DEF Copies, Instance, Process, Bound
  <2>3. C(p) = C(q)
    BY <1>2, <2>2 DEF CredentialsStable
  <2>. QED  BY <1>2, <2>3 DEF PortExclusive
<1>. QED  BY <1>1, <1>2, PortExclusiveKept, CredentialsNeverChange, TypeInvHolds, PTL DEF Spec
=============================================================================

--------------------------- MODULE DedicatedProofs ---------------------------
(***************************************************************************)
(* The types of the dedicated VM, on which the proofs about backups rest   *)
(* as well, and what a reset promises, for every pair of redis.conf files, *)
(* any number of writes, calls and faults.                                 *)
(***************************************************************************)
EXTENDS Dedicated, TLAPS

\* What redis-server does on its own, and what clients and the resetter make
\* it do, keeps the types of its variables.
LEMMA RedisTypes ==
  ASSUME RedisTypeOK,
         \/ RedisSteps \/ EnableAOF
         \/ (Starts \/ Stops \/ BackgroundSave) /\ UNCHANGED <<live, environment>> /\ faults' \in Nat
  PROVE  RedisTypeOK'
<1> USE NoneAssumption, BoundsAssumption
<1> USE DEF RedisTypeOK, Snapshot, environment, redisVars, Fault, NoFault, Stored
<1> DEFINE Calm == UNCHANGED <<live, environment>> /\ faults' \in Nat
<1>1. CASE Dies
  BY <1>1 DEF Dies
<1>2. ASSUME Starts, Calm PROVE RedisTypeOK'
  <2>1. Loads \in Nat
    BY DEF Loads
  <2>2. appendonly' \in BOOLEAN /\ dirty' \in BOOLEAN /\ monitored' \in BOOLEAN
    BY <1>2, Zenon DEF Starts, AppendOnly
  <2>3. aof' \in Nat \cup {NoFile}
    BY <1>2, <2>1, Zenon DEF Starts
  <2>4. /\ up' = "loading" /\ server' = live /\ pid' = pid + 1 /\ script' = "none"
        /\ data' = Loads /\ saving' = None /\ lastsave' = time
        /\ UNCHANGED <<saves, rdb>>
    BY <1>2, Zenon DEF Starts
  <2> QED
    BY <1>2, <2>1, <2>2, <2>3, <2>4
<1>3. CASE MonitRestarts
  BY <1>2, <1>3 DEF MonitRestarts
<1>4. CASE Loaded
  BY <1>4 DEF Loaded
<1>5. CASE ScriptEnds
  BY <1>5 DEF ScriptEnds
<1>6. CASE Write
  BY <1>6 DEF Write
<1>7. ASSUME BackgroundSave, Calm PROVE RedisTypeOK'
  BY <1>7 DEF BackgroundSave
<1>8. CASE SaveDirective
  BY <1>7, <1>8 DEF SaveDirective
<1>9. CASE SaveEnds
  <2>1. dirty' \in BOOLEAN
    BY <1>9, Zenon DEF SaveEnds
  <2> QED
    BY <1>9, <2>1 DEF SaveEnds
<1>10. CASE Tick
  BY <1>10 DEF Tick
<1>11. CASE EnableAOF
  BY <1>11 DEF EnableAOF
<1>12. ASSUME Stops, Calm PROVE RedisTypeOK'
  <2>1. monitored' \in BOOLEAN
    BY <1>12, Zenon DEF Stops
  <2> QED
    BY <1>12, <2>1 DEF Stops
<1> QED
  BY <1>1, <1>2, <1>3, <1>4, <1>5, <1>6, <1>7, <1>8, <1>9, <1>10, <1>11, <1>12 DEF RedisSteps

\* A client is bound to a redis-server and has one alias for each command.
LEMMA ClientTypes ==
  ASSUME RedisTypeOK, NEW c \in Clients(live)
  PROVE  c \in Clientele
<1>1. CmdAliases(Aliases[live]) \subseteq UNION {CmdAliases(Aliases[conf]) : conf \in Confs}
  BY DEF RedisTypeOK
<1>2. (Speaks(Dialled(live), Tls(live)) /\ (Password(live) = <<>> => Password(server) = <<>>))
        \in BOOLEAN
  BY DEF Speaks
<1> QED
  BY <1>1, <1>2, Zenon DEF Clients, Clientele, RedisTypeOK

\* No step of a reset takes a variable out of its type.
LEMMA ResetTypes ==
  ASSUME RedisTypeOK, ResetTypeOK, Connect \/ ResetSteps \/ Killed
  PROVE  RedisTypeOK' /\ ResetTypeOK'
<1> DEFINE Calm == UNCHANGED redisVars /\ faults' \in Nat /\ asked' \in Nat
                   /\ live' \in Confs /\ UNCHANGED <<default, time, writes>>
<1>0. ASSUME Calm PROVE RedisTypeOK'
  BY <1>0 DEF RedisTypeOK, redisVars, Snapshot
<1>1. Fault => faults' \in Nat
  BY DEF RedisTypeOK, Fault
<1>2. NoFault => faults' \in Nat
  BY DEF RedisTypeOK, NoFault
<1>3. ASSUME NEW s \in Resetting, Goes(s) PROVE ResetTypeOK'
  BY <1>3 DEF ResetTypeOK, Goes, progress
<1>4. ASSUME NEW h \in {"failed", "idle"}, Ends(h) PROVE ResetTypeOK'
  BY <1>4 DEF ResetTypeOK, Ends
<1>5. CASE Connect
  <2>1. Calm
    BY <1>1, <1>2, <1>5 DEF Connect, Begins, Call, RedisTypeOK
  <2>2. started' \in [ready : BOOLEAN, faults : Nat]
    <3>1. Resettable \in BOOLEAN
      BY DEF Resettable
    <3> QED
      BY <1>5, <3>1, Zenon DEF Connect, Begins, RedisTypeOK
  <2>3. reset' \in {"kill", "failed"} /\ conn' \in Nat \cup {None}
    BY <1>5 DEF Connect, RedisTypeOK
  <2> QED
    BY <1>0, <1>5, <2>1, <2>2, <2>3 DEF Connect, Begins, ResetTypeOK, Resetting
<1>6. CASE killScript
  <2>1. CASE /\ script' = "none" /\ Goes("stop") /\ NoFault
             /\ UNCHANGED <<up, server, pid, appendonly, data, dirty, saving, saves, lastsave,
                            aof, rdb, monitored>>
    <3>1. ResetTypeOK'
      BY <1>3, <2>1 DEF Resetting
    <3>2. UNCHANGED <<live, environment>>
      BY <1>6 DEF killScript
    <3> QED
      BY <1>2, <2>1, <3>1, <3>2 DEF RedisTypeOK, environment
  <2>2. CASE Ends("failed") /\ UNCHANGED redisVars /\ (NoFault \/ Fault)
    BY <1>0, <1>1, <1>2, <1>4, <1>6, <2>2 DEF killScript, RedisTypeOK, environment
  <2> QED
    BY <1>6, <2>1, <2>2 DEF killScript, Fails
<1>7. CASE stopRedis
  <2>1. CASE Stopped /\ reset' \in {"rmaof", "failed"} /\ (NoFault \/ Fault)
    <3>1. RedisTypeOK'
      BY RedisTypes, <1>1, <1>2, <1>7, <2>1, SMTT(30) DEF stopRedis, Stopped
    <3> QED
      BY <1>7, <2>1, <3>1 DEF Stopped, ResetTypeOK, Resetting, RedisTypeOK
  <2>2. CASE Fails
    BY <1>0, <1>1, <1>4, <1>7, <2>2, SMTT(30) DEF stopRedis, Fails, RedisTypeOK, environment
  <2> QED
    BY <1>7, <2>1, <2>2 DEF stopRedis
<1>8. CASE removeAOF
  <2>1. ResetTypeOK'
    BY <1>3, <1>4, <1>8 DEF removeAOF, Resetting
  <2> QED
    BY <1>1, <1>2, <1>8, <2>1 DEF removeAOF, Removes, RedisTypeOK, environment, Snapshot
<1>9. CASE removeRDB
  <2>1. kept' \in BOOLEAN
    BY <1>9, Zenon DEF removeRDB
  <2>2. ResetTypeOK'
    BY <1>9, <2>1 DEF removeRDB, ResetTypeOK, Resetting
  <2> QED
    BY <1>1, <1>2, <1>9, <2>2 DEF removeRDB, Removes, RedisTypeOK, environment, Snapshot
<1>10. CASE truncateConfig \/ resetConfig
  <2>1. <<>> \in Confs
    BY DEF Confs
  <2>2. Calm
    BY <1>1, <1>2, <1>10, <2>1 DEF truncateConfig, resetConfig, RedisTypeOK, environment
  <2> QED
    BY <1>0, <1>3, <1>4, <1>10, <2>2 DEF truncateConfig, resetConfig, Resetting
<1>11. CASE startRedis
  <2>1. CASE Starts /\ (NoFault \/ Fault)
    BY RedisTypes, <1>1, <1>2, <1>3, <1>4, <1>11, <2>1 DEF startRedis, Resetting, Fails
  <2>2. CASE Fails
    BY <1>0, <1>1, <1>4, <1>11, <2>2 DEF startRedis, Fails, RedisTypeOK, environment
  <2> QED
    BY <1>11, <2>1, <2>2 DEF startRedis
<1>12. CASE checkPort
  <2>1. Calm
    BY <1>1, <1>2, <1>12 DEF checkPort, Fails, RedisTypeOK, environment
  <2>2. CASE Ends("failed")
    BY <1>0, <1>4, <2>1, <2>2, SMTT(30)
  <2>3. CASE Succeeds
    BY <1>0, <2>1, <2>3 DEF Succeeds, ResetTypeOK, Resetting
  <2> QED
    BY <1>12, <2>2, <2>3 DEF checkPort, Fails
<1>13. CASE Killed
  BY <1>0, <1>1, <1>4, <1>13, SMTT(30) DEF Killed, RedisTypeOK, environment
<1> QED
  BY <1>5, <1>6, <1>7, <1>8, <1>9, <1>10, <1>11, <1>12, <1>13 DEF ResetSteps

\* No step of a backup takes a variable out of its type.
LEMMA BackupTypes ==
  ASSUME RedisTypeOK, BackupTypeOK, NEW b \in Backups,
         ConnectClient(b) \/ BackupSteps(b)
  PROVE  RedisTypeOK' /\ BackupTypeOK'
<1> DEFINE PCs == Snapshotting \cup Pipeline \cup {"ok", "failed"}
<1> DEFINE Calm == /\ UNCHANGED <<redisVars, live, default, time, writes>>
                   /\ faults' \in Nat /\ asked' \in Nat
<1> DEFINE Kept == UNCHANGED store
<1>0. ASSUME Calm PROVE RedisTypeOK'
  BY <1>0 DEF RedisTypeOK, redisVars
<1>1. (Fault => faults' \in Nat) /\ (NoFault => faults' \in Nat)
  BY DEF RedisTypeOK, Fault, NoFault
<1>2. backup \in [Backups -> BackupState] /\ backup[b] \in BackupState
  BY DEF BackupTypeOK
<1>3. ASSUME NEW r \in BackupState, backup' = [backup EXCEPT ![b] = r]
      PROVE  backup' \in [Backups -> BackupState]
  BY <1>2, <1>3
<1>4. Fresh \in BackupState
  BY DEF Fresh, BackupState, Snapshotting
<1>5. BFails(b) => backup' \in [Backups -> BackupState]
  <2>1. [Fresh EXCEPT !.pc = "failed"] \in BackupState
    BY <1>4 DEF BackupState
  <2> QED
    BY <1>3, <2>1, Zenon DEF BFails
<1>6. ASSUME NEW c \in {None, RENAME, GETORCREATE, COPY}, Breaks(b, c)
      PROVE  backup' \in [Backups -> BackupState]
  <2>1. [Fresh EXCEPT !.pc = "failed", !.cause = c] \in BackupState
    BY <1>4, Zenon DEF BackupState
  <2> QED
    BY <1>3, <1>6, <2>1, Zenon DEF Breaks
<1>7. ASSUME NEW p \in PCs, BGoes(b, p) PROVE backup' \in [Backups -> BackupState]
  <2>1. [backup[b] EXCEPT !.pc = p] \in BackupState
    BY <1>2 DEF BackupState
  <2> QED
    BY <1>2, <1>7, <2>1 DEF BGoes
<1>8. Kept /\ backup' \in [Backups -> BackupState] => BackupTypeOK'
  BY DEF BackupTypeOK, store
<1>9. Quiet => Calm /\ Kept
  BY DEF Quiet, RedisTypeOK, environment
<1>10. CASE ConnectClient(b)
  <2>1. Calm /\ Kept
    BY <1>10 DEF ConnectClient, Call, RedisTypeOK
  <2>2. ASSUME NEW c \in Clients(live),
               backup' = [backup EXCEPT ![b].pc = "loading", ![b].client = c]
        PROVE  backup' \in [Backups -> BackupState]
    <3>1. c \in Clientele
      BY ClientTypes
    <3>2. [backup[b] EXCEPT !.pc = "loading", !.client = c] \in BackupState
      BY <1>2, <3>1, Zenon DEF BackupState, Snapshotting
    <3> QED
      BY <1>2, <2>2, <3>2
  <2> QED
    BY <1>0, <1>5, <1>8, <1>10, <2>1, <2>2 DEF ConnectClient
<1>11. CASE WaitUntilRedisNotLoading(b) \/ WaitForNewSaveSince(b) \/ RDBPath(b)
  <2>1. Quiet /\ (BFails(b) \/ BGoes(b, "lastsave") \/ BGoes(b, "path") \/ BGoes(b, "rename"))
    BY <1>11 DEF WaitUntilRedisNotLoading, WaitForNewSaveSince, RDBPath
  <2> QED
    BY <1>0, <1>5, <1>7, <1>8, <1>9, <2>1 DEF Snapshotting, Pipeline
<1>12. CASE LastRDBSaveTime(b)
  <2> DEFINE read == [saves |-> saves, data |-> data, saving |-> saving # None]
  <2>1. read \in Reading
    BY Zenon DEF Reading, RedisTypeOK
  <2>2. [backup[b] EXCEPT !.pc = "bgsave", !.since = lastsave, !.read = read] \in BackupState
    <3> HIDE DEF read
    <3> QED
      BY <1>2, <2>1, Zenon DEF BackupState, Snapshotting, RedisTypeOK
  <2>3. backup' \in [Backups -> BackupState]
    BY <1>2, <1>5, <1>12, <2>2, Zenon DEF LastRDBSaveTime
  <2> QED
    BY <1>0, <1>8, <1>9, <1>12, <2>3 DEF LastRDBSaveTime
<1>13. CASE RunBGSave(b)
  <2>1. RedisTypeOK'
    BY <1>0, <1>13, RedisTypes DEF RunBGSave, RedisTypeOK, environment
  <2>2. backup' \in [Backups -> BackupState]
    BY <1>5, <1>7, <1>13 DEF RunBGSave, Snapshotting
  <2> QED
    BY <1>8, <1>13, <2>1, <2>2, SMTT(30) DEF RunBGSave
<1>14. CASE rename(b)
  <2>1. faults' \in Nat /\ rdb' \in Snapshot \cup {NoFile}
    BY <1>1, <1>14 DEF rename, RedisTypeOK
  <2>2. RedisTypeOK'
    BY <1>14, <2>1 DEF rename, RedisTypeOK, environment
  <2>3. target' \in Snapshot \cup {NoFile} /\ bucket' = bucket
    BY <1>14 DEF rename, RedisTypeOK, BackupTypeOK
  <2>4. CASE backup' = [backup EXCEPT ![b].pc = "bucket", ![b].path = "target",
                                      ![b].took = rdb, ![b].same = (client(b).pid = pid)]
    <3> DEFINE same == client(b).pid = pid
    <3>1. same \in BOOLEAN
      OBVIOUS
    <3>2. [backup[b] EXCEPT !.pc = "bucket", !.path = "target", !.took = rdb, !.same = same]
            \in BackupState
      <4> HIDE DEF same
      <4> QED
        BY <1>2, <3>1, Zenon DEF BackupState, Pipeline, RedisTypeOK
    <3>3. backup' \in [Backups -> BackupState]
      BY <1>2, <2>4, <3>2
    <3> QED
      BY <2>2, <2>3, <3>3 DEF BackupTypeOK
  <2>5. CASE Breaks(b, RENAME)
    BY <1>6, <2>2, <2>3, <2>5 DEF BackupTypeOK
  <2> QED
    BY <1>14, <2>4, <2>5 DEF rename
<1>15. CASE createBucket(b)
  <2>1. Calm /\ target' = target
    BY <1>1, <1>15 DEF createBucket, GetOrCreateBucket, RedisTypeOK, environment
  <2>2. bucket' \in {None, "us", "others"}
    BY <1>15 DEF createBucket, GetOrCreateBucket, BackupTypeOK
  <2>3. BGoes(b, "upload") \/ Breaks(b, GETORCREATE)
    BY <1>15 DEF createBucket, GetOrCreateBucket
  <2>4. backup' \in [Backups -> BackupState]
    BY <1>6, <1>7, <2>3 DEF Pipeline
  <2> QED
    BY <1>0, <2>1, <2>2, <2>4, SMTT(30) DEF BackupTypeOK
<1>16. CASE uploadToBucket(b)
  <2>1. Calm /\ Kept
    BY <1>1, <1>16 DEF uploadToBucket, Upload, RedisTypeOK, environment, store
  <2>2. CASE backup' = [backup EXCEPT ![b].pc = "ok", ![b].got = Content(backup[b].path),
                                      ![b].client = None]
    <3>1. PICK f \in Snapshot \cup {NoFile} : f = Content(backup[b].path)
      BY DEF Content, BackupTypeOK, RedisTypeOK
    <3>2. [backup[b] EXCEPT !.pc = "ok", !.got = f, !.client = None] \in BackupState
      BY <1>2, Zenon DEF BackupState
    <3> QED
      BY <1>0, <1>2, <1>8, <2>1, <2>2, <3>1, <3>2
  <2>3. CASE Breaks(b, COPY)
    BY <1>0, <1>6, <1>8, <2>1, <2>3
  <2> QED
    BY <1>16, <2>2, <2>3 DEF uploadToBucket, Upload
<1> QED
  BY <1>10, <1>11, <1>12, <1>13, <1>14, <1>15, <1>16, SMTT(30) DEF BackupSteps, Run

\* The VM starts well-typed.
LEMMA InitTypes == Init => TypeOK
<1> SUFFICES ASSUME Init PROVE TypeOK
  OBVIOUS
<1>1. RedisTypeOK
  <2>1. PICK d \in Deployments : default = d.default /\ live = d.live /\ script = d.script
    BY DEF Init, RedisInit
  <2>2. /\ default \in Confs \ {<<>>} /\ live \in Confs /\ server \in Confs
        /\ script \in {"none", "busy", "stuck"}
    BY <2>1, DeploymentsAssumption DEF Init, RedisInit, Confs
  <2>3. appendonly \in BOOLEAN /\ dirty \in BOOLEAN /\ monitored \in BOOLEAN
    BY Zenon DEF Init, RedisInit, AppendOnly
  <2> QED
    BY <2>2, <2>3, BoundsAssumption DEF Init, RedisInit, RedisTypeOK
<1>2. ResetTypeOK
  BY BoundsAssumption, Zenon DEF Init, ResetInit, ResetTypeOK
<1>3. BackupTypeOK
  <2>1. Fresh \in BackupState
    BY DEF Fresh, BackupState, Snapshotting
  <2> QED
    BY <2>1 DEF Init, BackupInit, BackupTypeOK
<1> QED
  BY <1>1, <1>2, <1>3 DEF TypeOK

\* Every step keeps the types.
LEMMA NextTypes == TypeOK /\ [Next]_vars => TypeOK'
<1> SUFFICES ASSUME TypeOK, [Next]_vars PROVE TypeOK'
  OBVIOUS
<1> USE DEF TypeOK
<1>1. UNCHANGED resetVars => ResetTypeOK'
  BY DEF ResetTypeOK, resetVars
<1>2. UNCHANGED backupVars => BackupTypeOK'
  BY DEF BackupTypeOK, backupVars
<1>3. CASE RedisStep \/ ClientStep
  BY <1>1, <1>2, <1>3, RedisTypes DEF RedisStep, ClientStep
<1>4. CASE ResetStarts \/ ResetStep \/ ResetKilled
  BY <1>2, <1>4, ResetTypes DEF ResetStarts, ResetStep, ResetKilled
<1>5. ASSUME NEW b \in Backups, BackupStarts(b) \/ BackupStep(b) PROVE TypeOK'
  BY <1>1, <1>5, BackupTypes, SMTT(30) DEF BackupStarts, BackupStep
<1>6. CASE UNCHANGED vars
  BY <1>1, <1>2, <1>6 DEF vars, RedisTypeOK, environment, redisVars
<1> QED
  BY <1>3, <1>4, <1>5, <1>6 DEF Next

\* Every variable of a dedicated VM keeps its type, whatever backups, resets,
\* clients and faults do.
THEOREM TypeCorrect == Spec => []TypeOK
BY InitTypes, NextTypes, PTL DEF Spec


-----------------------------------------------------------------------------
(* redis.conf *)

\* While ResetRedis works on the files monit does not start redis; a truncated
\* redis.conf is there only while monit does not.
TornInv ==
  /\ ~monitored => up = "down"
  /\ reset \in {"rmaof", "rmrdb", "load", "save", "start"} => ~monitored
  /\ live = <<>> => ~monitored /\ reset \in {"save", "idle", "failed"}
  /\ reset \in {"start", "check"} => live = default
  /\ up = "down" => saving = None
  /\ NeverOnTornConf

\* What a backup, or a step that changes nothing, does to redis and to resets:
\* it starts a save, and it moves dump.rdb away.
LEMMA BackupEffect ==
  ASSUME RedisTypeOK,
         UNCHANGED vars \/ \E b \in Backups : BackupStarts(b) \/ BackupStep(b)
  PROVE  /\ UNCHANGED <<resetVars, live, default, writes, up, server, pid, script,
                        appendonly, data, aof, monitored>>
         /\ rdb' \in {rdb, NoFile}
         /\ saving' = saving \/ (up = "ready" /\ saving' = data)
         /\ faults' \in Nat /\ faults' <= faults
<1> USE DEF environment, redisVars, RedisTypeOK
<1>1. CASE UNCHANGED vars
  BY <1>1 DEF vars
<1>2. ASSUME NEW b \in Backups, BackupStarts(b) \/ BackupStep(b)
      PROVE  /\ UNCHANGED <<resetVars, live, default, writes, up, server, pid, script,
                            appendonly, data, aof, monitored>>
             /\ rdb' \in {rdb, NoFile}
             /\ saving' = saving \/ (up = "ready" /\ saving' = data)
             /\ faults' \in Nat /\ faults' <= faults
  <2>1. UNCHANGED resetVars
    BY <1>2 DEF BackupStarts, BackupStep
  <2>2. CASE ConnectClient(b)
    BY <2>1, <2>2 DEF ConnectClient
  <2>3. CASE Quiet
    BY <2>1, <2>3 DEF Quiet
  <2>4. CASE RunBGSave(b)
    BY <2>1, <2>4 DEF RunBGSave, BackgroundSave
  <2>5. CASE rename(b)
    BY <2>1, <2>5 DEF rename, Fault, NoFault
  <2>6. CASE createBucket(b)
    BY <2>1, <2>6 DEF createBucket, GetOrCreateBucket, Fault, NoFault
  <2>7. CASE uploadToBucket(b)
    BY <2>1, <2>7 DEF uploadToBucket, Upload, Fault, NoFault
  <2> QED
    BY <1>2, <2>2, <2>3, <2>4, <2>5, <2>6, <2>7, Zenon
    DEF BackupStarts, BackupStep, BackupSteps, Run, WaitUntilRedisNotLoading, LastRDBSaveTime,
        WaitForNewSaveSince, RDBPath
<1> QED
  BY <1>1, <1>2

\* TornInv is inductive.
LEMMA TornStep == TypeOK /\ TornInv /\ [Next]_vars => TornInv'
<1> SUFFICES ASSUME TypeOK, TornInv, [Next]_vars PROVE TornInv'
  OBVIOUS
<1> USE DEF TypeOK, environment, redisVars, resetVars, progress
<1>1. CASE UNCHANGED vars \/ \E b \in Backups : BackupStarts(b) \/ BackupStep(b)
  BY <1>1, BackupEffect DEF TornInv, NeverOnTornConf
<1>2. CASE RedisStep
  <2> USE <1>2 DEF RedisStep, TornInv, NeverOnTornConf
  <2>1. CASE Dies
    BY <2>1 DEF Dies
  <2>2. CASE MonitRestarts
    BY <2>2 DEF MonitRestarts, Starts
  <2>3. CASE Loaded \/ ScriptEnds \/ Write \/ Tick
    BY <2>3 DEF Loaded, ScriptEnds, Write, Tick
  <2>4. CASE SaveDirective
    BY <2>4 DEF SaveDirective, BackgroundSave
  <2>5. CASE SaveEnds
    BY <2>5 DEF SaveEnds
  <2> QED
    BY <2>1, <2>2, <2>3, <2>4, <2>5 DEF RedisSteps
<1>3. CASE ClientStep
  BY <1>3 DEF ClientStep, EnableAOF, TornInv, NeverOnTornConf
<1>4. CASE ResetStarts
  <2>1. Connectable => live # <<>>
    BY DEF Connectable, Accepts, TornInv
  <2> QED
    BY <1>4, <2>1 DEF ResetStarts, Connect, Begins, TornInv, NeverOnTornConf, Resetting
<1>5. CASE ResetStep
  <2> USE <1>5 DEF TornInv, NeverOnTornConf, Goes, Ends, Fails
  <2>1. CASE killScript
    BY <2>1 DEF killScript
  <2>2. CASE stopRedis
    BY <2>2 DEF stopRedis, Stopped, Stops
  <2>3. CASE removeAOF
    BY <2>3 DEF removeAOF, Removes
  <2>4. CASE removeRDB
    BY <2>4 DEF removeRDB, Removes
  <2>5. CASE truncateConfig
    BY <2>5 DEF truncateConfig, RedisTypeOK
  <2>6. CASE resetConfig
    BY <2>6 DEF resetConfig, RedisTypeOK
  <2>7. CASE startRedis
    BY <2>7 DEF startRedis, Starts, RedisTypeOK
  <2>8. CASE checkPort
    BY <2>8 DEF checkPort, Succeeds
  <2> QED
    BY <2>1, <2>2, <2>3, <2>4, <2>5, <2>6, <2>7, <2>8 DEF ResetStep, ResetSteps
<1>6. CASE ResetKilled
  BY <1>6 DEF ResetKilled, Killed, Ends, TornInv, NeverOnTornConf, Resetting
<1> QED
  BY <1>1, <1>2, <1>3, <1>4, <1>5, <1>6 DEF Next

\* redis-server never runs on the redis.conf that Save has truncated and not
\* written yet, however a reset ends and whatever monit does.
THEOREM TornConfUnused == Spec => [](TornInv /\ NeverOnTornConf)
<1>1. Init => TornInv
  BY DeploymentsAssumption, InitTypes
  DEF Init, RedisInit, ResetInit, TornInv, NeverOnTornConf
<1>2. TornInv => NeverOnTornConf
  BY DEF TornInv
<1> QED
  BY <1>1, <1>2, TornStep, TypeCorrect, PTL DEF Spec

-----------------------------------------------------------------------------
(* Data *)

Safe(d, m) == d = 0 \/ d > m

\* Nothing that redis holds, or may load, was written up to m; k says that
\* dump.rdb was not removed
Holds(m, k) == /\ Safe(data, m)
               /\ saving # None => Safe(saving, m)
               /\ aof # NoFile => Safe(aof, m)
               /\ ~k /\ rdb # NoFile => Safe(rdb.data, m)

Clean(m, k) == (k => AppendOnly(default)) => Holds(m, k)

ForgetInv ==
  /\ mark <= writes
  /\ reset \in {"rmrdb", "load", "save", "start"} => aof = NoFile
  /\ reset \in {"load", "save", "start"} /\ ~kept => rdb = NoFile
  /\ reset = "check" => Clean(mark, kept)
  /\ cleared # None => /\ cleared.mark <= writes /\ live \in {default, <<>>}
                       /\ Clean(cleared.mark, cleared.kept)

\* The default redis.conf stays as it is.
LEMMA DefaultStays == ASSUME RedisTypeOK, [Next]_vars PROVE default' = default
<1> USE DEF environment
<1>1. CASE UNCHANGED vars \/ \E b \in Backups : BackupStarts(b) \/ BackupStep(b)
  BY <1>1, BackupEffect
<1>2. CASE RedisStep \/ ClientStep
  BY <1>2 DEF RedisStep, ClientStep, RedisSteps, Dies, MonitRestarts, Loaded, ScriptEnds,
              Write, SaveDirective, SaveEnds, Tick, EnableAOF
<1>3. CASE ResetStarts \/ ResetStep \/ ResetKilled
  BY <1>3 DEF ResetStarts, Connect, Begins, ResetStep, ResetSteps, killScript, stopRedis,
              removeAOF, removeRDB, Removes, truncateConfig, resetConfig, startRedis,
              checkPort, ResetKilled, Killed
<1> QED
  BY <1>1, <1>2, <1>3 DEF Next

\* Once redis is clean it stays so as long as the default redis.conf is live:
\* what it loads, saves and appends is clean, and new writes come later.
LEMMA CleanStep ==
  ASSUME TypeOK, TornInv, [Next]_vars, NEW m \in Nat, NEW k \in BOOLEAN,
         m <= writes, live \in {default, <<>>}, Clean(m, k)
  PROVE  Clean(m, k)'
<1> USE NoneAssumption DEF TypeOK, environment, redisVars
<1>0. SUFFICES ASSUME k => AppendOnly(default), Holds(m, k) PROVE Holds(m, k)'
  BY DefaultStays, SMTT(30) DEF Clean
<1>1. CASE UNCHANGED vars \/ \E b \in Backups : BackupStarts(b) \/ BackupStep(b)
  BY <1>0, <1>1, BackupEffect DEF Holds
<1>2. ASSUME Starts, live = default PROVE Holds(m, k)'
  <2>1. Safe(Loads, m)
    <3>1. CASE AppendOnly(live)
      BY <1>0, <3>1 DEF Loads, Holds, Safe
    <3>2. CASE ~AppendOnly(live)
      BY <1>0, <1>2, <3>2 DEF Loads, Holds, Safe
    <3> QED
      BY <3>1, <3>2
  <2>2. /\ data' = Loads /\ saving' = None /\ rdb' = rdb /\ (aof' = Loads \/ aof' = aof)
    BY <1>2 DEF Starts
  <2> QED
    BY <1>0, <2>1, <2>2 DEF Holds, Safe
<1>3. CASE RedisStep
  <2> USE <1>0 DEF Holds
  <2>1. CASE Dies
    <3>1. /\ data' = data /\ aof' = aof /\ saving' = None
          /\ rdb' = rdb \/ (saving # None /\ rdb' = [data |-> saving, n |-> saves + 1])
      BY <2>1, Zenon DEF Dies, Stored
    <3> QED
      BY <3>1
  <2>2. CASE MonitRestarts
    BY <1>2, <2>2, Zenon DEF MonitRestarts, TornInv
  <2>3. CASE Loaded \/ ScriptEnds \/ Tick
    BY <2>3 DEF Loaded, ScriptEnds, Tick
  <2>4. CASE Write
    BY <2>4 DEF Write, RedisTypeOK, Safe
  <2>5. CASE SaveDirective
    BY <2>5 DEF SaveDirective, BackgroundSave
  <2>6. CASE SaveEnds
    BY <2>6 DEF SaveEnds, Stored
  <2> QED
    BY <1>3, <2>1, <2>2, <2>3, <2>4, <2>5, <2>6, SMTT(30) DEF RedisStep, RedisSteps
<1>4. CASE ClientStep
  BY <1>0, <1>4 DEF ClientStep, EnableAOF, Holds
<1>5. CASE ResetStarts \/ ResetKilled
  BY <1>0, <1>5 DEF ResetStarts, Connect, ResetKilled, Killed, Holds
<1>6. CASE ResetStep
  <2> USE <1>0
  <2>1. CASE UNCHANGED <<data, saving, aof, rdb>>
    BY <2>1, SMTT(30) DEF Holds
  <2>2. CASE stopRedis
    <3>1. CASE Fails
      BY <2>1, <3>1, Zenon DEF Fails
    <3>2. CASE Stopped
      <4>1. /\ data' = data /\ aof' = aof /\ saving' = None
            /\ rdb' = rdb \/ rdb' = [data |-> data, n |-> saves + 1]
        BY <3>2, Zenon DEF Stopped, Stops, Stored
      <4> QED
        BY <4>1 DEF Holds
    <3> QED
      BY <2>2, <3>1, <3>2, Zenon DEF stopRedis
  <2>3. CASE removeAOF
    BY <2>3, Zenon DEF removeAOF, Removes, Holds
  <2>4. CASE removeRDB
    BY <2>4, Zenon DEF removeRDB, Removes, Holds
  <2>5. CASE startRedis
    BY <1>2, <2>1, <2>5 DEF startRedis, Fails, TornInv
  <2> QED
    BY <1>6, <2>1, <2>2, <2>3, <2>4, <2>5, Zenon
    DEF ResetStep, ResetSteps, killScript, Fails, truncateConfig, resetConfig, checkPort
<1> QED
  BY <1>1, <1>3, <1>4, <1>5, <1>6 DEF Next

\* ForgetInv is inductive.
LEMMA ForgetStep == TypeOK /\ TornInv /\ ForgetInv /\ [Next]_vars => ForgetInv'
<1> SUFFICES ASSUME TypeOK, TornInv, ForgetInv, [Next]_vars PROVE ForgetInv'
  OBVIOUS
<1> DEFINE Files == /\ mark <= writes
                    /\ reset \in {"rmrdb", "load", "save", "start"} => aof = NoFile
                    /\ reset \in {"load", "save", "start"} /\ ~kept => rdb = NoFile
           Past == cleared # None => cleared.mark <= writes /\ live \in {default, <<>>}
<1> USE DEF TypeOK, environment, redisVars, resetVars, progress
<1>1. Files' /\ Past'
  <2> USE DEF ForgetInv
  <2>1. CASE UNCHANGED vars \/ \E b \in Backups : BackupStarts(b) \/ BackupStep(b)
    BY <2>1, BackupEffect
  <2>2. CASE RedisStep
    <3> USE <2>2 DEF RedisStep
    <3>1. CASE Dies
      BY <3>1 DEF Dies, TornInv
    <3>2. CASE MonitRestarts
      BY <3>2 DEF MonitRestarts, Starts, TornInv
    <3>3. CASE Loaded \/ ScriptEnds \/ Tick
      BY <3>3 DEF Loaded, ScriptEnds, Tick
    <3>4. CASE Write
      BY <3>4 DEF Write, TornInv, RedisTypeOK, ResetTypeOK
    <3>5. CASE SaveDirective \/ SaveEnds
      BY <3>5 DEF SaveDirective, BackgroundSave, SaveEnds, TornInv
    <3> QED
      BY <3>1, <3>2, <3>3, <3>4, <3>5 DEF RedisSteps
  <2>3. CASE ClientStep
    <3>1. up # "down"
      BY <2>3 DEF ClientStep, EnableAOF, ConnectSucceeds, Accepts
    <3> QED
      BY <2>3, <3>1 DEF ClientStep, EnableAOF, TornInv
  <2>4. CASE ResetStarts
    BY <2>4 DEF ResetStarts, Connect, Begins
  <2>5. CASE ResetStep
    <3> USE <2>5 DEF Goes, Ends, Fails
    <3>1. CASE killScript
      BY <3>1 DEF killScript
    <3>2. CASE stopRedis
      BY <3>2 DEF stopRedis, Stopped, RedisTypeOK
    <3>3. CASE removeAOF
      BY <3>3 DEF removeAOF, Removes
    <3>4. CASE removeRDB
      BY <3>4 DEF removeRDB, Removes
    <3>5. CASE truncateConfig \/ resetConfig
      BY <3>5 DEF truncateConfig, resetConfig
    <3>6. CASE startRedis
      BY <3>6 DEF startRedis
    <3>7. CASE checkPort
      BY <3>7 DEF checkPort, Succeeds, TornInv
    <3> QED
      BY <3>1, <3>2, <3>3, <3>4, <3>5, <3>6, <3>7 DEF ResetStep, ResetSteps
  <2>6. CASE ResetKilled
    BY <2>6 DEF ResetKilled, Killed, Ends
  <2> QED
    BY <2>1, <2>2, <2>3, <2>4, <2>5, <2>6 DEF Next
<1>2. ASSUME NEW m \in Nat, NEW k \in BOOLEAN,
             m <= writes, live \in {default, <<>>}, Clean(m, k)
      PROVE  Clean(m, k)'
  BY <1>2, CleanStep
<1>3. \/ UNCHANGED <<mark, kept>> /\ (reset' = "check" => reset = "check")
      \/ reset' # "check"
      \/ reset = "start" /\ Starts /\ UNCHANGED <<mark, kept, live, default>>
  BY BackupEffect, Zenon
  DEF Next, vars, RedisStep, ClientStep, ResetStarts, Connect, ResetKilled, Killed, Ends,
      ResetStep, ResetSteps, killScript, Goes, Fails, stopRedis, removeAOF, removeRDB,
      truncateConfig, resetConfig, startRedis, checkPort, Succeeds
<1>4. cleared' = cleared \/ (reset = "check" /\ cleared' = [mark |-> mark, kept |-> kept])
  BY BackupEffect, Zenon
  DEF Next, vars, RedisStep, ClientStep, ResetStarts, Connect, Begins, ResetKilled, Killed,
      Ends, ResetStep, ResetSteps, killScript, Goes, Fails, stopRedis, Stopped, removeAOF,
      removeRDB, truncateConfig, resetConfig, startRedis, checkPort, Succeeds
<1>5. (reset = "check" => Clean(mark, kept))'
  <2> SUFFICES ASSUME reset' = "check" PROVE Clean(mark, kept)'
    OBVIOUS
  <2>1. CASE reset = "check" /\ UNCHANGED <<mark, kept>>
    <3>1. PICK m \in Nat, k \in BOOLEAN : m = mark /\ k = kept
      BY DEF ResetTypeOK
    <3>2. Clean(m, k)'
      BY <1>2, <2>1, <3>1 DEF ForgetInv, TornInv
    <3> QED
      BY <2>1, <3>1, <3>2 DEF Clean, Holds
  <2>2. CASE reset = "start" /\ Starts /\ UNCHANGED <<mark, kept, live, default>>
    <3>1. aof = NoFile /\ live = default /\ (~kept => rdb = NoFile)
      BY <2>2 DEF ForgetInv, TornInv
    <3>2. ASSUME kept => AppendOnly(default) PROVE Loads = 0
      BY <3>1, <3>2 DEF Loads
    <3>3. /\ data' = Loads /\ saving' = None /\ rdb' = rdb /\ (aof' = Loads \/ aof' = aof)
      BY <2>2 DEF Starts
    <3> QED
      BY <2>2, <3>1, <3>2, <3>3 DEF Clean, Holds, Safe
  <2> QED
    BY <1>3, <2>1, <2>2
<1>6. (cleared # None => Clean(cleared.mark, cleared.kept))'
  <2> SUFFICES ASSUME cleared' # None PROVE Clean(cleared.mark, cleared.kept)'
    OBVIOUS
  <2>1. PICK m \in Nat, k \in BOOLEAN : cleared' = [mark |-> m, kept |-> k]
    BY <1>4 DEF ResetTypeOK
  <2>2. Clean(m, k)
    BY <1>4, <2>1 DEF ForgetInv
  <2>3. m <= writes /\ live \in {default, <<>>}
    BY <1>4, <2>1 DEF ForgetInv, TornInv
  <2>4. Clean(m, k)'
    BY <1>2, <2>2, <2>3
  <2> QED
    BY <2>1, <2>4 DEF Clean, Holds
<1> QED
  BY <1>1, <1>5, <1>6 DEF ForgetInv

\* Once a reset has succeeded redis never serves what was written before, not
\* after any number of crashes, restarts and further resets: provided that
\* dump.rdb was removed or redis loads appendonly.aof instead.
THEOREM ResetForgetsForGood == Spec => [](ForgetInv /\ ResetForgets)
<1>1. Init => ForgetInv
  BY DEF Init, RedisInit, ResetInit, ForgetInv
<1>2. ForgetInv => ResetForgets
  BY DEF ForgetInv, ResetForgets, Clean, Holds, Safe
<1>3. Spec => []TornInv
  BY TornConfUnused, PTL
<1> QED
  BY <1>1, <1>2, <1>3, ForgetStep, TypeCorrect, PTL DEF Spec

-----------------------------------------------------------------------------
(* Failures *)

\* A call that met no fault so far and began on a redis that could be reset
Unhurt == started.ready /\ faults = started.faults

ReasonInv ==
  /\ faults <= started.faults
  /\ reset = "failed" => ~Unhurt
  /\ reset \in Resetting /\ Unhurt =>
       /\ CheckedPort(default) \in PlainPorts(default)
       /\ reset = "kill" => conn = pid /\ Killable
       /\ reset \in {"kill", "stop", "rmaof"} => aof # NoFile
       /\ reset = "check" => up # "down" /\ server = default

\* A step of the reset without a fault keeps ReasonInv if it does not fail
\* and leaves what the next step needs, given that the call is unhurt.
LEMMA Unharmed ==
  ASSUME ReasonInv, reset \in Resetting, UNCHANGED <<faults, started, default>>,
         reset' # "kill",
         Unhurt => /\ reset' # "failed"
                   /\ reset' \in {"stop", "rmaof"} => aof' # NoFile
                   /\ reset' = "check" => up' # "down" /\ server' = default
  PROVE  ReasonInv'
<1>1. Unhurt' = Unhurt /\ faults' <= started'.faults
  BY DEF Unhurt, ReasonInv
<1>2. Unhurt => (CheckedPort(default) \in PlainPorts(default))'
  BY Zenon DEF ReasonInv
<1> QED
  BY <1>1, <1>2, Zenon DEF ReasonInv

\* ReasonInv is inductive: without a fault redis stays up and connected until
\* it is stopped, its appendonly file stays until it is removed, and the redis
\* that is started on the default redis.conf accepts connections.
LEMMA ReasonStep == TypeOK /\ TornInv /\ ReasonInv /\ [Next]_vars => ReasonInv'
<1> SUFFICES ASSUME TypeOK, TornInv, ReasonInv, [Next]_vars PROVE ReasonInv'
  OBVIOUS
<1> DEFINE PortOK == CheckedPort(default) \in PlainPorts(default)
<1> USE DEF TypeOK, environment, redisVars, resetVars, progress, ReasonInv, Unhurt, NoFault
<1>0. /\ Fault => faults' \in Nat /\ faults' < faults
      /\ faults \in Nat /\ started.faults \in Nat
  BY DEF Fault, RedisTypeOK, ResetTypeOK
<1>1. ASSUME Fault, started' = started PROVE ReasonInv'
  BY <1>0, <1>1
<1>2. CASE UNCHANGED vars \/ \E b \in Backups : BackupStarts(b) \/ BackupStep(b)
  <2>1. /\ UNCHANGED <<reset, conn, started, default, up, server, pid, script, aof>>
        /\ faults' \in Nat /\ faults' <= faults
    BY <1>2, BackupEffect
  <2>2. Killable' = Killable
    BY <2>1, Zenon DEF Killable, isNoScriptErr, Knows
  <2> QED
    BY <1>0, <2>1, <2>2
<1>3. CASE RedisStep
  <2> USE <1>0, <1>3 DEF RedisStep
  <2>1. CASE Dies
    BY <1>1, <2>1 DEF Dies
  <2>2. CASE MonitRestarts
    <3>1. /\ up = "down" /\ up' # "down" /\ server' = live /\ monitored /\ UNCHANGED <<default, faults>>
          /\ reset' = reset /\ started' = started
      BY <2>2 DEF MonitRestarts, Starts
    <3>2. reset \notin {"rmaof", "rmrdb", "load", "save", "start"}
      BY <3>1 DEF TornInv
    <3>3. aof # NoFile => aof' # NoFile
      BY <2>2, NoneAssumption DEF MonitRestarts, Starts, Loads, RedisTypeOK
    <3>4. ~(reset = "kill" /\ Unhurt)
      BY <3>1 DEF Killable, isNoScriptErr, Resetting
    <3>5. ~(reset = "check" /\ Unhurt)
      BY <3>1, SMTT(30) DEF Resetting
    <3> QED
      BY <3>1, <3>2, <3>3, <3>4, <3>5
  <2>3. CASE Loaded \/ ScriptEnds \/ Tick \/ SaveDirective
    <3>1. Killable => Killable'
      BY <2>3, Zenon
      DEF Loaded, ScriptEnds, Tick, SaveDirective, BackgroundSave, Killable, isNoScriptErr, Knows
    <3> QED
      BY <2>3, <3>1 DEF Loaded, ScriptEnds, Tick, SaveDirective, BackgroundSave
  <2>4. CASE Write
    <3>1. Killable => Killable'
      BY <2>4 DEF Write, Killable, isNoScriptErr, Knows
    <3>2. aof # NoFile => aof' # NoFile
      BY <2>4, NoneAssumption DEF Write, RedisTypeOK
    <3> QED
      BY <2>4, <3>1, <3>2, SMTT(30) DEF Write
  <2>5. CASE SaveEnds
    <3>1. Killable => Killable'
      BY <2>5 DEF SaveEnds, Killable, isNoScriptErr, Knows
    <3> QED
      BY <1>1, <2>5, <3>1, SMTT(30) DEF SaveEnds
  <2> QED
    BY <2>1, <2>2, <2>3, <2>4, <2>5 DEF RedisSteps
<1>4. CASE ClientStep
  <2>1. UNCHANGED <<reset, conn, started, default, up, server, pid, script, faults>>
    BY <1>4 DEF ClientStep, EnableAOF
  <2>2. Killable' = Killable
    BY <2>1, Zenon DEF Killable, isNoScriptErr, Knows
  <2>3. aof' # NoFile
    BY <1>4, NoneAssumption DEF ClientStep, EnableAOF, RedisTypeOK
  <2> QED
    BY <2>1, <2>2, <2>3, Zenon
<1>5. CASE ResetStarts
  <2>1. started' = [ready |-> Resettable, faults |-> faults] /\ UNCHANGED <<redisVars, default>>
    BY <1>5 DEF ResetStarts, Connect, Begins
  <2>2. started'.faults = faults /\ (started'.ready => Resettable)
    BY <2>1, Zenon
  <2>3. CASE Fault /\ reset' = "failed"
    BY <1>0, <2>2, <2>3
  <2>4. CASE Connectable /\ reset' = "kill" /\ conn' = pid /\ NoFault
    <3>1. Resettable => Killable' /\ aof' # NoFile /\ PortOK'
      BY <2>1, Zenon DEF Resettable, Killable, isNoScriptErr, Knows
    <3>2. pid' = pid
      BY <2>1
    <3> QED
      BY <1>0, <2>2, <2>4, <3>1, <3>2 DEF Resetting
  <2>5. CASE ~Connectable /\ reset' = "failed" /\ NoFault
    BY <1>0, <2>2, <2>5 DEF Resettable
  <2> QED
    BY <1>5, <2>3, <2>4, <2>5 DEF ResetStarts, Connect
<1>6. CASE ResetStep
  <2>1. CASE Fault
    <3>1. started' = started
      BY <1>6, Zenon DEF Goes, Ends, Fails, ResetStep, ResetSteps, killScript, stopRedis, Stopped,
             removeAOF, removeRDB, truncateConfig, resetConfig, startRedis, checkPort, Succeeds
    <3> QED
      BY <1>1, <2>1, <3>1
  <2>0. NoFault => ~Fault
    BY <1>0
  <2> HIDE DEF TypeOK, NoFault, ReasonInv, Unhurt
  <2> USE DEF Goes, Ends, Fails
  <2>2. CASE killScript /\ NoFault
    <3>1. Unhurt => conn = pid /\ Killable /\ aof # NoFile
      BY <2>2, Zenon DEF killScript, ReasonInv, Resetting
    <3>2. \/ reset' = "stop" /\ aof' = aof
          \/ reset' = "failed" /\ ~(conn = pid /\ Killable)
      BY <2>0, <2>2, Zenon DEF killScript
    <3>3. reset \in Resetting /\ UNCHANGED <<faults, started, default>>
      BY <2>0, <2>2 DEF killScript, Resetting, NoFault
    <3> QED
      BY <3>1, <3>2, <3>3, Unharmed, Zenon
  <2>3. CASE stopRedis /\ NoFault
    <3>1. reset' = "rmaof" /\ aof' = aof
      BY <2>0, <2>3 DEF stopRedis, Stopped, Stops
    <3>2. Unhurt => aof # NoFile
      BY <2>3, Zenon DEF stopRedis, ReasonInv, Resetting
    <3>3. reset \in Resetting /\ UNCHANGED <<faults, started, default>>
      BY <2>0, <2>3 DEF stopRedis, Stopped, Resetting, NoFault
    <3> QED
      BY <3>1, <3>2, <3>3, Unharmed, Zenon
  <2>4. CASE removeAOF /\ NoFault
    <3>1. Unhurt => aof # NoFile
      BY <2>4, Zenon DEF removeAOF, ReasonInv, Resetting
    <3>2. reset' = IF aof # NoFile THEN "rmrdb" ELSE "failed"
      BY <2>0, <2>4, Zenon DEF removeAOF
    <3>3. reset \in Resetting /\ UNCHANGED <<faults, started, default>>
      BY <2>0, <2>4 DEF removeAOF, Removes, Resetting, NoFault
    <3> QED
      BY <3>1, <3>2, <3>3, Unharmed, Zenon
  <2>5. CASE (removeRDB \/ truncateConfig \/ resetConfig) /\ NoFault
    <3>1. reset' \in {"load", "save", "start"}
      BY <2>0, <2>5, Zenon DEF removeRDB, truncateConfig, resetConfig
    <3>2. reset \in Resetting /\ UNCHANGED <<faults, started, default>>
      BY <2>0, <2>5 DEF removeRDB, Removes, truncateConfig, resetConfig, Resetting, NoFault
    <3> QED
      BY <3>1, <3>2, Unharmed, Zenon
  <2>7. CASE startRedis /\ NoFault
    <3>1. live = default
      BY <2>7, Zenon DEF startRedis, TornInv
    <3>2. reset' = "check" /\ up' # "down" /\ server' = default
      BY <2>0, <2>7, <3>1, Zenon DEF startRedis, Starts
    <3>3. reset \in Resetting /\ UNCHANGED <<faults, started, default>>
      BY <2>0, <2>7 DEF startRedis, Resetting, NoFault
    <3> QED
      BY <3>2, <3>3, Unharmed, Zenon
  <2>8. CASE checkPort /\ NoFault
    <3>1. Unhurt => Accepts(CheckedPort(live))
      <4>1. reset = "check" /\ live = default
        BY <2>8, Zenon DEF checkPort, TornInv
      <4>2. Unhurt => up # "down" /\ server = default /\ CheckedPort(default) \in PlainPorts(default)
        BY <4>1, Zenon DEF ReasonInv, Resetting
      <4> QED
        BY <4>1, <4>2, Zenon DEF Accepts
    <3>2. reset' \in {"ok", "failed"} /\ (Accepts(CheckedPort(live)) => reset' = "ok")
      BY <2>0, <2>8 DEF checkPort, Succeeds, Accepts
    <3>3. reset \in Resetting /\ UNCHANGED <<faults, started, default>>
      BY <2>0, <2>8 DEF checkPort, Succeeds, Resetting, NoFault
    <3> QED
      BY <3>1, <3>2, <3>3, Unharmed, Zenon
  <2> QED
    BY <1>6, <2>1, <2>2, <2>3, <2>4, <2>5, <2>7, <2>8, Zenon
    DEF ResetStep, ResetSteps, killScript, stopRedis, removeAOF, removeRDB,
        truncateConfig, resetConfig, startRedis, checkPort
<1>7. CASE ResetKilled
  BY <1>1, <1>7, SMTT(30) DEF ResetKilled, Killed, Ends
<1> QED
  BY <1>2, <1>3, <1>4, <1>5, <1>6, <1>7 DEF Next

\* A reset that began on a redis that could be reset, and during which nothing
\* went wrong, does not fail.
THEOREM FailuresHaveReasons == Spec => [](ReasonInv /\ ResetFailsForAReason)
<1>1. Init => ReasonInv
  <2> SUFFICES ASSUME Init PROVE ReasonInv
    OBVIOUS
  <2>1. faults \in Nat
    BY InitTypes, Zenon DEF TypeOK, RedisTypeOK
  <2>2. started = [ready |-> FALSE, faults |-> MaxFaults] /\ reset = "idle" /\ faults = MaxFaults
    BY Zenon DEF Init, RedisInit, ResetInit
  <2> QED
    BY <2>1, <2>2 DEF ReasonInv, Unhurt, Resetting
<1>2. ReasonInv => ResetFailsForAReason
  BY DEF ReasonInv, Unhurt, ResetFailsForAReason
<1>3. Spec => []TornInv
  BY TornConfUnused, PTL
<1> QED
  BY <1>1, <1>2, <1>3, ReasonStep, TypeCorrect, PTL DEF Spec

-----------------------------------------------------------------------------
(* Retries *)

\* A VM whose redis was stopped by a reset that then gave up stays without
\* redis: no call of ResetRedis, no backup and not monit can bring it back.
THEOREM RetriesDoNotHelp == Spec => StrandedForGood
<1>1. TypeOK /\ [Next]_vars => [Stranded => Stranded']_vars
  <2> SUFFICES ASSUME TypeOK, [Next]_vars, Stranded PROVE Stranded'
    OBVIOUS
  <2> USE DEF Stranded, environment, redisVars, resetVars, TypeOK
  <2>1. CASE UNCHANGED vars \/ \E b \in Backups : BackupStarts(b) \/ BackupStep(b)
    BY <2>1, BackupEffect
  <2>2. CASE RedisStep
    <3>1. ~Dies /\ ~MonitRestarts /\ ~Loaded /\ ~Write
      BY Zenon DEF Dies, MonitRestarts, Loaded, Write
    <3>2. reset' = reset /\ up' = up /\ monitored' = monitored
      BY <2>2, <3>1, Zenon DEF RedisStep, RedisSteps, ScriptEnds, SaveDirective,
                               BackgroundSave, SaveEnds, Tick
    <3> QED
      BY <3>2, Zenon
  <2>3. CASE ClientStep
    BY <2>3 DEF ClientStep, EnableAOF
  <2>4. CASE ResetStarts
    BY <2>4 DEF ResetStarts, Connect, Connectable, Accepts, Resetting
  <2>5. CASE ResetStep \/ ResetKilled
    BY <2>5, Zenon
    DEF ResetStep, ResetSteps, ResetKilled, Killed, killScript, stopRedis, removeAOF,
        removeRDB, truncateConfig, resetConfig, startRedis, checkPort, Resetting
  <2> QED
    BY <2>1, <2>2, <2>3, <2>4, <2>5 DEF Next
<1> QED
  BY <1>1, TypeCorrect, PTL DEF Spec, StrandedForGood
=============================================================================

---------------------------- MODULE BackupProofs ----------------------------
(***************************************************************************)
(* What a backup uploads, and what it logs, for any number of backups at a *)
(* time, and of writes, resets, restarts and faults.                       *)
(***************************************************************************)
EXTENDS DedicatedProofs

\* dump.rdb is the last save; every data set consists of writes made
RedisInv ==
  /\ rdb # NoFile => rdb.n = saves /\ rdb.data <= writes
  /\ data <= writes
  /\ saving # None => saving <= writes
  /\ aof # NoFile => aof <= writes

Reads == {"bgsave", "wait", "path", "rename"}
Moved == {"bucket", "upload", "ok"}

\* Of a call in the state x.  While its connection lasts, LASTSAVE moves only
\* with a save, and data sets only grow.
Sound(x) ==
  /\ x.pc \in {"loading", "lastsave"} \cup Reads => x.client \in Clientele /\ x.client.pid <= pid
  /\ x.pc \in Reads \cup Moved => x.read \in Reading /\ x.read.saves <= saves
  /\ x.pc \in {"bgsave", "wait"} /\ x.client.pid = pid /\ lastsave > x.since
       => saves > x.read.saves
  /\ x.pc \in {"path", "rename"} \cup Moved => saves > x.read.saves
  /\ x.pc \in Reads /\ x.client.pid = pid /\ ~x.read.saving
       => /\ data >= x.read.data
          /\ saving # None => saving >= x.read.data
          /\ saves > x.read.saves /\ rdb # NoFile => rdb.data >= x.read.data
  /\ x.pc \in {"bucket", "upload"} =>
       /\ x.path = "target"
       /\ target \in Snapshot /\ target.n > x.read.saves
  /\ x.pc \in Moved => /\ x.took \in Snapshot
                       /\ x.same /\ ~x.read.saving => x.took.data >= x.read.data
  /\ x.pc = "ok" => x.got \in Snapshot /\ x.got.n > x.read.saves

BackupInv == RedisInv /\ \A b \in Backups : Sound(backup[b])

-----------------------------------------------------------------------------
\* What a step does to redis: it replaces it by another one, or it keeps it and
\* perhaps completes a save; and it may move dump.rdb to the target.
Moves ==
  \/ pid' > pid /\ saves' = saves
  \/ /\ pid' = pid /\ data' >= data /\ saving' \in {saving, None, data}
     /\ \/ saves' = saves /\ lastsave' = lastsave /\ rdb' \in {rdb, NoFile}
        \/ /\ saves' = saves + 1
           /\ \/ rdb' = [data |-> data, n |-> saves + 1]
              \/ saving # None /\ rdb' = [data |-> saving, n |-> saves + 1]

Shifts == target' = target \/ (rdb # NoFile /\ target' = rdb)

\* Every step moves redis so, and keeps RedisInv.
LEMMA EveryStepMoves ==
  ASSUME TypeOK, RedisInv, [Next]_vars
  PROVE  Moves /\ Shifts /\ RedisInv'
<1> USE NoneAssumption DEF TypeOK, environment, redisVars, backupVars, store, RedisInv, Moves
<1> DEFINE Same == UNCHANGED <<pid, data, saving, saves, lastsave, rdb, aof, writes>>
<1>0. ASSUME Same PROVE Moves /\ RedisInv'
  BY <1>0 DEF RedisTypeOK
<1>1. UNCHANGED backupVars => Shifts
  BY DEF Shifts
<1>2. ASSUME Starts, writes' = writes PROVE Moves /\ RedisInv'
  <2>1. Loads \in Nat /\ Loads <= writes
    BY DEF Loads, RedisTypeOK, Snapshot
  <2>2. /\ pid' = pid + 1 /\ data' = Loads /\ saving' = None /\ UNCHANGED <<saves, rdb>>
        /\ aof' = Loads \/ aof' = aof
    BY <1>2 DEF Starts
  <2> QED
    BY <1>2, <2>1, <2>2 DEF RedisTypeOK
<1>3. CASE RedisStep
  <2> USE <1>1, <1>3 DEF RedisStep, Stored, RedisTypeOK
  <2>1. CASE Dies
    BY <2>1 DEF Dies
  <2>2. CASE MonitRestarts
    BY <1>2, <2>2 DEF MonitRestarts
  <2>3. CASE Loaded \/ ScriptEnds \/ Tick
    BY <1>0, <2>3 DEF Loaded, ScriptEnds, Tick
  <2>4. CASE Write
    BY <2>4 DEF Write, Snapshot
  <2>5. CASE SaveDirective
    BY <2>5 DEF SaveDirective, BackgroundSave
  <2>6. CASE SaveEnds
    BY <2>6 DEF SaveEnds
  <2> QED
    BY <2>1, <2>2, <2>3, <2>4, <2>5, <2>6 DEF RedisSteps
<1>4. CASE ClientStep
  BY <1>1, <1>4 DEF ClientStep, EnableAOF, RedisTypeOK
<1>5. CASE ResetStarts \/ ResetKilled \/ UNCHANGED vars
  <2>1. Same /\ UNCHANGED backupVars
    BY <1>5 DEF ResetStarts, Connect, Begins, ResetKilled, Killed, vars
  <2> QED
    BY <1>0, <1>1, <2>1
<1>6. CASE ResetStep
  <2>1. UNCHANGED backupVars /\ writes' = writes
    BY <1>6 DEF ResetStep, ResetSteps, killScript, stopRedis, removeAOF, removeRDB, Removes,
                truncateConfig, resetConfig, startRedis, checkPort
  <2>2. CASE Same
    BY <1>0, <1>1, <2>1, <2>2
  <2>3. CASE stopRedis
    BY <1>1, <2>1, <2>2, <2>3 DEF stopRedis, Stopped, Stops, Stored, Fails, RedisTypeOK
  <2>4. CASE removeAOF
    BY <1>1, <2>1, <2>4 DEF removeAOF, Removes, RedisTypeOK
  <2>5. CASE removeRDB
    BY <1>1, <2>1, <2>5 DEF removeRDB, Removes, RedisTypeOK
  <2>6. CASE startRedis
    BY <1>1, <1>2, <2>1, <2>2, <2>6 DEF startRedis, Fails
  <2>7. CASE killScript \/ truncateConfig \/ resetConfig \/ checkPort
    BY <2>2, <2>7 DEF killScript, truncateConfig, resetConfig, checkPort, Fails
  <2> QED
    BY <1>6, <2>3, <2>4, <2>5, <2>6, <2>7 DEF ResetStep, ResetSteps
<1>7. ASSUME NEW b \in Backups, BackupStarts(b) \/ BackupStep(b)
      PROVE  Moves /\ Shifts /\ RedisInv'
  <2>1. CASE Same /\ target' = target
    BY <1>0, <2>1 DEF Shifts
  <2>2. CASE ConnectClient(b) \/ Quiet \/ createBucket(b) \/ uploadToBucket(b)
    BY <2>1, <2>2 DEF ConnectClient, Quiet, createBucket, GetOrCreateBucket, uploadToBucket, Upload
  <2>3. CASE RunBGSave(b)
    BY <2>1, <2>3 DEF RunBGSave, BackgroundSave, Shifts, RedisTypeOK
  <2>4. CASE rename(b)
    BY <2>4 DEF rename, Shifts, RedisTypeOK
  <2> QED
    BY <1>7, <2>2, <2>3, <2>4
    DEF BackupStarts, BackupStep, BackupSteps, Run, WaitUntilRedisNotLoading, LastRDBSaveTime,
        WaitForNewSaveSince, RDBPath
<1> QED
  BY <1>3, <1>4, <1>5, <1>6, <1>7 DEF Next

\* What redis does meanwhile leaves the state of a call sound.
LEMMA OthersKeepSound ==
  ASSUME TypeOK, TypeOK', RedisInv, Moves, Shifts, NEW x \in BackupState, Sound(x)
  PROVE  Sound(x)'
<1> USE NoneAssumption DEF TypeOK, Sound, Reads, Moved
<1>1. saves' >= saves /\ pid' >= pid /\ saves \in Nat /\ saves' \in Nat /\ pid \in Nat /\ pid' \in Nat
  BY DEF Moves, RedisTypeOK
<1>2. (x.pc \in {"loading", "lastsave"} \cup Reads => x.client \in Clientele /\ x.client.pid <= pid)'
  BY <1>1 DEF Clientele
<1>3. /\ (x.pc \in Reads \cup Moved => x.read \in Reading /\ x.read.saves <= saves)'
      /\ (x.pc \in {"path", "rename"} \cup Moved => saves > x.read.saves)'
  BY <1>1 DEF Reading
<1>4. ASSUME x.pc \in Reads, x.client.pid = pid' PROVE pid' = pid
  BY <1>1, <1>4 DEF Clientele
<1>5. (x.pc \in {"bgsave", "wait"} /\ x.client.pid = pid /\ lastsave > x.since
        => saves > x.read.saves)'
  BY <1>1, <1>4 DEF Moves, Reading
<1>6. (x.pc \in Reads /\ x.client.pid = pid /\ ~x.read.saving
        => /\ data >= x.read.data
           /\ saving # None => saving >= x.read.data
           /\ saves > x.read.saves /\ rdb # NoFile => rdb.data >= x.read.data)'
  <2> SUFFICES ASSUME x.pc \in Reads, x.client.pid = pid', ~x.read.saving
               PROVE  /\ data' >= x.read.data
                      /\ saving' # None => saving' >= x.read.data
                      /\ saves' > x.read.saves /\ rdb' # NoFile => rdb'.data >= x.read.data
    OBVIOUS
  <2>1. /\ data >= x.read.data /\ (saving # None => saving >= x.read.data)
        /\ saves > x.read.saves /\ rdb # NoFile => rdb.data >= x.read.data
        /\ x.read.data \in Nat /\ x.read.saves \in Nat
    BY <1>4 DEF Reading
  <2>2. /\ data' >= data /\ saving' \in {saving, None, data}
        /\ \/ saves' = saves /\ rdb' \in {rdb, NoFile}
           \/ rdb' = [data |-> data, n |-> saves + 1]
           \/ saving # None /\ rdb' = [data |-> saving, n |-> saves + 1]
    BY <1>1, <1>4 DEF Moves
  <2>3. data \in Nat /\ data' \in Nat /\ saving \in Nat \cup {None}
    BY DEF RedisTypeOK
  <2> QED
    BY <2>1, <2>2, <2>3
<1>7. (x.pc \in {"bucket", "upload"} => target \in Snapshot /\ target.n > x.read.saves)'
  BY Zenon DEF Shifts, RedisInv, RedisTypeOK
<1> QED
  BY <1>2, <1>3, <1>5, <1>6, <1>7

\* A call that failed has nothing left to be sound about.
LEMMA FailedIsSound == ASSUME NEW x, x.pc \in {"connect", "failed"} PROVE Sound(x)'
BY DEF Sound, Reads, Moved

\* Its own step leaves the state of a call sound, from x to y.
LEMMA OwnStepKeepsSound ==
  ASSUME TypeOK, TypeOK', RedisInv, NEW b \in Backups, BackupStarts(b) \/ BackupStep(b),
         NEW x \in BackupState, x = backup[b], Sound(x), Sound(x)',
         NEW y \in BackupState, y = backup'[b]
  PROVE  Sound(y)'
<1>5. backup \in [Backups -> BackupState]
  BY DEF TypeOK, BackupTypeOK
<1>6. BFails(b) \/ (\E c : Breaks(b, c)) => Sound(y)'
  <2>1. ASSUME BFails(b) \/ \E c : Breaks(b, c) PROVE y.pc = "failed"
    BY <1>5, <2>1, Zenon DEF BFails, Breaks, Fresh
  <2> QED
    BY <2>1, FailedIsSound, SMTT(30)
<1>7. ASSUME NEW p, BGoes(b, p) PROVE y = [x EXCEPT !.pc = p] /\ y.pc = p
  BY <1>5, <1>7 DEF BGoes, BackupState
<1>8. CASE ConnectClient(b)
  <2>1. ASSUME NEW c \in Clients(live),
               backup' = [backup EXCEPT ![b].pc = "loading", ![b].client = c]
        PROVE  Sound(y)'
    <3>1. c \in Clientele /\ c.pid = pid
      BY ClientTypes DEF TypeOK, Clients
    <3>2. y.pc = "loading" /\ y.client = c
      BY <1>5, <2>1 DEF BackupState
    <3>3. pid' = pid /\ pid \in Nat
      BY <1>8 DEF ConnectClient, redisVars, TypeOK, RedisTypeOK
    <3>4. y.client \in Clientele /\ y.client.pid <= pid'
      BY <3>1, <3>2, <3>3
    <3> QED
      BY <3>2, <3>4, Zenon DEF Sound, Reads, Moved
  <2> QED
    BY <1>6, <1>8, <2>1, SMTT(30) DEF ConnectClient
<1>9. CASE WaitUntilRedisNotLoading(b)
  <2>1. x.pc = "loading" /\ (BFails(b) \/ BGoes(b, "lastsave"))
    BY <1>9 DEF WaitUntilRedisNotLoading, BAt
  <2>2. CASE BGoes(b, "lastsave")
    <3>1. y.pc = "lastsave" /\ y.client = x.client
      BY <1>7, <2>2, Zenon DEF BackupState
    <3> QED
      BY <2>1, <3>1 DEF Sound, Reads, Moved
  <2> QED
    BY <1>6, <2>1, <2>2
<1>10. CASE LastRDBSaveTime(b)
  <2> DEFINE read == [saves |-> saves, data |-> data, saving |-> saving # None]
  <2>1. x.pc = "lastsave" /\ Quiet
    BY <1>10, SMTT(30) DEF LastRDBSaveTime, BAt
  <2>2. CASE backup' = [backup EXCEPT ![b].pc = "bgsave", ![b].since = lastsave, ![b].read = read]
    <3>1. y.pc = "bgsave" /\ y.client = x.client /\ y.since = lastsave /\ y.read = read
      <4> HIDE DEF read
      <4> QED
        BY <1>5, <2>2 DEF BackupState
    <3>2. /\ UNCHANGED <<pid, saves, data, lastsave, saving, rdb>>
          /\ saves \in Nat /\ data \in Nat /\ lastsave \in Nat
      BY <2>1 DEF Quiet, redisVars, TypeOK, RedisTypeOK
    <3>3. read \in Reading /\ (~read.saving => saving = None)
      BY <3>2, Zenon DEF Reading
    <3>4. read.saves = saves /\ read.data = data
      OBVIOUS
    <3> HIDE DEF read
    <3>5. y.client \in Clientele /\ y.client.pid <= pid'
      BY <2>1, <3>1, <3>2 DEF Sound, Reads
    <3>8. y.read \in Reading
      BY <3>1, <3>3, Zenon
    <3>9. y.read.saves = saves' /\ y.since = lastsave'
      BY <3>1, <3>2, <3>4, Zenon
    <3>6. y.read \in Reading /\ y.read.saves <= saves' /\ ~(lastsave' > y.since)
      BY <3>2, <3>8, <3>9
    <3>7. ~y.read.saving => /\ data' >= y.read.data /\ saving' = None
                            /\ ~(saves' > y.read.saves)
      BY <3>1, <3>2, <3>3, <3>4
    <3> QED
      BY <3>1, <3>5, <3>6, <3>7, Zenon DEF Sound, Reads, Moved
  <2> QED
    BY <1>6, <1>10, <2>2 DEF LastRDBSaveTime
<1>11. CASE RunBGSave(b)
  <2>1. x.pc = "bgsave" /\ (BFails(b) \/ BGoes(b, "wait"))
    BY <1>11, SMTT(30) DEF RunBGSave, BAt
  <2>2. CASE BGoes(b, "wait")
    <3>1. y.pc = "wait" /\ y.client = x.client /\ y.read = x.read /\ y.since = x.since
      BY <1>7, <2>2, Zenon DEF BackupState
    <3> QED
      BY <2>1, <3>1, Zenon DEF Sound, Reads, Moved
  <2> QED
    BY <1>6, <2>1, <2>2
<1>12. CASE WaitForNewSaveSince(b)
  <2>1. x.pc = "wait" /\ Quiet
    BY <1>12 DEF WaitForNewSaveSince, BAt
  <2>2. CASE Lastsave(client(b)) /\ lastsave > backup[b].since /\ BGoes(b, "path")
    <3>1. y.pc = "path" /\ y.client = x.client /\ y.read = x.read
      BY <1>7, <2>2, Zenon DEF BackupState
    <3>2. x.client.pid = pid /\ lastsave > x.since
      BY <2>2 DEF Lastsave, Exec, client
    <3>3. saves > x.read.saves /\ saves' = saves
      BY <2>1, <3>2 DEF Quiet, redisVars, Sound, Reads
    <3> QED
      BY <2>1, <3>1, <3>3 DEF Sound, Reads, Moved
  <2> QED
    BY <1>6, <1>12, <2>2, Zenon DEF WaitForNewSaveSince
<1>13. CASE RDBPath(b)
  <2>1. x.pc = "path" /\ (BFails(b) \/ BGoes(b, "rename"))
    BY <1>13, SMTT(30) DEF RDBPath, BAt
  <2>2. CASE BGoes(b, "rename")
    <3>1. y.pc = "rename" /\ y.client = x.client /\ y.read = x.read
      BY <1>7, <2>2, Zenon DEF BackupState
    <3> QED
      BY <2>1, <3>1 DEF Sound, Reads, Moved
  <2> QED
    BY <1>6, <2>1, <2>2
<1>14. CASE rename(b)
  <2>1. x.pc = "rename" /\ saves' = saves
    BY <1>14 DEF rename, BAt
  <2>2. CASE /\ rdb # NoFile /\ target' = rdb
             /\ backup' = [backup EXCEPT ![b].pc = "bucket", ![b].path = "target",
                                         ![b].took = rdb, ![b].same = (client(b).pid = pid)]
    <3>1. y.pc = "bucket" /\ y.path = "target" /\ y.read = x.read /\ y.took = rdb
      BY <1>5, <2>2 DEF BackupState
    <3>2. y.same => x.client.pid = pid
      BY <1>5, <2>2 DEF BackupState, client
    <3>3. rdb \in Snapshot /\ rdb.n = saves
      BY <2>2 DEF TypeOK, RedisTypeOK, RedisInv
    <3> QED
      BY <2>1, <2>2, <3>1, <3>2, <3>3, SMTT(30) DEF Sound, Reads, Moved
  <2> QED
    BY <1>6, <1>14, <2>2 DEF rename
<1>15. CASE createBucket(b)
  <2>1. x.pc = "bucket" /\ (BGoes(b, "upload") \/ Breaks(b, GETORCREATE))
    BY <1>15, Zenon DEF createBucket, GetOrCreateBucket, BAt
  <2>2. CASE BGoes(b, "upload")
    <3>1. /\ y.pc = "upload" /\ y.path = x.path
          /\ y.read = x.read /\ y.took = x.took /\ y.same = x.same
      BY <1>7, <2>2, Zenon DEF BackupState
    <3> QED
      BY <2>1, <3>1, Zenon DEF Sound, Reads, Moved
  <2> QED
    BY <1>6, <2>1, <2>2, SMTT(30)
<1>16. CASE uploadToBucket(b)
  <2>1. x.pc = "upload" /\ target' = target
    BY <1>16 DEF uploadToBucket, Upload, BAt
  <2>2. CASE backup' = [backup EXCEPT ![b].pc = "ok", ![b].got = Content(backup[b].path),
                                      ![b].client = None]
    <3>0. Content(backup[b].path) = target
      BY <2>1 DEF Content, Sound
    <3>1. y.pc = "ok" /\ y.read = x.read /\ y.took = x.took /\ y.same = x.same /\ y.got = target
      BY <1>5, <2>2, <3>0 DEF BackupState
    <3> QED
      BY <2>1, <3>1 DEF Sound, Reads, Moved
  <2> QED
    BY <1>6, <1>16, <2>2 DEF uploadToBucket, Upload
<1> QED
  BY <1>8, <1>9, <1>10, <1>11, <1>12, <1>13, <1>14, <1>15, <1>16, SMTT(30)
  DEF BackupStarts, BackupStep, BackupSteps, Run

\* BackupInv is inductive.
LEMMA BackupInvStep == TypeOK /\ TypeOK' /\ BackupInv /\ [Next]_vars => BackupInv'
<1> SUFFICES ASSUME TypeOK, TypeOK', BackupInv, [Next]_vars PROVE BackupInv'
  OBVIOUS
<1>1. Moves /\ Shifts /\ RedisInv'
  BY EveryStepMoves DEF BackupInv
<1>0. RedisInv
  BY Zenon DEF BackupInv
<1>2. ASSUME NEW b \in Backups PROVE Sound(backup[b])'
  <2>0. PICK x \in BackupState : x = backup[b]
    BY DEF TypeOK, BackupTypeOK
  <2>5. PICK y \in BackupState : y = backup'[b]
    BY DEF TypeOK, BackupTypeOK
  <2>6. SUFFICES Sound(y)'
    BY <2>5 DEF Sound
  <2>7. Sound(x)
    BY <2>0 DEF BackupInv
  <2>8. Sound(x)'
    BY <1>0, <1>1, <2>7, OthersKeepSound, SMTT(30)
  <2>1. CASE BackupStarts(b) \/ BackupStep(b)
    BY <1>0, <2>0, <2>1, <2>5, <2>7, <2>8, OwnStepKeepsSound, Zenon
  <2>2. CASE backup'[b] = backup[b]
    BY <2>0, <2>2, <2>5, <2>8, SMTT(30)
  <2>3. ASSUME NEW c \in Backups, c # b, BackupStarts(c) \/ BackupStep(c)
        PROVE  backup'[b] = backup[b]
    BY <2>3
    DEF TypeOK, BackupTypeOK, BackupStarts, BackupStep, BackupSteps, Run, ConnectClient,
        WaitUntilRedisNotLoading, LastRDBSaveTime, RunBGSave, WaitForNewSaveSince, RDBPath,
        rename, createBucket, GetOrCreateBucket, uploadToBucket, Upload, BFails, BGoes, Breaks
  <2>4. CASE ~ \E c \in Backups : BackupStarts(c) \/ BackupStep(c)
    <3>1. UNCHANGED backupVars
      BY <2>4 DEF Next, vars, RedisStep, ClientStep, ResetStarts, ResetStep, ResetKilled
    <3> QED
      BY <2>2, <3>1 DEF backupVars
  <2> QED
    BY <2>1, <2>2, <2>3, <2>4
<1> QED
  BY <1>1, <1>2 DEF BackupInv

\* BackupInv holds before the first call.
LEMMA BackupInvInit == Init => BackupInv
<1> SUFFICES ASSUME Init PROVE BackupInv
  OBVIOUS
<1>1. RedisInv
  BY NoneAssumption DEF Init, RedisInit, RedisInv
<1>2. ASSUME NEW b \in Backups PROVE Sound(backup[b])
  BY DEF Init, BackupInit, Fresh, Sound, Reads, Moved
<1> QED
  BY <1>1, <1>2 DEF BackupInv

\* However backups, resets, restarts and faults interleave, a wait that ends
\* without an error saw a new save.
THEOREM WaitsSeeNewSaves == Spec => []WaitSeesNewSave
<1>1. TypeOK /\ BackupInv => WaitSeesNewSave
  BY DEF BackupInv, Sound, Reads, Moved, WaitSeesNewSave, Waited, Pipeline
<1> QED
  BY <1>1, BackupInvInit, BackupInvStep, TypeCorrect, PTL DEF Spec

\* What a successful backup uploads was saved after the backup read LASTSAVE,
\* whatever other backups do to the target.
THEOREM UploadsAreNew == Spec => []UploadIsNew
<1>1. TypeOK /\ BackupInv => UploadIsNew
  BY DEF BackupInv, Sound, Reads, Moved, UploadIsNew, BAt
<1> QED
  BY <1>1, BackupInvInit, BackupInvStep, TypeCorrect, PTL DEF Spec

\* It contains what was written before, unless redis was restarted, another
\* save was in progress, or another backup took the target.
THEOREM BackupsHaveWrites == Spec => []BackupHasWrites
<1>1. TypeOK /\ BackupInv => BackupHasWrites
  BY DEF BackupInv, Sound, Reads, Moved, BackupHasWrites, BAt
<1> QED
  BY <1>1, BackupInvInit, BackupInvStep, TypeCorrect, PTL DEF Spec

-----------------------------------------------------------------------------
(* Log entries, and what is printed of them.                               *)

Message == {STEP, RENAME, S3UPLOAD, CREATE, GETORCREATE, UPLOAD, COPY}
Event == {"starting", "done", "failed", "already-exists", "creating-command", "shelling-out"}
LogEntry == [message : Message, event : Event, level : {INFO, ERROR}]

NoError(entries) == \A i \in DOMAIN entries : entries[i].level = INFO

\* Every operation that was started has ended, but for those in open
Closed(entries, open) ==
  \A i \in DOMAIN entries :
    entries[i].event = "starting" /\ entries[i].message \notin open => Followed(entries, i)

\* What Entry puts in an entry.
LEMMA EntryFields ==
  ASSUME NEW m \in Message, NEW event \in Event
  PROVE  /\ Entry(m, event) \in LogEntry
         /\ Entry(m, event).message = m /\ Entry(m, event).event = event
         /\ Entry(m, event).level = IF event = "failed" THEN ERROR ELSE INFO
BY DEF Entry, LogEntry

\* A function on an initial segment of the numbers is a sequence.
LEMMA IsSequence ==
  ASSUME NEW S, NEW n \in Nat, NEW f \in [1 .. n -> S]
  PROVE  f \in Seq(S) /\ Len(f) = n
OBVIOUS

\* Where the elements of new come from
Joins(a, c, new) ==
  /\ Len(a) \in Nat /\ Len(c) \in Nat
  /\ DOMAIN new = 1 .. Len(a) + Len(c)
  /\ \A i \in 1 .. Len(a) : new[i] = a[i]
  /\ \A i \in 1 .. Len(c) : new[Len(a) + i] = c[i]
  /\ \A i \in 1 .. Len(a) + Len(c) :
       i \in 1 .. Len(a) \/ \E j \in 1 .. Len(c) : i = Len(a) + j

\* A concatenation is the one sequence and then the other.
LEMMA Concatenation ==
  ASSUME NEW S, NEW a \in Seq(S), NEW c \in Seq(S)
  PROVE  a \o c \in Seq(S) /\ Joins(a, c, a \o c)
<1>1. ASSUME NEW i \in 1 .. Len(a) + Len(c), i \notin 1 .. Len(a)
      PROVE  i - Len(a) \in 1 .. Len(c) /\ i = Len(a) + (i - Len(a))
  BY <1>1
<1>2. ASSUME NEW i \in 1 .. Len(c) PROVE (a \o c)[Len(a) + i] = c[i]
  <2>1. Len(a) + i \in 1 .. Len(a) + Len(c) /\ ~(Len(a) + i <= Len(a)) /\ (Len(a) + i) - Len(a) = i
    OBVIOUS
  <2> QED
    BY <2>1
<1>3. ASSUME NEW i \in 1 .. Len(a) PROVE (a \o c)[i] = a[i]
  OBVIOUS
<1>4. a \o c \in Seq(S) /\ Len(a) \in Nat /\ Len(c) \in Nat /\ DOMAIN (a \o c) = 1 .. Len(a) + Len(c)
  OBVIOUS
<1> QED
  BY <1>1, <1>2, <1>3, <1>4, Zenon DEF Joins

\* The ends of calls are logged from the inside out.
LEMMA EndedEffect ==
  ASSUME NEW calls \in Seq(Message), NEW event \in {"done", "failed"}
  PROVE  /\ Ended(calls, event) \in Seq(LogEntry)
         /\ Len(Ended(calls, event)) = Len(calls)
         /\ \A i \in 1 .. Len(calls) :
              /\ calls[Len(calls) - i + 1] \in Message
              /\ Ended(calls, event)[i] = Entry(calls[Len(calls) - i + 1], event)
<1>1. DOMAIN calls = 1 .. Len(calls) /\ Len(calls) \in Nat
  OBVIOUS
<1>2. ASSUME NEW i \in 1 .. Len(calls)
      PROVE  /\ Reverse(calls)[i] = calls[Len(calls) - i + 1]
             /\ calls[Len(calls) - i + 1] \in Message
  BY <1>1 DEF Reverse
<1>3. ASSUME NEW m \in Message PROVE Entry(m, event) \in LogEntry
  BY EntryFields DEF Event
<1>4. Ended(calls, event) = [i \in 1 .. Len(calls) |-> Entry(calls[Len(calls) - i + 1], event)]
  BY <1>1, <1>2, Zenon DEF Ended
<1>5. Ended(calls, event) \in [1 .. Len(calls) -> LogEntry]
  BY <1>2, <1>3, <1>4, SMTT(30)
<1> QED
  BY <1>1, <1>2, <1>4, <1>5, IsSequence, Zenon

\* The starts of calls are logged from the outside in, at level INFO.
LEMMA StartingEffect ==
  ASSUME NEW calls \in Seq(Message)
  PROVE  /\ Starting(calls) \in Seq(LogEntry)
         /\ NoError(Starting(calls))
         /\ \A i \in DOMAIN Starting(calls) :
              i \in DOMAIN calls /\ Starting(calls)[i].message = calls[i]
<1>1. ASSUME NEW m \in Message
      PROVE  /\ Entry(m, "starting") \in LogEntry /\ Entry(m, "starting").level = INFO
             /\ Entry(m, "starting").message = m
  BY EntryFields DEF Event
<1>2. DOMAIN calls = 1 .. Len(calls) /\ Len(calls) \in Nat
  OBVIOUS
<1>3. Starting(calls) \in [1 .. Len(calls) -> LogEntry]
  BY <1>1, <1>2 DEF Starting
<1>4. Starting(calls) \in Seq(LogEntry)
  BY <1>2, <1>3, IsSequence, SMTT(30)
<1> QED
  BY <1>1, <1>2, <1>4 DEF Starting, NoError

\* What is printed of a log whose errors are the ends of calls.
LEMMA Explains ==
  ASSUME NEW a \in Seq(LogEntry), NoError(a), NEW calls \in Seq(Message), calls # <<>>,
         calls[1] = STEP
  PROVE  Explained(a \o Ended(calls, "failed"), calls[Len(calls)])
<1> DEFINE e == Ended(calls, "failed")
           new == a \o e
           lines == Printed(new, ERROR)
           first == Len(a) + 1
           last == Len(a) + Len(calls)
<1>1. /\ e \in Seq(LogEntry) /\ Len(e) = Len(calls)
      /\ \A i \in 1 .. Len(calls) :
           /\ calls[Len(calls) - i + 1] \in Message
           /\ e[i] = Entry(calls[Len(calls) - i + 1], "failed")
  BY EndedEffect
<1>2. Len(calls) \in Nat \ {0}
  OBVIOUS
<1> HIDE DEF e
<1>3. /\ DOMAIN new = 1 .. last
      /\ \A i \in 1 .. Len(a) : new[i] = a[i]
      /\ \A i \in 1 .. Len(calls) : new[Len(a) + i] = e[i]
      /\ \A i \in 1 .. last : i \in 1 .. Len(a) \/ \E j \in 1 .. Len(calls) : i = Len(a) + j
      /\ Len(a) \in Nat
  <2>1. Joins(a, e, new)
    BY <1>1, Concatenation
  <2> QED
    BY <1>1, <2>1 DEF Joins
<1> HIDE DEF new
<1>4. \A i \in 1 .. Len(a) : ~(new[i].level >= ERROR)
  BY <1>3 DEF NoError, INFO, ERROR
<1>5. ASSUME NEW i \in 1 .. Len(calls)
      PROVE  /\ new[Len(a) + i].message = calls[Len(calls) - i + 1]
             /\ new[Len(a) + i].event = "failed" /\ new[Len(a) + i].level = ERROR
  BY <1>1, <1>3, <1>5, EntryFields, SMTT(30) DEF Event
<1>6. DOMAIN lines = first .. last
  <2>1. DOMAIN lines = {i \in DOMAIN new : new[i].level >= ERROR /\ new[i].event # ""}
    BY DEF Printed
  <2>2. ASSUME NEW i \in 1 .. Len(calls)
        PROVE  new[Len(a) + i].level >= ERROR /\ new[Len(a) + i].event # ""
    <3>1. "failed" # ""
      BY Zenon
    <3>2. ERROR >= ERROR
      BY DEF ERROR
    <3> QED
      BY <1>5, <2>2, <3>1, <3>2, Zenon
  <2>3. \A i \in first .. last : \E j \in 1 .. Len(calls) : i = Len(a) + j
    <3>1. ASSUME NEW i \in first .. last
          PROVE  i - Len(a) \in 1 .. Len(calls) /\ i = Len(a) + (i - Len(a))
      BY <1>2, <1>3
    <3> QED
      BY <3>1, Zenon
  <2>4. \A j \in 1 .. Len(calls) : Len(a) + j \in first .. last
    BY <1>2, <1>3
  <2>5. first .. last \subseteq 1 .. last
    BY <1>2, <1>3
  <2> HIDE DEF lines, first, last
  <2>6. ASSUME NEW i \in DOMAIN lines PROVE i \in first .. last
    <3>1. i \in 1 .. last /\ i \notin 1 .. Len(a)
      BY <1>3, <1>4, <2>1, <2>6, Zenon
    <3> QED
      BY <1>3, <2>4, <3>1, Zenon
  <2>7. \A i \in first .. last : i \in DOMAIN lines
    BY <1>3, <2>1, <2>2, <2>3, <2>5, Zenon
  <2> QED
    BY <2>6, <2>7, Zenon
<1>7. \A i \in first .. last : lines[i] = <<Last(new[i].message), new[i].event>>
  BY <1>6, Zenon DEF Printed, prettify
<1>8. /\ new[first].message = calls[Len(calls)] /\ new[first].event = "failed"
      /\ new[last].message = STEP /\ new[last].event = "failed"
  BY <1>2, <1>5
<1>9. first \in first .. last /\ last \in first .. last
      /\ \A i \in first .. last : first <= i /\ i <= last
  BY <1>2
<1> HIDE DEF first, last, lines
<1>10. /\ lines[first] = <<Last(calls[Len(calls)]), "failed">>
       /\ lines[last] = <<Last(STEP), "failed">>
  BY <1>7, <1>8, <1>9
<1>11. \E f, l \in DOMAIN lines :
         /\ \A i \in DOMAIN lines : f <= i /\ i <= l
         /\ lines[f] = <<Last(calls[Len(calls)]), "failed">>
         /\ lines[l] = <<Last(STEP), "failed">>
  BY <1>6, <1>9, <1>10
<1> QED
  BY <1>11 DEF Explained, lines, new, e

\* What was open before, or is started in m, is open afterwards unless it is
\* one of the calls
Leaves(before, m, calls, open) ==
  /\ \A x \in before : x \in open \/ \E k \in DOMAIN calls : x = calls[k]
  /\ \A i \in DOMAIN m : m[i].event = "starting" =>
       m[i].message \in open \/ \E k \in DOMAIN calls : m[i].message = calls[k]

\* A log that ends with the ends of calls
Reported(new, calls, event, open) ==
  /\ new \in Seq(LogEntry)
  /\ event = "done" => NoError(new)
  /\ event = "failed" /\ calls[1] = STEP => Explained(new, calls[Len(calls)])
  /\ Closed(new, open)

\* One more report: the entries of a, then m, then the ends of calls.
LEMMA Reports ==
  ASSUME NEW a \in Seq(LogEntry), NEW m \in Seq(LogEntry), NoError(a), NoError(m),
         NEW calls \in Seq(Message), calls # <<>>, NEW event \in {"done", "failed"},
         NEW before, NEW open, Closed(a, before), Leaves(before, m, calls, open)
  PROVE  Reported(a \o (m \o Ended(calls, event)), calls, event, open)
<1> DEFINE new == a \o (m \o Ended(calls, event))
<1> DEFINE e == Ended(calls, event)
           am == a \o m
<1>1. /\ e \in Seq(LogEntry) /\ Len(e) = Len(calls)
      /\ \A i \in 1 .. Len(calls) :
           /\ calls[Len(calls) - i + 1] \in Message
           /\ e[i] = Entry(calls[Len(calls) - i + 1], event)
  BY EndedEffect
<1>2. am \in Seq(LogEntry) /\ Joins(a, m, am)
  BY Concatenation
<1>3. new = am \o e
  BY <1>1
<1>4. NoError(am)
  BY <1>2, SMTT(30) DEF NoError, Joins
<1>5. new \in Seq(LogEntry) /\ Joins(am, e, new)
  BY <1>1, <1>2, <1>3, Concatenation, Zenon
<1>6. event = "failed" /\ calls[1] = STEP => Explained(new, calls[Len(calls)])
  BY <1>2, <1>3, <1>4, Explains, Zenon
<1> HIDE DEF e, am, new
<1>7. ASSUME NEW i \in 1 .. Len(e)
      PROVE  /\ e[i].message = calls[Len(calls) - i + 1] /\ e[i].event = event
             /\ event = "done" => e[i].level = INFO
  BY <1>1, <1>7, EntryFields DEF Event
<1>8. DOMAIN a = 1 .. Len(a) /\ DOMAIN m = 1 .. Len(m) /\ DOMAIN am = 1 .. Len(am)
      /\ DOMAIN e = 1 .. Len(e) /\ DOMAIN calls = 1 .. Len(calls) /\ Len(calls) \in Nat
  BY <1>1, <1>2
<1>9. event = "done" => NoError(new)
  <2> SUFFICES ASSUME event = "done", NEW i \in DOMAIN new PROVE new[i].level = INFO
    BY DEF NoError
  <2>1. CASE i \in 1 .. Len(am)
    BY <1>4, <1>5, <1>8, <2>1, SMTT(30) DEF NoError, Joins
  <2>2. ASSUME NEW j \in 1 .. Len(e), i = Len(am) + j PROVE new[i].level = INFO
    BY <1>5, <1>7, <2>2, Zenon DEF Joins
  <2> QED
    BY <1>5, <2>1, <2>2, Zenon DEF Joins
<1>10. ASSUME NEW i \in 1 .. Len(am), NEW k \in DOMAIN calls, am[i].message = calls[k]
       PROVE  Followed(new, i)
  <2> DEFINE j == Len(calls) - k + 1
  <2>1. j \in 1 .. Len(e) /\ Len(calls) - j + 1 = k
    BY <1>1, <1>8
  <2> HIDE DEF j
  <2>2. new[i] = am[i] /\ new[Len(am) + j] = e[j]
    BY <1>5, <2>1, Zenon DEF Joins
  <2>3. Len(am) + j \in DOMAIN new /\ Len(am) + j > i
    BY <1>5, <2>1 DEF Joins
  <2>4. e[j].message = am[i].message /\ e[j].event \in {"done", "failed"}
    BY <1>7, <1>10, <2>1, SMTT(30)
  <2> QED
    BY <2>2, <2>3, <2>4, SMTT(30) DEF Followed
<1>11. ASSUME NEW i \in 1 .. Len(a), Followed(a, i) PROVE Followed(new, i)
  <2>1. PICK j \in DOMAIN a : /\ j > i /\ a[j].message = a[i].message
                              /\ a[j].event \in {"done", "failed"}
    BY <1>11 DEF Followed
  <2>2. \A n \in 1 .. Len(a) : n \in DOMAIN new /\ new[n] = a[n]
    <3>1. \A n \in 1 .. Len(a) : n \in 1 .. Len(am) /\ am[n] = a[n]
      BY <1>2, <1>8 DEF Joins
    <3> QED
      BY <1>5, <3>1, SMTT(30) DEF Joins
  <2> QED
    BY <1>8, <2>1, <2>2, SMTT(30) DEF Followed
<1>12. Closed(new, open)
  <2> SUFFICES ASSUME NEW i \in DOMAIN new, new[i].event = "starting", new[i].message \notin open
               PROVE  Followed(new, i)
    BY DEF Closed
  <2>1. CASE i \in 1 .. Len(am)
    <3>1. new[i] = am[i]
      BY <1>5, <2>1, SMTT(30) DEF Joins
    <3>2. CASE i \in 1 .. Len(a)
      <4>1. am[i] = a[i]
        BY <1>2, <3>2, SMTT(30) DEF Joins
      <4>2. CASE a[i].message \in before
        BY <1>10, <2>1, <3>1, <4>1, <4>2, SMTT(30) DEF Leaves
      <4>3. CASE a[i].message \notin before
        BY <1>8, <1>11, <3>1, <3>2, <4>1, <4>3, SMTT(30) DEF Closed
      <4> QED
        BY <4>2, <4>3, SMTT(30)
    <3>3. ASSUME NEW j \in 1 .. Len(m), i = Len(a) + j PROVE Followed(new, i)
      <4>1. am[i] = m[j]
        BY <1>2, <3>3 DEF Joins
      <4> QED
        BY <1>8, <1>10, <2>1, <3>1, <4>1, SMTT(30) DEF Leaves
    <3>4. i \in 1 .. Len(a) + Len(m)
      BY <1>2, <1>8, <2>1, SMTT(30) DEF Joins
    <3> QED
      BY <1>2, <3>2, <3>3, <3>4, Zenon DEF Joins
  <2>2. ASSUME NEW j \in 1 .. Len(e), i = Len(am) + j PROVE FALSE
    BY <1>5, <1>7, <2>2, SMTT(30) DEF Joins
  <2> QED
    BY <1>5, <2>1, <2>2, Zenon DEF Joins
<1> QED
  BY <1>5, <1>6, <1>9, <1>12 DEF Reported, new

\* obfuscate masks a secret of any length and any characters.
THEOREM Obfuscates ==
  ASSUME NEW S, NEW secret \in Seq(S)
  PROVE  Masks(secret)
<1> DEFINE n == Len(secret)
           quarter == n \div 4
           shown == IF quarter < 4 THEN quarter ELSE 4
           cutoff == n - shown
<1>1. n \in Nat /\ DOMAIN secret = 1 .. n
  OBVIOUS
<1>2. quarter \in Nat /\ 4 * quarter <= n /\ (n >= 16 => quarter >= 4)
  BY <1>1
<1>3. /\ DOMAIN obfuscate(secret) = DOMAIN secret
      /\ \A i \in DOMAIN secret :
           obfuscate(secret)[i] = IF cutoff > 0 /\ i > cutoff THEN secret[i] ELSE "*"
  BY DEF obfuscate
<1> HIDE DEF n, quarter
<1>4. \A i \in 1 .. n : i > cutoff => 4 * (n - i + 1) <= n /\ n - i < 4
  BY <1>1, <1>2
<1>5. n >= 16 => cutoff = n - 4 /\ cutoff > 0
  BY <1>1, <1>2
<1> HIDE DEF cutoff, shown
<1>6. \A i \in DOMAIN secret :
        obfuscate(secret)[i] # "*" =>
          obfuscate(secret)[i] = secret[i] /\ 4 * (n - i + 1) <= n /\ n - i < 4
  BY <1>1, <1>3, <1>4, Zenon
<1>7. n >= 16 => \A i \in n - 3 .. n : obfuscate(secret)[i] = secret[i]
  BY <1>1, <1>3, <1>5
<1> QED
  BY <1>3, <1>6, <1>7 DEF Masks, n

-----------------------------------------------------------------------------
(* What a backup logs.                                                     *)

\* Between createBucket and uploadToBucket the task s3upload is under way, and
\* only then is an operation unfinished.
LogInv ==
  /\ log \in [Backups -> Seq(LogEntry)]
  /\ \A b \in Backups :
       /\ backup[b].cause = None => NoError(log[b])
       /\ backup[b].cause # None => BAt(b, "failed") /\ Explained(log[b], backup[b].cause)
       /\ Closed(log[b], IF BAt(b, "upload") THEN {STEP, S3UPLOAD} ELSE {})

\* Steps of a snapshot log nothing, and no cause is known when they fail.
LEMMA SilentSteps ==
  ASSUME TypeOK, NEW b \in Backups,
         BackupStarts(b) \/ (BackupStep(b) /\ ~rename(b) /\ ~Run(b))
  PROVE  /\ log' = log /\ \A c \in Backups : c # b => backup'[c] = backup[c]
         /\ backup[b].pc # "upload" /\ backup[b].pc # "failed"
         /\ backup'[b].pc # "upload" /\ backup'[b].cause \in {None, backup[b].cause}
<1>1. backup[b] \in BackupState /\ backup \in [Backups -> BackupState]
  BY DEF TypeOK, BackupTypeOK
<1> DEFINE Others == \A c \in Backups : c # b => backup'[c] = backup[c]
<1>2. BFails(b) => Others /\ backup'[b].pc # "upload" /\ backup'[b].cause = None
  BY <1>1 DEF BFails, Fresh
<1>3. ASSUME NEW step, BGoes(b, step), step # "upload"
      PROVE  Others /\ backup'[b].pc # "upload" /\ backup'[b].cause = backup[b].cause
  BY <1>1, <1>3 DEF BGoes, BackupState
<1>4. CASE ConnectClient(b)
  <2> DEFINE Connects(c) == backup' = [backup EXCEPT ![b].pc = "loading", ![b].client = c]
  <2>1. ASSUME NEW c, Connects(c)
        PROVE  Others /\ backup'[b].pc = "loading" /\ backup'[b].cause = backup[b].cause
    BY <1>1, <2>1, SMTT(30) DEF BackupState
  <2>2. log' = log /\ backup[b].pc = "connect" /\ (BFails(b) \/ \E c : Connects(c))
    BY <1>4, Zenon DEF ConnectClient, BAt
  <2> HIDE DEF Connects
  <2> QED
    BY <1>2, <2>1, <2>2, Zenon
<1>5. CASE WaitUntilRedisNotLoading(b)
  <2>1. log' = log /\ backup[b].pc = "loading" /\ (BFails(b) \/ BGoes(b, "lastsave"))
    BY <1>5, Zenon DEF WaitUntilRedisNotLoading, BAt, Quiet
  <2> QED
    BY <1>2, <1>3, <2>1, Zenon
<1>6. CASE LastRDBSaveTime(b)
  BY <1>1, <1>2, <1>6, SMTT(30) DEF LastRDBSaveTime, BAt, Quiet, BackupState
<1>7. CASE RunBGSave(b)
  <2>1. log' = log /\ backup[b].pc = "bgsave" /\ (BFails(b) \/ BGoes(b, "wait"))
    BY <1>7, Zenon DEF RunBGSave, BAt
  <2> QED
    BY <1>2, <1>3, <2>1, Zenon
<1>8. CASE WaitForNewSaveSince(b)
  <2>1. log' = log /\ backup[b].pc = "wait" /\ (BFails(b) \/ BGoes(b, "path"))
    BY <1>8, Zenon DEF WaitForNewSaveSince, BAt, Quiet
  <2> QED
    BY <1>2, <1>3, <2>1, Zenon
<1>9. CASE RDBPath(b)
  <2>1. log' = log /\ backup[b].pc = "path" /\ (BFails(b) \/ BGoes(b, "rename"))
    BY <1>9, Zenon DEF RDBPath, BAt, Quiet
  <2> QED
    BY <1>2, <1>3, <2>1, Zenon
<1> QED
  BY <1>4, <1>5, <1>6, <1>7, <1>8, <1>9, Zenon DEF BackupStarts, BackupStep, BackupSteps

\* One call logs entries, and LogInv holds of it again.
LEMMA LogStep ==
  ASSUME TypeOK, LogInv, NEW b \in Backups, NEW new \in Seq(LogEntry),
         log' = [log EXCEPT ![b] = new],
         \A c \in Backups : c # b => backup'[c] = backup[c],
         backup'[b].cause = None => NoError(new),
         backup'[b].cause # None => BAt(b, "failed")' /\ Explained(new, backup'[b].cause),
         Closed(new, IF BAt(b, "upload")' THEN {STEP, S3UPLOAD} ELSE {})
  PROVE  LogInv'
<1>1. log' \in [Backups -> Seq(LogEntry)] /\ log'[b] = new
      /\ \A c \in Backups : c # b => log'[c] = log[c]
  <2>1. log \in [Backups -> Seq(LogEntry)]
    BY Zenon DEF LogInv
  <2> QED
    BY <2>1, Zenon
<1>2. ASSUME NEW c \in Backups
      PROVE  /\ backup'[c].cause = None => NoError(log'[c])
             /\ backup'[c].cause # None => backup'[c].pc = "failed" /\ Explained(log'[c], backup'[c].cause)
             /\ Closed(log'[c], IF backup'[c].pc = "upload" THEN {STEP, S3UPLOAD} ELSE {})
  <2>1. CASE c = b
    BY <1>1, <2>1 DEF BAt
  <2>2. CASE c # b
    BY <1>1, <2>2, Zenon DEF LogInv, BAt
  <2> QED
    BY <2>1, <2>2
<1> QED
  BY <1>1, <1>2, Zenon DEF LogInv, BAt, NoError, Explained, Closed, Followed, Printed

\* A call that goes wrong has its cause, and one that goes on has none.
LEMMA Causes ==
  ASSUME TypeOK, NEW b \in Backups
  PROVE  /\ \A cause : Breaks(b, cause) =>
              /\ backup'[b].cause = cause /\ backup'[b].pc = "failed"
              /\ \A c \in Backups : c # b => backup'[c] = backup[c]
         /\ \A step : BGoes(b, step) =>
              /\ backup'[b].cause = backup[b].cause /\ backup'[b].pc = step
              /\ \A c \in Backups : c # b => backup'[c] = backup[c]
<1>1. backup[b] \in BackupState /\ backup \in [Backups -> BackupState]
  BY DEF TypeOK, BackupTypeOK
<1>2. ASSUME NEW cause, Breaks(b, cause)
      PROVE  /\ backup'[b].cause = cause /\ backup'[b].pc = "failed"
             /\ \A c \in Backups : c # b => backup'[c] = backup[c]
  BY <1>1, <1>2 DEF Breaks, Fresh
<1>3. ASSUME NEW step, BGoes(b, step)
      PROVE  /\ backup'[b].cause = backup[b].cause /\ backup'[b].pc = step
             /\ \A c \in Backups : c # b => backup'[c] = backup[c]
  BY <1>1, <1>3 DEF BGoes, BackupState
<1> QED
  BY <1>2, <1>3

\* The task rename keeps LogInv.
LEMMA RenameLogs ==
  ASSUME TypeOK, LogInv, NEW b \in Backups, rename(b)
  PROVE  LogInv'
<1> DEFINE calls == <<STEP, RENAME>>
           a == log[b]
           m == Starting(calls)
           Report(event) == a \o (m \o Ended(calls, event))
<1>1. a \in Seq(LogEntry) /\ BAt(b, "rename") /\ backup[b].cause = None
      /\ NoError(a) /\ Closed(a, {})
  <2>1. backup[b].pc = "rename"
    BY Zenon DEF rename, BAt
  <2> QED
    BY <2>1, Zenon DEF LogInv, BAt
<1>2. calls \in Seq(Message) /\ calls # <<>> /\ Len(calls) = 2 /\ calls[1] = STEP /\ calls[2] = RENAME
  BY DEF Message
<1> HIDE DEF calls
<1>3. ASSUME NEW event \in {"done", "failed"}
      PROVE  Reported(Report(event), calls, event, {})
  <2>1. /\ m \in Seq(LogEntry) /\ NoError(m)
        /\ \A i \in DOMAIN m : i \in DOMAIN calls /\ m[i].message = calls[i]
    BY <1>2, StartingEffect
  <2> HIDE DEF a, m
  <2>2. Leaves({}, m, calls, {})
    BY <2>1 DEF Leaves
  <2> QED
    BY <1>1, <1>2, <2>1, <2>2, Reports
<1> HIDE DEF a
<1>4. ASSUME NEW event \in {"done", "failed"}, Logs(b, Starting(calls) \o Ended(calls, event))
      PROVE  log' = [log EXCEPT ![b] = Report(event)]
  BY <1>4 DEF Logs, LogInv, a
<1> HIDE DEF Report
<1>5. CASE Logs(b, Starting(calls) \o Ended(calls, "failed")) /\ Breaks(b, RENAME)
  <2>1. log' = [log EXCEPT ![b] = Report("failed")]
    BY <1>4, <1>5
  <2>2. RENAME # None
    BY CauseAssumption
  <2> QED
    BY <1>2, <1>3, <1>5, <2>1, <2>2, Causes, LogStep, Zenon DEF BAt, Reported
<1>6. CASE /\ Logs(b, Starting(calls) \o Ended(calls, "done"))
           /\ backup' = [backup EXCEPT ![b].pc = "bucket", ![b].path = "target",
                                       ![b].took = rdb, ![b].same = (client(b).pid = pid)]
  <2>1. log' = [log EXCEPT ![b] = Report("done")]
    BY <1>4, <1>6
  <2>2. /\ backup'[b].cause = None /\ backup'[b].pc = "bucket"
        /\ \A c \in Backups : c # b => backup'[c] = backup[c]
    BY <1>1, <1>6 DEF TypeOK, BackupTypeOK, BackupState
  <2> QED
    BY <1>3, <2>1, <2>2, LogStep, Zenon DEF BAt, Reported
<1> QED
  BY <1>5, <1>6 DEF rename, calls

\* createBucket keeps LogInv; it leaves the step and the task open when it
\* succeeds.
LEMMA CreateBucketLogs ==
  ASSUME TypeOK, LogInv, NEW b \in Backups, createBucket(b)
  PROVE  LogInv'
<1> DEFINE calls == <<STEP, S3UPLOAD, CREATE, GETORCREATE>>
           inner == <<CREATE, GETORCREATE>>
           a == log[b]
           m == Starting(calls)
           n == m \o <<Entry(GETORCREATE, "already-exists")>>
           open == {STEP, S3UPLOAD}
<1>1. a \in Seq(LogEntry) /\ BAt(b, "bucket") /\ backup[b].cause = None
      /\ NoError(a) /\ Closed(a, {})
  BY Zenon DEF LogInv, createBucket, BAt
<1>2. /\ calls \in Seq(Message) /\ calls # <<>> /\ Len(calls) = 4 /\ calls[1] = STEP
      /\ calls[4] = GETORCREATE
      /\ inner \in Seq(Message) /\ inner # <<>>
  BY DEF Message
<1>3. \A k \in DOMAIN calls : calls[k] \in open \/ \E j \in DOMAIN inner : calls[k] = inner[j]
  <2>1. /\ calls[1] = STEP /\ calls[2] = S3UPLOAD /\ calls[3] = inner[1] /\ calls[4] = inner[2]
        /\ DOMAIN calls = 1 .. 4 /\ DOMAIN inner = 1 .. 2
    OBVIOUS
  <2>2. \A k \in 1 .. 4 : k \in {1, 2, 3, 4}
    OBVIOUS
  <2> HIDE DEF calls, inner
  <2> QED
    BY <2>1, <2>2
<1> HIDE DEF calls, inner
<1>4. /\ m \in Seq(LogEntry) /\ NoError(m)
      /\ \A i \in DOMAIN m : i \in DOMAIN calls /\ m[i].message = calls[i]
  BY <1>2, StartingEffect
<1> HIDE DEF m
<1>5. /\ n \in Seq(LogEntry) /\ NoError(n)
      /\ \A i \in DOMAIN n : n[i].event = "starting" => i \in DOMAIN m /\ n[i] = m[i]
  <2> DEFINE there == Entry(GETORCREATE, "already-exists")
  <2>1. there \in LogEntry /\ there.event # "starting" /\ there.level = INFO
    BY EntryFields DEF Message, Event
  <2> HIDE DEF there
  <2>2. <<there>> \in Seq(LogEntry) /\ Len(<<there>>) = 1 /\ <<there>>[1] = there
    BY <2>1
  <2>3. n \in Seq(LogEntry) /\ Joins(m, <<there>>, n)
    BY <1>4, <2>2, Concatenation, Zenon DEF there
  <2> HIDE DEF n
  <2>4. DOMAIN m = 1 .. Len(m)
    BY <1>4
  <2>5. ASSUME NEW i \in DOMAIN n PROVE (i \in DOMAIN m /\ n[i] = m[i]) \/ n[i] = there
    BY <2>2, <2>3, <2>4 DEF Joins
  <2> QED
    BY <1>4, <2>1, <2>3, <2>5, Zenon DEF NoError
<1> HIDE DEF n
<1>6. Leaves({}, m, inner, open) /\ Leaves({}, n, inner, open) /\ Leaves({}, m, calls, {})
  BY <1>3, <1>4, <1>5, SMTT(30) DEF Leaves
<1> HIDE DEF a, open
<1>7. /\ Reported(a \o (m \o Ended(inner, "done")), inner, "done", open)
      /\ Reported(a \o (n \o Ended(inner, "done")), inner, "done", open)
      /\ Reported(a \o (m \o Ended(calls, "failed")), calls, "failed", {})
  BY <1>1, <1>2, <1>4, <1>5, <1>6, Reports, Zenon
<1>8. ASSUME NEW new, Logs(b, new) PROVE log' = [log EXCEPT ![b] = a \o new]
  BY <1>8, SMTT(30) DEF Logs, LogInv, a
<1>9. CASE BGoes(b, "upload") /\ Logs(b, m \o Ended(inner, "done"))
  BY <1>1, <1>7, <1>8, <1>9, Causes, LogStep, Zenon DEF BAt, Reported, open
<1>10. CASE BGoes(b, "upload") /\ Logs(b, n \o Ended(inner, "done"))
  BY <1>1, <1>7, <1>8, <1>10, Causes, LogStep, ZenonT(30) DEF BAt, Reported, open
<1>11. CASE Breaks(b, GETORCREATE) /\ Logs(b, m \o Ended(calls, "failed"))
  <2>1. GETORCREATE # None
    BY CauseAssumption
  <2> DEFINE new == a \o (m \o Ended(calls, "failed"))
  <2>2. log' = [log EXCEPT ![b] = new]
    BY <1>8, <1>11, Zenon
  <2>3. new \in Seq(LogEntry) /\ Explained(new, GETORCREATE) /\ Closed(new, {})
    BY <1>2, <1>7 DEF Reported
  <2> HIDE DEF new
  <2> QED
    BY <1>11, <2>1, <2>2, <2>3, Causes, LogStep, Zenon DEF BAt
<1> QED
  BY <1>9, <1>10, <1>11, SMTT(30) DEF createBucket, calls, inner, m, n

\* uploadToBucket keeps LogInv: it ends what createBucket left open.
LEMMA UploadLogs ==
  ASSUME TypeOK, LogInv, NEW b \in Backups, uploadToBucket(b)
  PROVE  LogInv'
<1> DEFINE calls == <<STEP, S3UPLOAD, UPLOAD, COPY>>
           a == log[b]
           s == Starting(<<UPLOAD>>)
           more == <<Entry(COPY, "creating-command"), Entry(COPY, "shelling-out")>>
           m == s \o more
           open == {STEP, S3UPLOAD}
<1>1. a \in Seq(LogEntry) /\ BAt(b, "upload") /\ backup[b].cause = None
      /\ NoError(a) /\ Closed(a, open)
  BY Zenon DEF LogInv, uploadToBucket, BAt
<1>2. /\ calls \in Seq(Message) /\ calls # <<>> /\ Len(calls) = 4 /\ calls[1] = STEP
      /\ calls[2] = S3UPLOAD /\ calls[3] = UPLOAD /\ calls[4] = COPY /\ DOMAIN calls = 1 .. 4
  BY DEF Message
<1> HIDE DEF calls
<1>3. /\ s \in Seq(LogEntry) /\ NoError(s)
      /\ \A i \in DOMAIN s : s[i].message = UPLOAD
  <2> DEFINE u == <<UPLOAD>>
  <2>1. u \in Seq(Message) /\ \A i \in DOMAIN u : u[i] = UPLOAD
    BY DEF Message
  <2> HIDE DEF u
  <2>2. /\ Starting(u) \in Seq(LogEntry) /\ NoError(Starting(u))
        /\ \A i \in DOMAIN Starting(u) : i \in DOMAIN u /\ Starting(u)[i].message = u[i]
    BY <2>1, StartingEffect
  <2> QED
    BY <2>1, <2>2 DEF u
<1>4. more \in Seq(LogEntry) /\ NoError(more) /\ \A i \in DOMAIN more : more[i].event # "starting"
  <2> DEFINE x == Entry(COPY, "creating-command")
             y == Entry(COPY, "shelling-out")
  <2>1. /\ x \in LogEntry /\ x.event # "starting" /\ x.level = INFO
        /\ y \in LogEntry /\ y.event # "starting" /\ y.level = INFO
    BY EntryFields DEF Message, Event
  <2> HIDE DEF x, y
  <2>2. more = <<x, y>>
    BY DEF x, y
  <2> HIDE DEF more
  <2>3. more \in Seq(LogEntry) /\ \A i \in DOMAIN more : more[i] \in {x, y}
    BY <2>1, <2>2
  <2> QED
    BY <2>1, <2>3, SMTT(30) DEF NoError
<1> HIDE DEF s, more
<1>5. m \in Seq(LogEntry) /\ Joins(s, more, m)
  BY <1>3, <1>4, Concatenation
<1> HIDE DEF m
<1>6. \A i \in DOMAIN m : (\E j \in DOMAIN s : m[i] = s[j]) \/ \E j \in DOMAIN more : m[i] = more[j]
  <2>1. DOMAIN s = 1 .. Len(s) /\ DOMAIN more = 1 .. Len(more)
    BY <1>3, <1>4
  <2> SUFFICES ASSUME NEW i \in DOMAIN m
               PROVE  (\E j \in DOMAIN s : m[i] = s[j]) \/ \E j \in DOMAIN more : m[i] = more[j]
    OBVIOUS
  <2>2. CASE i \in 1 .. Len(s)
    BY <1>5, <2>1, <2>2 DEF Joins
  <2>3. ASSUME NEW j \in 1 .. Len(more), i = Len(s) + j PROVE m[i] = more[j]
    BY <1>5, <2>3, Zenon DEF Joins
  <2> QED
    BY <1>5, <2>1, <2>2, <2>3, Zenon DEF Joins
<1>7. NoError(m) /\ Leaves(open, m, calls, {})
  <2>1. NoError(m)
    BY <1>3, <1>4, <1>6 DEF NoError
  <2>2. \A x \in open : \E k \in DOMAIN calls : x = calls[k]
    BY <1>2
  <2>3. ASSUME NEW i \in DOMAIN m, m[i].event = "starting" PROVE m[i].message = calls[3]
    BY <1>2, <1>3, <1>4, <1>6, <2>3, SMTT(30)
  <2> QED
    BY <1>2, <2>1, <2>2, <2>3, SMTT(30) DEF Leaves
<1> HIDE DEF a, open
<1>8. ASSUME NEW event \in {"done", "failed"}
      PROVE  Reported(a \o (m \o Ended(calls, event)), calls, event, {})
  BY <1>1, <1>2, <1>5, <1>7, Reports, SMTT(30)
<1>9. ASSUME NEW new, Logs(b, new) PROVE log' = [log EXCEPT ![b] = a \o new]
  BY <1>9, Zenon DEF Logs, LogInv, a
<1>10. CASE /\ Logs(b, m \o Ended(calls, "done"))
            /\ backup' = [backup EXCEPT ![b].pc = "ok", ![b].got = Content(backup[b].path),
                                        ![b].client = None]
  <2>1. /\ backup'[b].cause = None /\ backup'[b].pc = "ok"
        /\ \A c \in Backups : c # b => backup'[c] = backup[c]
    BY <1>1, <1>10 DEF TypeOK, BackupTypeOK, BackupState
  <2>2. Reported(a \o (m \o Ended(calls, "done")), calls, "done", {})
    BY <1>8
  <2> QED
    BY <1>9, <1>10, <2>1, <2>2, LogStep, Zenon DEF BAt, Reported
<1>11. CASE Breaks(b, COPY) /\ Logs(b, m \o Ended(calls, "failed"))
  <2>1. COPY # None
    BY CauseAssumption, SMTT(30)
  <2> DEFINE new == a \o (m \o Ended(calls, "failed"))
  <2>2. log' = [log EXCEPT ![b] = new]
    BY <1>9, <1>11, Zenon
  <2>3. new \in Seq(LogEntry) /\ Explained(new, COPY) /\ Closed(new, {})
    BY <1>2, <1>8 DEF Reported
  <2> HIDE DEF new
  <2> QED
    BY <1>11, <2>1, <2>2, <2>3, Causes, LogStep, Zenon DEF BAt
<1> QED
  BY <1>10, <1>11 DEF uploadToBucket, calls, m, s, more

\* LogInv is inductive.
LEMMA LogInvStep == TypeOK /\ LogInv /\ [Next]_vars => LogInv'
<1> SUFFICES ASSUME TypeOK, LogInv, [Next]_vars PROVE LogInv'
  OBVIOUS
<1>1. ASSUME UNCHANGED backupVars PROVE LogInv'
  <2>1. log' = log /\ backup' = backup
    BY <1>1 DEF backupVars
  <2>2. /\ log' \in [Backups -> Seq(LogEntry)]
        /\ \A c \in Backups :
             /\ backup'[c].cause = None => NoError(log'[c])
             /\ backup'[c].cause # None =>
                  backup'[c].pc = "failed" /\ Explained(log'[c], backup'[c].cause)
             /\ Closed(log'[c], IF backup'[c].pc = "upload" THEN {STEP, S3UPLOAD} ELSE {})
    BY <2>1, Zenon DEF LogInv, BAt
  <2> QED
    BY <2>2, Zenon DEF LogInv, BAt, NoError, Explained, Closed, Followed, Printed
<1>2. ASSUME NEW b \in Backups, BackupStarts(b) \/ BackupStep(b) PROVE LogInv'
  <2>1. CASE rename(b)
    BY <2>1, RenameLogs
  <2>2. CASE Run(b)
    BY <2>2, CreateBucketLogs, UploadLogs, SMTT(30) DEF Run
  <2>3. CASE ~rename(b) /\ ~Run(b)
    <3>1. /\ log' = log /\ \A c \in Backups : c # b => backup'[c] = backup[c]
          /\ backup[b].pc # "upload" /\ backup[b].pc # "failed"
          /\ backup'[b].pc # "upload" /\ backup'[b].cause \in {None, backup[b].cause}
      BY <1>2, <2>3, SilentSteps, SMTT(30)
    <3>2. log[b] \in Seq(LogEntry) /\ backup[b].cause = None /\ NoError(log[b])
      BY <3>1, Zenon DEF LogInv, BAt
    <3>4. Closed(log[b], {})
      BY <3>1, Zenon DEF LogInv, BAt
    <3>3. log' = [log EXCEPT ![b] = log[b]]
      BY <3>1, Zenon DEF LogInv
    <3> DEFINE new == log[b]
    <3> HIDE DEF new
    <3> QED
      BY <3>1, <3>2, <3>3, <3>4, LogStep, Zenon DEF BAt
  <2> QED
    BY <2>1, <2>2, <2>3, SMTT(30)
<1>3. CASE ~ \E b \in Backups : BackupStarts(b) \/ BackupStep(b)
  <2>1. UNCHANGED backupVars
    BY <1>3, SMTT(30) DEF Next, vars, RedisStep, ClientStep, ResetStarts, ResetStep, ResetKilled
  <2> QED
    BY <1>1, <2>1
<1> QED
  BY <1>2, <1>3

\* Nothing is logged before the first call.
LEMMA LogInvInit == Init => LogInv
<1> SUFFICES ASSUME Init PROVE LogInv
  OBVIOUS
<1>1. /\ log = [b \in Backups |-> <<>>]
      /\ \A b \in Backups : backup[b].cause = None /\ backup[b].pc = "connect"
  BY DEF Init, BackupInit, Fresh
<1>2. <<>> \in Seq(LogEntry) /\ NoError(<<>>) /\ Closed(<<>>, {})
  BY DEF NoError, Closed
<1> QED
  BY <1>1, <1>2 DEF LogInv, BAt

\* However many backups run at a time and whichever operation fails, the error
\* lines of a call name the operation that failed first and end with the
\* pipeline's, and a call that did not fail there has none.
THEOREM FailuresAreExplained == Spec => []FailureIsExplained
<1>1. LogInv => FailureIsExplained
  <2> SUFFICES ASSUME LogInv, NEW b \in Backups
               PROVE  IF backup[b].cause = None THEN DOMAIN Printed(log[b], ERROR) = {}
                      ELSE Explained(log[b], backup[b].cause)
    BY DEF FailureIsExplained
  <2>1. ASSUME NoError(log[b]) PROVE DOMAIN Printed(log[b], ERROR) = {}
    <3>1. ~(INFO >= ERROR)
      BY DEF INFO, ERROR
    <3> QED
      BY <2>1, <3>1, Zenon DEF NoError, Printed
  <2> QED
    BY <2>1 DEF LogInv
<1> QED
  BY <1>1, LogInvInit, LogInvStep, TypeCorrect, PTL DEF Spec

\* The log of a backup that returned reports the end of whatever it reports the
\* start of.
THEOREM StartsEnd == Spec => []EveryStartEnds
<1>1. LogInv => EveryStartEnds
  BY DEF LogInv, EveryStartEnds, Closed, BAt
<1> QED
  BY <1>1, LogInvInit, LogInvStep, TypeCorrect, PTL DEF Spec

\* What an upload logs of its secret key never shows more than the last quarter
\* of it, nor more than four characters.
THEOREM SecretsAreMasked == Spec => []SecretIsMasked
<1>1. SecretsMasked
  <2>1. \A secret \in Secrets : secret \in Seq({secret[i] : i \in DOMAIN secret})
    BY DEF Secrets
  <2> QED
    BY <2>1, Obfuscates, Zenon DEF SecretsMasked
<1>2. SecretIsMasked
  BY <1>1 DEF SecretIsMasked
<1> QED
  BY <1>2, PTL
=============================================================================

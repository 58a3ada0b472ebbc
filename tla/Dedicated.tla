----------------------------- MODULE Dedicated -----------------------------
(***************************************************************************)
(* A dedicated VM: its redis-server, the clients that write to it, backups *)
(* and resets, all at a time, and what they promise.                       *)
(***************************************************************************)
EXTENDS Backup, Resetter

vars == <<environment, live, faults, redisVars, resetVars, backupVars>>

Init == RedisInit /\ ResetInit /\ BackupInit

RedisStep == RedisSteps /\ UNCHANGED <<resetVars, backupVars>>
ClientStep == EnableAOF /\ UNCHANGED <<resetVars, backupVars>>
BackupStarts(b) == ConnectClient(b) /\ UNCHANGED resetVars
BackupStep(b) == BackupSteps(b) /\ UNCHANGED resetVars
ResetStarts == Connect /\ UNCHANGED backupVars
ResetStep == ResetSteps /\ UNCHANGED backupVars
ResetKilled == Killed /\ UNCHANGED backupVars

Next == \/ RedisStep \/ ClientStep \/ ResetStarts \/ ResetStep \/ ResetKilled
        \/ \E b \in Backups : BackupStarts(b) \/ BackupStep(b)

Spec == Init /\ [][Next]_vars

-----------------------------------------------------------------------------
\* The types of the variables
TypeOK == RedisTypeOK /\ ResetTypeOK /\ BackupTypeOK

-----------------------------------------------------------------------------
(* Backups *)

Waited(b) == backup[b].pc \in {"path"} \cup Pipeline \cup {"ok"}

\* When WaitForNewSaveSince returns nil, a save was completed after
\* LastRDBSaveTime was read, although it compares seconds only and a restart
\* sets LASTSAVE to the current time (the connection does not survive it).
WaitSeesNewSave ==
  \A b \in Backups : Waited(b) => saves > backup[b].read.saves

\* What a successful backup uploads was saved after LASTSAVE was read, even
\* when another backup moved its own snapshot to the target in between.
UploadIsNew ==
  \A b \in Backups : BAt(b, "ok") => backup[b].got.n > backup[b].read.saves

\* A backup that uploaded the snapshot it moved, without a restart of redis
\* before, uploaded every write made before it read LASTSAVE, unless another
\* save was in progress then: that one ends the wait as well, and its dump.rdb
\* is what gets moved.
BackupHasWrites ==
  \A b \in Backups :
    (/\ BAt(b, "ok") /\ backup[b].got = backup[b].took
     /\ backup[b].same /\ ~backup[b].read.saving)
       => backup[b].got.data >= backup[b].read.data

\* The first and the last line of an explanation
Explained(entries, cause) ==
  LET lines == Printed(entries, ERROR)
  IN  \E first, last \in DOMAIN lines :
        /\ \A i \in DOMAIN lines : first <= i /\ i <= last
        /\ lines[first] = <<Last(cause), "failed">>
        /\ lines[last] = <<Last(STEP), "failed">>

\* At level ERROR the command line shows the failure of the operation that
\* failed first, then those of its callers up to the pipeline; and nothing when
\* all went well (logError of pipeline, rename, s3upload, s3Client, s3Bucket).
FailureIsExplained ==
  \A b \in Backups :
    IF backup[b].cause = None THEN DOMAIN Printed(log[b], ERROR) = {}
    ELSE Explained(log[b], backup[b].cause)

\* The entry at i is not the last word about its operation
Followed(entries, i) ==
  \E j \in DOMAIN entries : /\ j > i /\ entries[j].message = entries[i].message
                            /\ entries[j].event \in {"done", "failed"}

\* Once a backup has returned, well or with an error, its log reports the end of
\* every operation whose start it reports, although the tasks of the pipeline
\* are logged by several functions and one of them starts what another ends.
EveryStartEnds ==
  \A b \in Backups : BAt(b, "ok") \/ BAt(b, "failed") =>
    \A i \in DOMAIN log[b] : log[b][i].event = "starting" => Followed(log[b], i)

\* What the log shows of a secret key: nothing but characters in their places,
\* among the last quarter of the key and among its last four; all of those when
\* the key has sixteen characters or more
Masks(secret) ==
  LET logged == obfuscate(secret)
      n == Len(secret)
  IN  /\ DOMAIN logged = DOMAIN secret
      /\ \A i \in DOMAIN secret :
           logged[i] # "*" => logged[i] = secret[i] /\ 4 * (n - i + 1) <= n /\ n - i < 4
      /\ n >= 16 => \A i \in n - 3 .. n : logged[i] = secret[i]

MaxSecret == 40
Secrets == {[i \in 1 .. n |-> Digits[(i % 10) + 1]] : n \in 0 .. MaxSecret}
SecretsMasked == \A secret \in Secrets : Masks(secret)

\* An upload that was logged, well or with an error, shows no more of the secret
\* key than it should, however long the key is (obfuscate).
SecretIsMasked ==
  \A b \in Backups : BAt(b, "ok") \/ backup[b].cause = COPY => SecretsMasked

\* Of a database with so many keys and two others
KeyCounts == {0, 1, 9, 10, 25}
AddsUp == [keys \in 0 .. MaxWrites |->
             \A m, n \in KeyCounts : GlobalKeyCount(Keyspace(<<keys, m, n>>)) = keys + m + n]

\* While redis serves data, GlobalKeyCount adds up the keys of all databases,
\* one for each write in the clients' one, and not those that expire.
KeysAreCounted == up = "ready" => AddsUp[data]

-----------------------------------------------------------------------------
(* Resets *)

\* Once ResetRedis has succeeded, nothing written before is served again, not
\* even after further restarts, provided that dump.rdb was removed or redis is
\* configured to load appendonly.aof instead (the error is ignored).
ResetForgets ==
  cleared # None /\ (cleared.kept => AppendOnly(default))
    => data = 0 \/ data > cleared.mark

\* ResetRedis fails only for a reason: some operation failed while it ran, or
\* redis could not be reset when it began.
ResetFailsForAReason ==
  reset = "failed" => ~started.ready \/ faults # started.faults

\* redis-server never runs on the truncated redis.conf, however ResetRedis
\* ends: redis is stopped, and monit told so, before the file is touched.
NeverOnTornConf == up # "down" => server # <<>>

Stranded == reset \notin Resetting /\ up = "down" /\ ~monitored

\* Once ResetRedis gave up between the stop and the start of redis, calling it
\* again does not help: it needs a running redis to begin.
StrandedForGood == [][Stranded => Stranded']_vars

Underway(b) == backup[b].pc \notin {"connect", "ok", "failed"}

\* A call of a backup or of ResetRedis that was made can always go on, whatever
\* happened to redis, the files and the bucket.  No step takes a call back, so
\* every call returns: WaitForNewSaveSince because of its timer.
NoCallIsStuck ==
  /\ reset \in Resetting => ENABLED ResetStep
  /\ \A b \in Backups : Underway(b) => ENABLED BackupStep(b)
=============================================================================

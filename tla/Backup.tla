------------------------------- MODULE Backup -------------------------------
(***************************************************************************)
(* A backup: a snapshot taken through the redis client, then the tasks     *)
(* rename and s3upload of a recovery pipeline (recovery/task, package s3). *)
(* The order in which a Snapshotter calls the client, and which tasks a    *)
(* pipeline has, are the choice of the caller, which is not part of the    *)
(* repository.  Several backups may run at a time; they rename dump.rdb    *)
(* to the same target.                                                     *)
(***************************************************************************)
EXTENDS RedisClient

CONSTANT Backups    \* calls of the backup, numbered in the order they are made

ASSUME BackupsAssumption == Backups \subseteq Nat

VARIABLES
  backup,   \* the state of each call
  log,      \* what each call has logged
  target,   \* the file that rename leaves behind
  bucket    \* who turned out to own the bucket: "us" or "others"

backupVars == <<backup, log, target, bucket>>
store == <<target, bucket>>

Snapshotting == {"connect", "loading", "lastsave", "bgsave", "wait", "path"}
Pipeline == {"rename", "bucket", "upload"}

\* A call that was not made yet
Fresh == [pc |-> "connect", client |-> None, since |-> 0, read |-> None,
          path |-> "rdb", took |-> NoFile, same |-> FALSE, got |-> NoFile, cause |-> None]

\* The file that an artifact names: dump.rdb, or the target of rename
Content(path) == IF path = "target" THEN target ELSE rdb

BAt(b, step) == backup[b].pc = step
BGoes(b, step) == backup' = [backup EXCEPT ![b].pc = step]
BFails(b) == backup' = [backup EXCEPT ![b] = [Fresh EXCEPT !.pc = "failed"]]
client(b) == backup[b].client

-----------------------------------------------------------------------------
(* The client's methods.  A call fails at once when the command does.      *)

Quiet == UNCHANGED <<redisVars, live, environment, faults, log, store>>

ConnectClient(b) ==
  /\ BAt(b, "connect") /\ Call
  /\ \A c \in Backups : c < b => ~BAt(c, "connect")
  /\ IF ConnectSucceeds(live)
     THEN \E c \in Clients(live) :
            backup' = [backup EXCEPT ![b].pc = "loading", ![b].client = c]
     ELSE BFails(b)
  /\ UNCHANGED <<redisVars, live, default, time, writes, faults, log, store>>

\* The loop ends when redis has loaded its data set, and also when time is up
WaitUntilRedisNotLoading(b) ==
  /\ BAt(b, "loading")
  /\ \/ ~LoadingKnown(client(b)) /\ BFails(b)
     \/ LoadingKnown(client(b)) /\ NotLoading /\ BGoes(b, "lastsave")
     \/ LoadingKnown(client(b)) /\ ~NotLoading /\ BGoes(b, "lastsave")
  /\ Quiet

\* Mutant: the second before the last save, so that one in the same second counts
LastRDBSaveTime_Before(b) ==
  /\ BAt(b, "lastsave")
  /\ IF Lastsave(client(b))
     THEN backup' = [backup EXCEPT
            ![b].pc = "bgsave", ![b].since = lastsave - 1,
            ![b].read = [saves |-> saves, data |-> data, saving |-> saving # None]]
     ELSE BFails(b)
  /\ Quiet

LastRDBSaveTime(b) ==
  /\ BAt(b, "lastsave")
  /\ IF Lastsave(client(b))
     THEN backup' = [backup EXCEPT
            ![b].pc = "bgsave", ![b].since = lastsave,
            ![b].read = [saves |-> saves, data |-> data, saving |-> saving # None]]
     ELSE BFails(b)
  /\ Quiet

\* redis-server refuses BGSAVE while it loads or saves
RunBGSave(b) ==
  /\ BAt(b, "bgsave")
  /\ IF BGSave(client(b)) /\ up = "ready" /\ saving = None
     THEN BackgroundSave /\ BGoes(b, "wait")
     ELSE BFails(b) /\ UNCHANGED redisVars
  /\ UNCHANGED <<live, environment, faults, log, store>>

\* Mutant: a save in the second of the previous one counts as new
WaitForNewSaveSince_OrEqual(b) ==
  /\ BAt(b, "wait")
  /\ \/ Lastsave(client(b)) /\ lastsave >= backup[b].since /\ BGoes(b, "path")
     \/ ~Lastsave(client(b)) /\ BFails(b)
     \/ BFails(b)
  /\ Quiet

\* Mutant: the timer is missing
WaitForNewSaveSince_Forever(b) ==
  /\ BAt(b, "wait")
  /\ \/ Lastsave(client(b)) /\ lastsave > backup[b].since /\ BGoes(b, "path")
     \/ ~Lastsave(client(b)) /\ BFails(b)
  /\ Quiet

\* LASTSAVE is read every second until the timer fires
WaitForNewSaveSince(b) ==
  /\ BAt(b, "wait")
  /\ \/ Lastsave(client(b)) /\ lastsave > backup[b].since /\ BGoes(b, "path")
     \/ ~Lastsave(client(b)) /\ BFails(b)
     \/ BFails(b)
  /\ Quiet

\* GetConfig of dir and of dbfilename
RDBPath(b) ==
  /\ BAt(b, "path")
  /\ IF GetConfig(client(b)) THEN BGoes(b, "rename") ELSE BFails(b)
  /\ Quiet

-----------------------------------------------------------------------------
(* Log entries: the parts of the message, and the event in the data.       *)

INFO == 1
ERROR == 2
Entry(message, event) ==
  [message |-> message, event |-> event, level |-> IF event = "failed" THEN ERROR ELSE INFO]

STEP == <<"pipleline-step">>
RENAME == <<"rename">>
S3UPLOAD == <<"s3upload">>
CREATE == <<"s3upload", "create-bucket">>
GETORCREATE == <<"s3client", "get-or-create-bucket">>
UPLOAD == <<"s3upload", "upload">>
COPY == <<"s3bucket", "upload">>

ASSUME CauseAssumption == None \notin {RENAME, GETORCREATE, COPY}

\* Calls made one inside the other, and their ends from the inside out
Starting(messages) == [i \in DOMAIN messages |-> Entry(messages[i], "starting")]
Ended(messages, event) == [i \in DOMAIN messages |-> Entry(Reverse(messages)[i], event)]

Logs(b, entries) == log' = [log EXCEPT ![b] = @ \o entries]

\* pipeline.Run returns the error of a task
Breaks(b, cause) ==
  backup' = [backup EXCEPT ![b] = [Fresh EXCEPT !.pc = "failed", !.cause = cause]]

rename(b) ==
  LET calls == <<STEP, RENAME>>
  IN  /\ BAt(b, "rename")
      /\ \/ /\ rdb # NoFile /\ target' = rdb /\ rdb' = NoFile /\ NoFault
            /\ backup' = [backup EXCEPT ![b].pc = "bucket", ![b].path = "target",
                                        ![b].took = rdb, ![b].same = (client(b).pid = pid)]
            /\ Logs(b, Starting(calls) \o Ended(calls, "done"))
         \/ /\ \/ rdb = NoFile /\ NoFault
               \/ Fault
            /\ Breaks(b, RENAME) /\ UNCHANGED <<rdb, target>>
            /\ Logs(b, Starting(calls) \o Ended(calls, "failed"))
      /\ UNCHANGED <<up, server, pid, script, appendonly, data, dirty, saving, saves,
                     lastsave, aof, monitored, live, environment, bucket>>

\* Mutant: the error of the client is not logged by createBucket
createBucket_Silent(b) ==
  LET calls == <<STEP, S3UPLOAD, CREATE, GETORCREATE>>
  IN  /\ BAt(b, "bucket")
      /\ \/ /\ bucket # "others" /\ bucket' = "us" /\ BGoes(b, "upload") /\ NoFault
            /\ Logs(b, Starting(calls) \o Ended(<<CREATE, GETORCREATE>>, "done"))
         \/ /\ Fault /\ Breaks(b, GETORCREATE) /\ UNCHANGED bucket
            /\ Logs(b, Starting(calls) \o Ended(<<STEP, S3UPLOAD>>, "failed"))
      /\ UNCHANGED <<redisVars, live, environment, target>>

\* PutBucket answers 409 when others have the bucket, and may when we have it
GetOrCreateBucket(answer) ==
  \/ answer = "created" /\ bucket # "others" /\ bucket' = "us" /\ NoFault
  \/ /\ answer = "already-exists" /\ NoFault
     /\ bucket' \in (IF bucket = None THEN {"us", "others"} ELSE {bucket})
  \/ answer = "failed" /\ Fault /\ UNCHANGED bucket

createBucket(b) ==
  LET calls == <<STEP, S3UPLOAD, CREATE, GETORCREATE>>
      there == <<Entry(GETORCREATE, "already-exists")>>
      done == Ended(<<CREATE, GETORCREATE>>, "done")
  IN  /\ BAt(b, "bucket")
      /\ \/ /\ GetOrCreateBucket("created") /\ BGoes(b, "upload")
            /\ Logs(b, Starting(calls) \o done)
         \/ /\ GetOrCreateBucket("already-exists") /\ BGoes(b, "upload")
            /\ Logs(b, Starting(calls) \o there \o done)
         \/ /\ GetOrCreateBucket("failed") /\ Breaks(b, GETORCREATE)
            /\ Logs(b, Starting(calls) \o Ended(calls, "failed"))
      /\ UNCHANGED <<redisVars, live, environment, target>>

\* Mutant: off by one
obfuscate_OneMore(txt) ==
  LET shown == IF Len(txt) \div 4 < 4 THEN Len(txt) \div 4 ELSE 4
      cutoff == Len(txt) - shown
  IN  [i \in DOMAIN txt |-> IF cutoff > 0 /\ i >= cutoff THEN txt[i] ELSE "*"]

\* How Bucket.Upload logs the secret key, which is ASCII: a byte is a character
obfuscate(txt) ==
  LET shown == IF Len(txt) \div 4 < 4 THEN Len(txt) \div 4 ELSE 4
      cutoff == Len(txt) - shown
  IN  [i \in DOMAIN txt |-> IF cutoff > 0 /\ i > cutoff THEN txt[i] ELSE "*"]

\* Bucket.Upload runs `aws s3 cp', which S3 refuses for a bucket of others
Upload(answer) ==
  \/ answer = "done" /\ bucket = "us" /\ NoFault
  \/ answer = "failed" /\ bucket = "others" /\ NoFault
  \/ answer = "failed" /\ Fault

\* Mutant: the task s3upload does not log that it is done
uploadToBucket_Unended(b) ==
  LET begun == Starting(<<UPLOAD>>)
  IN  /\ BAt(b, "upload")
      /\ \/ /\ Upload("done") /\ BGoes(b, "ok")
            /\ Logs(b, begun \o Ended(<<STEP, UPLOAD, COPY>>, "done"))
         \/ /\ Upload("failed") /\ Breaks(b, COPY)
            /\ Logs(b, begun \o Ended(<<STEP, S3UPLOAD, UPLOAD, COPY>>, "failed"))
      /\ UNCHANGED <<redisVars, live, environment, target, bucket>>

uploadToBucket(b) ==
  LET calls == <<STEP, S3UPLOAD, UPLOAD, COPY>>
      begun == Starting(<<UPLOAD>>) \o <<Entry(COPY, "creating-command"),
                                         Entry(COPY, "shelling-out")>>
  IN  /\ BAt(b, "upload")
      /\ \/ /\ Upload("done")
            /\ backup' = [backup EXCEPT ![b].pc = "ok", ![b].got = Content(backup[b].path),
                                        ![b].client = None]
            /\ Logs(b, begun \o Ended(calls, "done"))
         \/ /\ Upload("failed") /\ Breaks(b, COPY)
            /\ Logs(b, begun \o Ended(calls, "failed"))
      /\ UNCHANGED <<redisVars, live, environment, target, bucket>>

\* The task s3upload
Run(b) == createBucket(b) \/ uploadToBucket(b)

-----------------------------------------------------------------------------
(* CliSink: what is printed of a log at a minimal level *)

prettify(entry) == <<Last(entry.message), entry.event>>

\* The line for each entry that is printed, by the place of the entry
Printed(entries, minLogLevel) ==
  LET shown == {i \in DOMAIN entries : /\ entries[i].level >= minLogLevel
                                       /\ entries[i].event # ""}
  IN  [i \in shown |-> prettify(entries[i])]

-----------------------------------------------------------------------------
BackupInit ==
  /\ backup = [b \in Backups |-> Fresh] /\ log = [b \in Backups |-> <<>>]
  /\ target = NoFile /\ bucket = None

Clientele == [pid : Nat, known : BOOLEAN,
              aliases : UNION {CmdAliases(Aliases[conf]) : conf \in Confs}]
Reading == [saves : Nat, data : Nat, saving : BOOLEAN]

BackupState == [pc     : Snapshotting \cup Pipeline \cup {"ok", "failed"},
                client : Clientele \cup {None},
                since  : Nat,
                read   : Reading \cup {None},
                path   : {"rdb", "target"},
                took   : Snapshot \cup {NoFile},
                same   : BOOLEAN,
                got    : Snapshot \cup {NoFile},
                cause  : {None, RENAME, GETORCREATE, COPY}]

BackupTypeOK == /\ backup \in [Backups -> BackupState]
                /\ target \in Snapshot \cup {NoFile}
                /\ bucket \in {None, "us", "others"}

\* The steps of a call once it was made
BackupSteps(b) ==
  \/ WaitUntilRedisNotLoading(b) \/ LastRDBSaveTime(b)
  \/ RunBGSave(b) \/ WaitForNewSaveSince(b) \/ RDBPath(b)
  \/ rename(b) \/ Run(b)
=============================================================================

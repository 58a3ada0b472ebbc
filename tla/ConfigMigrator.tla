--------------------------- MODULE ConfigMigrator ---------------------------
(***************************************************************************)
(* cmd/configmigrator and package configmigrator: before the broker of a   *)
(* new release starts, the port and the password of every instance move    *)
(* from files of their own into its redis.conf.  The migration may be      *)
(* killed at any step, any file operation may fail, and it is run again.   *)
(***************************************************************************)
EXTENDS RedisConf

CONSTANTS
  Dirs,       \* the instance directories, in the order ReadDir lists them
  Text,       \* keys and values
  Settings,   \* keys that a redis.conf may have
  Confs,      \* what may be in a redis.conf before the migration
  Contents,   \* what may be in a legacy file
  NoFile,     \* a legacy file that does not exist
  MaxFaults   \* how many file operations fail and how often it is killed

Instances == {Dirs[n] : n \in DOMAIN Dirs}
PORT == <<"port">>
PASSWORD == <<"requirepass">>
Moved == {PORT, PASSWORD}

ASSUME DirsAssumption == /\ Dirs \in Seq(Instances)
                         /\ \A m, n \in DOMAIN Dirs : Dirs[m] = Dirs[n] => m = n
ASSUME TextAssumption == /\ Moved \subseteq Settings /\ Settings \subseteq Text
                         /\ <<>> \in Text
                         /\ Confs \subseteq Conf(Text)
ASSUME ContentsAssumption ==
  NoFile \notin Contents /\ \A c \in Contents : SavedValue(c) \in Text \ {<<>>}
ASSUME FaultsAssumption == MaxFaults \in Nat

VARIABLES
  conf,     \* the redis.conf of each instance
  legacy,   \* its redis-server.port and redis-server.password
  pc,       \* where the migration is
  listed,   \* how many directories ReadDir returned
  at,       \* the directory being migrated
  prop,     \* propertyName in moveDataFor
  mem,      \* redisConf in moveDataFor
  faults    \* faults that may still happen

vars == <<conf, legacy, pc, listed, at, prop, mem, faults>>

cur == Dirs[at]

\* Every setting is in one place, or in both with one value
Consistent(i) ==
  \A p \in Moved :
    IF Get(conf[i], p) = <<>> THEN legacy[i][p] # NoFile
    ELSE legacy[i][p] # NoFile => SavedValue(legacy[i][p]) = Get(conf[i], p)

Init ==
  /\ conf \in [Instances -> Confs]
  /\ legacy \in [Instances -> [Moved -> Contents \cup {NoFile}]]
  /\ \A i \in Instances : Consistent(i)
  /\ pc = "idle" /\ listed = 0 /\ at = 1 /\ prop = PORT /\ mem = <<>>
  /\ faults = MaxFaults

Fault == faults > 0 /\ faults' = faults - 1
NoFault == UNCHANGED faults

\* An error makes Migrate return and main exit; what was read is dropped
Fails == Fault /\ pc' = "failed" /\ UNCHANGED <<conf, legacy, listed, at, prop, mem>>

\* main finds the broker's configuration by BROKER_CONFIG_PATH, decodes it and
\* stats the three paths in it: an error ends the run
ParseConfig ==
  /\ pc = "idle"
  /\ \/ Fails
     \/ pc' = "parsed" /\ NoFault /\ UNCHANGED <<conf, legacy, listed, at, prop, mem>>

\* The error of ReadDir is ignored: no directory is migrated then
Migrate ==
  /\ pc = "parsed"
  /\ \/ NoFault /\ listed' = Len(Dirs)
     \/ Fault /\ listed' = 0
  /\ at' = 1 /\ prop' = PORT
  /\ pc' = IF listed' = 0 THEN "ok" ELSE "load"
  /\ UNCHANGED <<conf, legacy, mem>>

\* moveDataFor returns nil: the other property, the next directory, or the end
Advance ==
  IF prop = PORT
  THEN prop' = PASSWORD /\ pc' = "load" /\ UNCHANGED at
  ELSE prop' = PORT /\ at' = at + 1 /\ pc' = IF at < listed THEN "load" ELSE "ok"

\* Mutant: a property that is present and empty counts as migrated
Load_HasKey ==
  /\ pc = "load"
  /\ \/ Fails
     \/ /\ mem' = conf[cur]
        /\ pc' = IF HasKey(mem', prop) THEN "remove" ELSE "read"
        /\ NoFault /\ UNCHANGED <<conf, legacy, listed, at, prop>>

\* Mutant: the file of a property that was migrated before is left
Load_KeepsFile ==
  /\ pc = "load"
  /\ \/ Fails
     \/ /\ mem' = conf[cur]
        /\ IF Get(mem', prop) # <<>> THEN Advance ELSE pc' = "read" /\ UNCHANGED <<at, prop>>
        /\ NoFault /\ UNCHANGED <<conf, legacy, listed>>

Load ==
  /\ pc = "load"
  /\ \/ Fails
     \/ /\ mem' = conf[cur]
        /\ pc' = IF Get(mem', prop) # <<>> THEN "remove" ELSE "read"
        /\ NoFault /\ UNCHANGED <<conf, legacy, listed, at, prop>>

\* Mutant: a legacy file that does not exist is no error
Read_MissingIsFine ==
  /\ pc = "read"
  /\ \/ Fails
     \/ /\ pc' = IF legacy[cur][prop] = NoFile THEN "remove" ELSE "truncate"
        /\ NoFault /\ UNCHANGED <<conf, legacy, listed, at, prop, mem>>

Read ==
  /\ pc = "read"
  /\ \/ Fails
     \/ /\ pc' = IF legacy[cur][prop] = NoFile THEN "failed" ELSE "truncate"
        /\ NoFault /\ UNCHANGED <<conf, legacy, listed, at, prop, mem>>

\* Mutant: Save removes the file and writes a new one
Truncate_Removes ==
  /\ pc = "truncate"
  /\ \/ Fails
     \/ /\ conf' = [conf EXCEPT ![cur] = NoFile]
        /\ pc' = "fill"
        /\ NoFault /\ UNCHANGED <<legacy, listed, at, prop, mem>>

\* Save opens redis.conf with O_TRUNC
Truncate ==
  /\ pc = "truncate"
  /\ \/ Fails
     \/ /\ conf' = [conf EXCEPT ![cur] = <<>>]
        /\ pc' = "fill"
        /\ NoFault /\ UNCHANGED <<legacy, listed, at, prop, mem>>

\* Mutant: the property is set in a new configuration
Fill_FreshConf ==
  /\ pc = "fill"
  /\ \/ Fails
     \/ /\ conf' = [conf EXCEPT ![cur] = SetParam(<<>>, prop, SavedValue(legacy[cur][prop]))]
        /\ pc' = "remove"
        /\ NoFault /\ UNCHANGED <<legacy, listed, at, prop, mem>>

\* Save writes what was loaded and the property
Fill ==
  /\ pc = "fill"
  /\ \/ Fails
     \/ /\ conf' = [conf EXCEPT ![cur] = SetParam(mem, prop, SavedValue(legacy[cur][prop]))]
        /\ pc' = "remove"
        /\ NoFault /\ UNCHANGED <<legacy, listed, at, prop, mem>>

\* Errors of os.Remove are ignored
RemoveLegacy ==
  /\ pc = "remove"
  /\ \/ NoFault /\ legacy' = [legacy EXCEPT ![cur][prop] = NoFile]
     \/ Fault /\ UNCHANGED legacy
  /\ Advance
  /\ UNCHANGED <<conf, listed, mem>>

Crash == /\ pc \notin {"idle", "ok", "failed"}
         /\ Fault /\ pc' = "idle"
         /\ UNCHANGED <<conf, legacy, listed, at, prop, mem>>

Rerun == /\ pc \in {"ok", "failed"} /\ pc' = "idle"
         /\ UNCHANGED <<conf, legacy, listed, at, prop, mem, faults>>

Step == ParseConfig \/ Migrate \/ Load \/ Read \/ Truncate \/ Fill \/ RemoveLegacy

Next == Step \/ Crash \/ Rerun

Spec == Init /\ [][Next]_vars

\* A migration that was started goes on, and it is started again
FairSpec == Spec /\ WF_vars(Step) /\ WF_vars(Rerun)

-----------------------------------------------------------------------------
TypeOK ==
  /\ conf \in [Instances -> Conf(Text)]
  /\ legacy \in [Instances -> [Moved -> Contents \cup {NoFile}]]
  /\ pc \in {"idle", "parsed", "load", "read", "truncate", "fill", "remove", "ok", "failed"}
  /\ listed \in {0, Len(Dirs)} /\ at \in 1 .. Len(Dirs) + 1 /\ prop \in Moved
  /\ mem \in Conf(Text)
  /\ faults \in 0 .. MaxFaults

\* What a reader finds of instance i: while redis.conf is being rewritten the
\* migration still holds what was in it.
Current(i) == IF pc = "fill" /\ i = cur THEN mem ELSE conf[i]

reads == [i \in Instances |-> [s \in Settings |->
            IF s \in Moved /\ Get(Current(i), s) = <<>> /\ legacy[i][s] # NoFile
            THEN SavedValue(legacy[i][s])
            ELSE Get(Current(i), s)]]

homes == [i \in Instances |-> [s \in Moved |->
           IF Get(Current(i), s) = <<>> /\ legacy[i][s] # NoFile THEN "file" ELSE "conf"]]

Abstract == INSTANCE Migration WITH value <- reads, home <- homes, Values <- Text, Unset <- <<>>

\* The migration keeps the promise of Migration: a setting moves with its
\* value, and values are lost only with a redis.conf whose rewriting is cut
\* short by a kill or a failed write (moveDataFor, Save).
Implements == Abstract!Spec

\* Values get lost in one step only: the end of a migration that has truncated
\* redis.conf and not written it back.
OnlyCutsLose == [][reads' = reads \/ (pc = "fill" /\ pc' \in {"idle", "failed"})]_vars

Migrated(i) == \A p \in Moved : Get(conf[i], p) # <<>>

\* Migrate returning no error means that the broker finds the port and the
\* password of every directory that was listed, although Migrate ignores the
\* errors of os.Remove and moves one property at a time.
SuccessMeansMigrated ==
  pc = "ok" => \A n \in 1 .. listed : Migrated(Dirs[n])

Lost == \E i \in Instances, p \in Moved : reads[i][p] = <<>>

\* Kills, failing operations and files that could not be removed only delay
\* the migration: in the end every setting is in redis.conf and no legacy file
\* is left, unless a value was lost, which no further run can repair.
EventuallyMigrated ==
  <>(Lost \/ [](\A i \in Instances :
                  Migrated(i) /\ \A p \in Moved : legacy[i][p] = NoFile))
=============================================================================

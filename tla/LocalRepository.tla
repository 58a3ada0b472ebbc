--------------------------- MODULE LocalRepository ---------------------------
(***************************************************************************)
(* redis.LocalRepository and the parts of OSProcessController that the     *)
(* broker and the process monitor both call: each operator is one system   *)
(* call, or a group of calls no other process can tell from one.           *)
(***************************************************************************)
EXTENDS Host

CONSTANT PidfileDirectory   \* of the configuration file, "" when it has none

NewLocalRepository ==
  [PidfileDirectory |-> IF PidfileDirectory # "" THEN PidfileDirectory
                        ELSE "/var/vcap/sys/run/shared-instance-pidfiles"]

\* FindByID: redis.conf loads and its port parses.  A truncated file has no
\* port, and Atoi("") is an error.
Readable(i) == conf[i] \notin {NoFile, Torn}

InstanceExists(i) == i \in dirs

\* None when there is no pidfile, which is an error
InstancePid(i) == pidfile[i]

-----------------------------------------------------------------------------
(* EnsureDirectoriesExist: the data directory with its parent, then logs. *)

MakeDataDir(i) == /\ dirs' = dirs \cup {i}
                  /\ dbs' = dbs \cup {i}
                  /\ UNCHANGED <<logs, locks, conf>>

MakeLogDir(i) == /\ logs' = logs \cup {i}
                 /\ UNCHANGED <<dirs, dbs, locks, conf>>

(* Lock creates the lock file in the base directory, Unlock removes it. *)

Lock(i) == /\ i \in dirs
           /\ locks' = locks \cup {i}
           /\ UNCHANGED <<dirs, dbs, logs, conf>>

Unlock(i) == /\ i \in locks
             /\ locks' = locks \ {i}
             /\ UNCHANGED <<dirs, dbs, logs, conf>>

(* WriteConfigFile: ioutil.WriteFile truncates the file, then writes it. *)

TruncateConfig(i) == /\ i \in dirs
                     /\ conf' = [conf EXCEPT ![i] = Torn]
                     /\ UNCHANGED <<dirs, dbs, logs, locks>>

\* A file unlinked between the two calls takes the data with it
FillConfig(i, inst) == /\ conf' = [conf EXCEPT ![i] = IF @ = NoFile THEN @ ELSE inst]
                       /\ UNCHANGED <<dirs, dbs, logs, locks>>

(* os.RemoveAll(base): reads the names, unlinks each, removes the directory *)

Entries(i) == {e \in {"db", "lock", "redis.conf"} : \/ e = "db" /\ i \in dbs
                                                    \/ e = "lock" /\ i \in locks
                                                    \/ e = "redis.conf" /\ conf[i] # NoFile}

RemoveEntry(i, e) ==
  /\ dbs' = IF e = "db" THEN dbs \ {i} ELSE dbs
  /\ locks' = IF e = "lock" THEN locks \ {i} ELSE locks
  /\ conf' = IF e = "redis.conf" THEN [conf EXCEPT ![i] = NoFile] ELSE conf
  /\ UNCHANGED <<dirs, logs>>

RemoveLogDir(i) == /\ logs' = logs \ {i}
                   /\ UNCHANGED <<dirs, dbs, locks, conf>>

-----------------------------------------------------------------------------
(* StartAndWaitUntilReadyWithConfig runs redis-server and waits for it. *)

\* redis-server exits with an error: no configuration, --dir or --logfile
CannotExec(i) == conf[i] = NoFile \/ i \notin dbs \/ i \notin logs

\* An empty configuration does not daemonize: Run() never returns
Foreground(i) == ~CannotExec(i) /\ conf[i] = Torn

\* redis-server reads redis.conf and daemonizes as process p
Exec(i, p) ==
  /\ ~CannotExec(i) /\ Readable(i)
  /\ proc[p] = None
  /\ proc' = [proc EXCEPT ![p] = [id |-> i, port |-> conf[i].port,
                                  password |-> conf[i].password,
                                  phase |-> "starting"]]
=============================================================================

------------------------------ MODULE Resetter ------------------------------
(***************************************************************************)
(* Package resetter: ResetRedis, one action for each step that another     *)
(* process can observe.  Any of them may fail, the process may be killed   *)
(* between two of them, and the caller may call ResetRedis again.          *)
(***************************************************************************)
EXTENDS DedicatedRedis

VARIABLES
  reset,     \* where ResetRedis is, or how it ended
  conn,      \* the redis-server it is connected to
  started,   \* whether redis could be reset when the call began, and the faults then
  mark,      \* the writes made before redis was stopped
  kept,      \* whether dump.rdb could not be removed
  cleared    \* of the last call that succeeded: its mark and kept

resetVars == <<reset, conn, started, mark, kept, cleared>>
progress == <<conn, started, mark, kept, cleared>>

Resetting == {"kill", "stop", "rmaof", "rmrdb", "load", "save", "start", "check"}

Goes(step) == reset' = step /\ UNCHANGED progress
Ends(how) == reset' = how /\ conn' = None /\ UNCHANGED <<started, mark, kept, cleared>>

\* An error is returned at once
Fails == Fault /\ Ends("failed") /\ UNCHANGED redisVars

-----------------------------------------------------------------------------
(* getAuthenticatedRedisConn: no TLS, and AUTH whatever the password *)

Connectable == /\ Accepts(Port(live)) /\ Port(live) \in PlainPorts(server)
               /\ AuthSucceeds(Password(live))

\* What redis-server answers to SCRIPT KILL when no script runs
isNoScriptErr == script = "none"

\* SCRIPT KILL is sent under its own name; redis-server refuses it while it
\* loads and while a script that has written runs
Killable == /\ up = "ready" /\ Knows(<<"SCRIPT">>, <<"SCRIPT">>)
            /\ script = "busy" \/ isNoScriptErr

\* The port that ResetRedis waits for; an empty or unknown one is port 0
CheckedPort(conf) ==
  LET port == Get(conf, <<"port">>)
  IN  IF port \in DOMAIN Atoi THEN Atoi[port] ELSE 0

\* Redis runs, has an appendonly file, and both files of the VM name a port
\* without TLS
Resettable == /\ Connectable /\ Killable /\ aof # NoFile
              /\ CheckedPort(default) \in PlainPorts(default)

Begins == /\ reset \notin Resetting /\ Call
          /\ started' = [ready |-> Resettable, faults |-> faults]
          /\ UNCHANGED <<mark, kept, cleared, live, default, time, writes>>

\* Mutant: an error of Dial is taken for a redis that is already stopped
Connect_DownIsFine ==
  /\ Begins
  /\ reset' = IF up = "down" THEN "stop" ELSE IF Connectable THEN "kill" ELSE "failed"
  /\ conn' = IF Connectable THEN pid ELSE None
  /\ UNCHANGED redisVars /\ NoFault

Connect ==
  /\ Begins
  /\ \/ Connectable /\ reset' = "kill" /\ conn' = pid /\ NoFault
     \/ ~Connectable /\ reset' = "failed" /\ conn' = None /\ NoFault
     \/ reset' = "failed" /\ conn' = None /\ Fault
  /\ UNCHANGED redisVars

\* Mutant: the error that no script runs is returned like any other
killScript_AnyError ==
  /\ reset = "kill"
  /\ \/ /\ conn = pid /\ Killable /\ script = "busy" /\ script' = "none"
        /\ Goes("stop") /\ NoFault
        /\ UNCHANGED <<up, server, pid, appendonly, data, dirty, saving, saves, lastsave,
                       aof, rdb, monitored>>
     \/ /\ ~(conn = pid /\ Killable /\ script = "busy") /\ Ends("failed") /\ NoFault
        /\ UNCHANGED redisVars
     \/ Fails
  /\ UNCHANGED <<live, environment>>

killScript ==
  /\ reset = "kill"
  /\ \/ /\ conn = pid /\ Killable /\ script' = "none" /\ Goes("stop") /\ NoFault
        /\ UNCHANGED <<up, server, pid, appendonly, data, dirty, saving, saves, lastsave,
                       aof, rdb, monitored>>
     \/ ~(conn = pid /\ Killable) /\ Ends("failed") /\ NoFault /\ UNCHANGED redisVars
     \/ Fails
  /\ UNCHANGED <<live, environment>>

Stopped == Stops /\ mark' = writes /\ conn' = None
           /\ UNCHANGED <<started, kept, cleared>>

\* StopAndWait may give up waiting although redis is stopped later on
stopRedis ==
  /\ reset = "stop"
  /\ \/ Stopped /\ reset' = "rmaof" /\ NoFault
     \/ Stopped /\ reset' = "failed" /\ Fault
     \/ Fails
  /\ UNCHANGED <<live, environment>>

-----------------------------------------------------------------------------
(* deleteData: only the error of the first os.Remove is returned *)

Removes == UNCHANGED <<up, server, pid, script, appendonly, data, dirty, saving, saves,
                       lastsave, monitored, live, environment>>

removeAOF ==
  /\ reset = "rmaof"
  /\ \/ aof # NoFile /\ aof' = NoFile /\ Goes("rmrdb") /\ NoFault
     \/ aof = NoFile /\ Ends("failed") /\ NoFault /\ UNCHANGED aof
     \/ Fault /\ Ends("failed") /\ UNCHANGED aof
  /\ UNCHANGED rdb /\ Removes

\* Mutant: dump.rdb is left alone
removeRDB_Missing ==
  /\ reset = "rmrdb" /\ reset' = "load" /\ kept' = FALSE
  /\ UNCHANGED <<rdb, aof, faults, conn, started, mark, cleared>> /\ Removes

removeRDB ==
  /\ reset = "rmrdb" /\ reset' = "load"
  /\ \/ rdb' = NoFile /\ kept' = FALSE /\ NoFault
     \/ UNCHANGED rdb /\ kept' = TRUE /\ Fault
  /\ UNCHANGED <<aof, conn, started, mark, cleared>> /\ Removes

-----------------------------------------------------------------------------
(* resetConfigWithNewPassword: Save truncates the live file, then writes *)

\* Mutant: redis is started before the file is written
truncateConfig_StartsEarly ==
  /\ reset = "load"
  /\ \/ live' = <<>> /\ Goes("start") /\ NoFault
     \/ Fault /\ Ends("failed") /\ UNCHANGED live
  /\ UNCHANGED <<redisVars, environment>>

truncateConfig ==
  /\ reset = "load"
  /\ \/ live' = <<>> /\ Goes("save") /\ NoFault
     \/ Fault /\ Ends("failed") /\ UNCHANGED live
  /\ UNCHANGED <<redisVars, environment>>

resetConfig ==
  /\ reset = "save"
  /\ \/ live' = default /\ Goes("start") /\ NoFault
     \/ Fault /\ Ends("failed") /\ UNCHANGED live
  /\ UNCHANGED <<redisVars, environment>>

startRedis ==
  /\ reset = "start"
  /\ \/ Starts /\ Goes("check") /\ NoFault
     \/ Starts /\ Ends("failed") /\ Fault
     \/ Fails
  /\ UNCHANGED <<live, environment>>

Succeeds == /\ reset' = "ok" /\ cleared' = [mark |-> mark, kept |-> kept]
            /\ conn' = None /\ UNCHANGED <<started, mark, kept>>

checkPort ==
  /\ reset = "check"
  /\ \/ Accepts(CheckedPort(live)) /\ Succeeds /\ NoFault /\ UNCHANGED redisVars
     \/ ~Accepts(CheckedPort(live)) /\ Ends("failed") /\ NoFault /\ UNCHANGED redisVars
     \/ Fails
  /\ UNCHANGED <<live, environment>>

\* The process that resets is killed
Killed ==
  /\ reset \in Resetting /\ Fault /\ Ends("idle")
  /\ UNCHANGED <<redisVars, live, environment>>

-----------------------------------------------------------------------------
ResetInit == /\ reset = "idle" /\ conn = None
             /\ started = [ready |-> FALSE, faults |-> MaxFaults]
             /\ mark = 0 /\ kept = FALSE /\ cleared = None

ResetTypeOK ==
  /\ reset \in Resetting \cup {"idle", "ok", "failed"}
  /\ conn \in Nat \cup {None}
  /\ started \in [ready : BOOLEAN, faults : Nat]
  /\ mark \in Nat /\ kept \in BOOLEAN
  /\ cleared \in [mark : Nat, kept : BOOLEAN] \cup {None}

ResetSteps == \/ killScript \/ stopRedis \/ removeAOF \/ removeRDB
              \/ truncateConfig \/ resetConfig \/ startRedis \/ checkPort
=============================================================================

---------------------------- MODULE RedisClient ----------------------------
(***************************************************************************)
(* Package redis/client: what Connect and each method of Client ask of     *)
(* redis-server, and when the answer is an error.  A connection is bound   *)
(* to the redis-server it was made to: once that one is gone every call    *)
(* fails, for the client never dials again.                                *)
(***************************************************************************)
EXTENDS DedicatedRedis

\* Option Port ignores what is not positive
Dialled(conf) == IF Port(conf) > 0 THEN Port(conf) ELSE DefaultPort

Speaks(port, tls) == port \in IF tls THEN TLSPorts(server) ELSE PlainPorts(server)

\* A plain connection to the TLS port is made, and fails on its first command
ConnectSucceeds(conf) ==
  /\ Accepts(Dialled(conf))
  /\ Tls(conf) => Speaks(Dialled(conf), TRUE)
  /\ Password(conf) # <<>> => /\ Speaks(Dialled(conf), Tls(conf))
                              /\ AuthSucceeds(Password(conf))

\* registerAlias for each pair of a map, in whatever order
CmdAliases(aliases) ==
  LET cmds == {ToUpper(c) : c \in DOMAIN aliases}
  IN  {f \in [cmds -> {aliases[c] : c \in DOMAIN aliases}] :
         \A u \in cmds : \E c \in DOMAIN aliases : ToUpper(c) = u /\ f[u] = aliases[c]}

\* The Client for conf: its redis-server, whether that one takes commands from
\* it (it speaks the protocol, and no password is missing), and its aliases
Clients(conf) ==
  [pid     : {pid},
   known   : {Speaks(Dialled(conf), Tls(conf))
                /\ (Password(conf) = <<>> => Password(server) = <<>>)},
   aliases : CmdAliases(Aliases[conf])]

lookupAlias(client, cmd) ==
  IF ToUpper(cmd) \in DOMAIN client.aliases THEN client.aliases[ToUpper(cmd)] ELSE cmd

\* Exec of cmd under some name: no error.  A running script makes redis-server
\* answer BUSY
Exec(client, cmd, name) ==
  /\ up # "down" /\ client.pid = pid
  /\ client.known /\ Knows(cmd, name)
  /\ script = "none"

\* Mutant: a client that dials again when its connection is lost
Lastsave_Redials(client) ==
  up # "down" /\ client.known /\ script = "none"

Lastsave(client) == Exec(client, <<"LASTSAVE">>, <<"LASTSAVE">>)

BGSave(client) == Exec(client, <<"BGSAVE">>, lookupAlias(client, <<"BGSAVE">>))

GetConfig(client) == Exec(client, <<"CONFIG">>, lookupAlias(client, <<"CONFIG">>))

-----------------------------------------------------------------------------
(* INFO *)

COLON == ":"
Blank == {SP, TAB, CR, NL}

TrimSpace(text) ==
  LET solid == {i \in DOMAIN text : text[i] \notin Blank}
  IN  IF solid = {} THEN <<>> ELSE SubSeq(text, Min(solid), Max(solid))

\* One iteration of the loop of Info; pair[1] is the text up to a second colon
AddEntry(info, entry) ==
  LET trimmed == TrimSpace(entry)
  IN  IF trimmed = <<>> \/ Head(trimmed) = HASH THEN info
      ELSE (Before(trimmed, COLON) :> Before(After(trimmed, COLON), COLON)) @@ info

Info(response) == FoldLeft(AddEntry, <<>>, response)

\* What redis-server answers to INFO, by lines
Response(loading) == <<<<HASH, SP, "Persistence", CR>>,
                       <<"loading", COLON, IF loading THEN "1" ELSE "0", CR>>,
                       <<CR>>>>
Infos == [loading \in BOOLEAN |-> Info(Response(loading))]

\* InfoField("loading") returns no error
LoadingKnown(client) ==
  /\ Exec(client, <<"INFO">>, lookupAlias(client, <<"INFO">>))
  /\ <<"loading">> \in DOMAIN Infos[up = "loading"]

NotLoading == Infos[up = "loading"][<<"loading">>] = <<"0">>

-----------------------------------------------------------------------------
(* INFO keyspace.  Here a digit is a character of its own. *)

Digits == <<"0", "1", "2", "3", "4", "5", "6", "7", "8", "9">>
Value(digit) == Index(Digits, digit) - 1
Number(digits) == FoldLeft(LAMBDA n, d : 10 * n + Value(d), 0, digits)

\* Where the regular expression keys=(\d+) matches a line, and its group there
Matches(line) ==
  {i \in 1 .. Len(line) - 2 : line[i] = "keys" /\ line[i + 1] = "=" /\ Contains(Digits, line[i + 2])}

\* Mutant: the regular expression is keys=(\d)
Group_OneDigit(line, i) == <<line[i + 2]>>

Group(line, i) ==
  LET ends == {j \in i + 2 .. Len(line) : \A k \in i + 2 .. j : Contains(Digits, line[k])}
  IN  SubSeq(line, i + 2, Max(ends))

KeyCount(line) ==
  IF Matches(line) = {} THEN 0 ELSE Number(Group(line, Min(Matches(line))))

GlobalKeyCount(response) == FoldLeft(LAMBDA n, line : n + KeyCount(line), 0, response)

\* What redis-server answers for databases with so many keys: it leaves out
\* the empty ones, and some of the keys expire
Decimal(n) == IF n < 10 THEN <<Digits[n + 1]>> ELSE <<Digits[(n \div 10) + 1], Digits[(n % 10) + 1]>>
Keyspace(counts) ==
  LET line(db) == <<"db", Digits[db], COLON, "keys", "=">> \o Decimal(counts[db])
                    \o <<",", "expires", "=">> \o Decimal(counts[db] \div 2) \o <<CR>>
      used == SelectSeq([db \in DOMAIN counts |-> db], LAMBDA db : counts[db] > 0)
  IN  <<<<HASH, SP, "Keyspace", CR>>>> \o [i \in DOMAIN used |-> line(used[i])]

-----------------------------------------------------------------------------
setConfig(client) == Exec(client, <<"CONFIG">>, lookupAlias(client, <<"CONFIG">>))

\* EnableAOF, on a connection of its own
EnableAOF ==
  /\ ~appendonly /\ ConnectSucceeds(live)
  /\ \E client \in Clients(live) : setConfig(client)
  /\ appendonly' = TRUE /\ aof' = data
  /\ UNCHANGED <<up, server, pid, script, data, dirty, saving, saves, lastsave, rdb,
                 monitored, live, environment, faults>>
=============================================================================

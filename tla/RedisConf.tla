----------------------------- MODULE RedisConf -----------------------------
(***************************************************************************)
(* Package redisconf: a redis.conf in memory (Conf, a list of parameters)  *)
(* and as the text of a file.  A text is a sequence of characters; the     *)
(* ones the package treats specially are named below, and a word that it   *)
(* never looks into ("port", "6379") is one character.                     *)
(***************************************************************************)
EXTENDS Lists

CONSTANTS
  Atoi,       \* strconv.Atoi: the number of each text that it accepts
  LoadError,  \* what decode returns for a text it cannot split
  Panic       \* what CommandAliases ends with when an index is out of range

SP == " "
TAB == "\t"
HASH == "#"
NL == "\n"
CR == "\r"
QUOTE == "\""

\* type Conf []Param, for keys and values from a set of texts
Parameter(Text) == [key : Text, value : Text]
Conf(Text) == Seq(Parameter(Text))

Param(key, value) == [key |-> key, value |-> value]

\* strings.SplitN(text, c, 2): the parts before and after the first c
Before(text, c) ==
  LET i == Index(text, c)
  IN  IF i = 0 THEN text ELSE SubSeq(text, 1, i - 1)

After(text, c) ==
  LET i == Index(text, c)
  IN  IF i = 0 THEN <<>> ELSE SubSeq(text, i + 1, Len(text))

-----------------------------------------------------------------------------
(* In memory                                                               *)

HasKey(conf, key) == \E i \in DOMAIN conf : conf[i].key = key

\* Mutant: the last one
First_Last(conf, key) ==
  CHOOSE i \in DOMAIN conf : /\ conf[i].key = key
                             /\ \A j \in i + 1 .. Len(conf) : conf[j].key # key

\* The loop of Set, and the first element of getAll
First(conf, key) ==
  CHOOSE i \in DOMAIN conf : /\ conf[i].key = key
                             /\ \A j \in 1 .. i - 1 : conf[j].key # key

getAll(conf, key) ==
  FoldLeft(LAMBDA all, p : IF p.key = key THEN Append(all, p) ELSE all, <<>>, conf)

Get(conf, key) ==
  IF HasKey(conf, key) THEN conf[First(conf, key)].value ELSE <<>>

SetParam(conf, key, value) ==
  IF HasKey(conf, key)
  THEN [conf EXCEPT ![First(conf, key)] = Param(key, value)]
  ELSE Append(conf, Param(key, value))

DefaultHost == <<"127.0.0.1">>
DefaultPort == 6379
DefaultTLSPort == 16379

Host(conf) == IF Get(conf, <<"bind">>) = <<>> THEN DefaultHost ELSE Get(conf, <<"bind">>)

\* Mutant: tls-port is not looked at
Port_IgnoresTLS(conf) ==
  IF Get(conf, <<"port">>) \in DOMAIN Atoi THEN Atoi[Get(conf, <<"port">>)] ELSE DefaultPort

Port(conf) ==
  LET port == Get(conf, <<"port">>)
      tlsPort == Get(conf, <<"tls-port">>)
  IN  IF port \notin DOMAIN Atoi THEN DefaultPort
      ELSE IF Atoi[port] # 0 THEN Atoi[port]
      ELSE IF tlsPort \in DOMAIN Atoi THEN Atoi[tlsPort] ELSE DefaultTLSPort

Tls(conf) == Get(conf, <<"tls-port">>) # <<>> /\ Get(conf, <<"port">>) = <<"0">>

Password(conf) == Get(conf, <<"requirepass">>)

\* The second word of a rename-command without its quotes
Alias(value) == SelectSeq(Before(After(value, SP), SP), LAMBDA c : c # QUOTE)

\* Mutant: a command that was renamed keeps its first alias
AddAlias_KeepsFirst(aliases, param) ==
  IF Before(param.value, SP) \in DOMAIN aliases THEN aliases
  ELSE Put(aliases, Before(param.value, SP), Alias(param.value))

\* One iteration of CommandAliases
AddAlias(aliases, param) == Put(aliases, Before(param.value, SP), Alias(param.value))

\* args[1] panics when a value is one word
CommandAliases(conf) ==
  LET renames == getAll(conf, <<"rename-command">>)
  IN  IF \E i \in DOMAIN renames : ~Contains(renames[i].value, SP) THEN Panic
      ELSE FoldLeft(AddAlias, <<>>, renames)

\* What CopyWithInstanceAdditions changes in the default configuration
InstanceAdditions(conf, ident, port, password, pidfile) ==
  LET c1 == SetParam(conf, <<"syslog-enabled">>, <<"yes">>)
      c2 == SetParam(c1, <<"syslog-ident">>, ident)
      c3 == SetParam(c2, <<"syslog-facility">>, <<"local0">>)
      c4 == SetParam(c3, <<"port">>, port)
      c5 == SetParam(c4, <<"requirepass">>, password)
  IN  SetParam(c5, <<"pidfile">>, pidfile)

-----------------------------------------------------------------------------
(* As text                                                                 *)

\* bufio.ScanLines: lines end at NL or at the end of the text; one CR before
\* the end is dropped
dropCR(line) == IF line # <<>> /\ Last(line) = CR THEN Front(line) ELSE line

ScanChar(scan, c) ==
  IF c = NL
  THEN [lines |-> Append(scan.lines, dropCR(scan.line)), line |-> <<>>]
  ELSE [lines |-> scan.lines, line |-> Append(scan.line, c)]

Scan(text) == FoldLeft(ScanChar, [lines |-> <<>>, line |-> <<>>], text)

ScanLines(text) ==
  IF Scan(text).line = <<>> THEN Scan(text).lines
  ELSE Append(Scan(text).lines, dropCR(Scan(text).line))

Skipped(line) == line = <<>> \/ line[1] \in {HASH, SP, TAB}

\* Mutant: the line is split at its last space
parseParam_LastSpace(line) ==
  LET i == Max({j \in DOMAIN line : line[j] = SP})
  IN  Param(SubSeq(line, 1, i - 1), SubSeq(line, i + 1, Len(line)))

parseParam(line) == Param(Before(line, SP), After(line, SP))

KeepLine(lines, line) == IF Skipped(line) THEN lines ELSE Append(lines, line)

decode(text) ==
  LET lines == FoldLeft(KeepLine, <<>>, ScanLines(text))
  IN  IF \E n \in DOMAIN lines : ~Contains(lines[n], SP)
      THEN LoadError
      ELSE [n \in DOMAIN lines |-> parseParam(lines[n])]

\* Mutant: no space is written after a key without a value
Encode_BareKey(conf) ==
  FlattenSeq([i \in DOMAIN conf |->
                IF conf[i].value = <<>> THEN conf[i].key \o <<NL>>
                ELSE conf[i].key \o <<SP>> \o conf[i].value \o <<NL>>])

Encode(conf) ==
  FlattenSeq([i \in DOMAIN conf |-> conf[i].key \o <<SP>> \o conf[i].value \o <<NL>>])

\* What is left of a value that was Set, saved and loaded again, when what
\* follows its first line holds no parameter of its own
SavedValue(value) == dropCR(Before(value, NL))
=============================================================================

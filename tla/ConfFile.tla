------------------------------ MODULE ConfFile ------------------------------
(***************************************************************************)
(* A redis.conf on disk and the Conf a caller holds of it: Load, Set and   *)
(* Save in any order, starting from any text that may be on disk; or the   *)
(* file is moved, by a caller that has not loaded it.                      *)
(***************************************************************************)
EXTENDS RedisConf, Files, FiniteSets

CONSTANTS Texts,    \* what may be in the file at first
          Keys,     \* keys that callers Set
          Values,   \* values that callers Set
          MaxEdits  \* how often Set is called

ASSUME TextsAssumption == \A t \in Texts \cup Keys \cup Values : t \in Seq(Range(t))

ASSUME AtoiAssumption == <<"0">> \in DOMAIN Atoi /\ Atoi[<<"0">>] = 0

VARIABLES conf,     \* the Conf in memory, LoadError when Load failed
          edits     \* calls of Set so far

vars == <<fileVars, conf, edits>>
staying == <<destination, move, text, faults>>

Init == file \in Texts /\ FilesInit /\ conf = <<>> /\ edits = 0

Load == /\ move = "idle"
        /\ conf' = decode(file)
        /\ UNCHANGED <<fileVars, edits>>

Edit(key, value) ==
  /\ move = "idle" /\ conf # LoadError /\ edits < MaxEdits
  /\ conf' = SetParam(conf, key, value)
  /\ edits' = edits + 1
  /\ UNCHANGED fileVars

Save == /\ move = "idle" /\ conf # LoadError
        /\ file' = Encode(conf)
        /\ UNCHANGED <<staying, conf, edits>>

Move == conf = <<>> /\ edits = 0 /\ MoveFile /\ UNCHANGED <<conf, edits>>

Next == Load \/ Save \/ Move \/ \E k \in Keys, v \in Values : Edit(k, v)

Spec == Init /\ [][Next]_vars

-----------------------------------------------------------------------------
\* The parameters that Encode and decode carry over unharmed
CleanKey(key) == ~Skipped(key) /\ ~Contains(key, SP) /\ ~Contains(key, NL)
CleanValue(value) == ~Contains(value, NL) /\ (value = <<>> \/ Last(value) # CR)
Clean(param) == CleanKey(param.key) /\ CleanValue(param.value)

\* Saving a Conf and loading it again gives the same Conf exactly when every
\* parameter is clean; otherwise parameters are lost, cut or made up.
ReadsBack ==
  conf # LoadError =>
    (decode(Encode(conf)) = conf <=> \A i \in DOMAIN conf : Clean(conf[i]))

\* The places in the file where a line starts, and where one gives key a value
LineStarts(t) == {i \in 1 .. Len(t) : i = 1 \/ t[i - 1] = NL}
Given(key) ==
  {i \in LineStarts(file) : IsPrefix(key \o <<SP>>, SubSeq(file, i, Len(file)))}

\* Get after Load agrees with the text: the first line that starts with the
\* key and a space, up to its end and without a final carriage return.
FirstLineWins ==
  (file # NoFile /\ decode(file) # LoadError) =>
    \A key \in {k \in Keys : CleanKey(k)} :
      LET first == CHOOSE i \in Given(key) : \A j \in Given(key) : i <= j
      IN  Get(decode(file), key) =
            IF Given(key) = {} THEN <<>>
            ELSE SavedValue(SubSeq(file, first + Len(key) + 1, Len(file)))

\* What an edit leaves on disk when the value is one line, maybe with its
\* line ending (the contents of a legacy file): its first line under the key,
\* and every other parameter as it was.
OneLine(value) == \E tail \in {<<>>, <<NL>>, <<CR, NL>>} :
                    \E n \in 0 .. Len(value) :
                      /\ value = SubSeq(value, 1, n) \o tail
                      /\ CleanValue(SubSeq(value, 1, n))
EditSurvivesSave ==
  (conf # LoadError /\ \A i \in DOMAIN conf : Clean(conf[i])) =>
    \A k \in {x \in Keys : CleanKey(x)}, v \in {x \in Values : OneLine(x)} :
      decode(Encode(SetParam(conf, k, v))) = SetParam(conf, k, SavedValue(v))

PlainPort(c) ==
  IF Get(c, <<"port">>) \in DOMAIN Atoi THEN Atoi[Get(c, <<"port">>)] ELSE DefaultPort

\* A client that is told to speak TLS is given the TLS port.  A client that is
\* not is given the plain port, unless that one is 0 all the same: no tls-port
\* is set, or the zero is not written "0" (Port reads the number, Tls the text).
PortSpeaksTLS ==
  conf # LoadError =>
    /\ (Tls(conf) /\ Get(conf, <<"tls-port">>) \in DOMAIN Atoi)
         => Port(conf) = Atoi[Get(conf, <<"tls-port">>)]
    /\ (~Tls(conf) /\ PlainPort(conf) # 0) => Port(conf) = PlainPort(conf)

\* Each renamed command has the alias its last rename-command line gives it;
\* a line with one word makes CommandAliases panic.
LastAliasWins ==
  conf # LoadError =>
    LET renames == getAll(conf, <<"rename-command">>)
        original == [i \in DOMAIN renames |-> Before(renames[i].value, SP)]
    IN  IF \E i \in DOMAIN renames : ~Contains(renames[i].value, SP)
        THEN CommandAliases(conf) = Panic
        ELSE \A i \in DOMAIN renames :
               (\A j \in i + 1 .. Len(renames) : original[j] # original[i])
                  => CommandAliases(conf)[original[i]] = Alias(renames[i].value)
=============================================================================

----------------------------- MODULE Migration -----------------------------
(***************************************************************************)
(* What the configuration migration promises: every setting of every       *)
(* instance keeps its value while its home moves from a legacy file to     *)
(* redis.conf, and only a write that is cut short loses values, those that *)
(* redis.conf alone held.                                                  *)
(***************************************************************************)
CONSTANTS
  Instances,
  Settings,    \* what a redis.conf may set
  Moved,       \* the settings that older releases kept in files
  Values,      \* what settings are set to
  Unset        \* what is read of a setting that has no value

VARIABLES
  value,   \* the value of each setting of each instance
  home     \* where each moved setting is: "file" or "conf"

vars == <<value, home>>

TypeOK == /\ value \in [Instances -> [Settings -> Values \cup {Unset}]]
          /\ home \in [Instances -> [Moved -> {"file", "conf"}]]

Init == TypeOK /\ \A i \in Instances, s \in Moved : value[i][s] # Unset

Move(i, s) == /\ home[i][s] = "file"
              /\ home' = [home EXCEPT ![i][s] = "conf"]
              /\ UNCHANGED value

\* redis.conf is lost; the legacy files in back had not been removed yet
Cut(i, back) ==
  /\ back \subseteq {s \in Moved : home[i][s] = "conf"}
  /\ home' = [home EXCEPT ![i] = [s \in Moved |-> IF s \in back THEN "file" ELSE @[s]]]
  /\ value' = [value EXCEPT ![i] =
       [s \in Settings |-> IF s \in Moved /\ home'[i][s] = "file" THEN @[s] ELSE Unset]]

Next == \E i \in Instances : \/ \E s \in Moved : Move(i, s)
                             \/ \E back \in SUBSET Moved : Cut(i, back)

Spec == Init /\ [][Next]_vars
=============================================================================

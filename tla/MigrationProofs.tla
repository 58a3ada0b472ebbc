-------------------------- MODULE MigrationProofs --------------------------
(***************************************************************************)
(* What Set and Get of package redisconf guarantee for every Conf, and     *)
(* what CopyWithInstanceAdditions therefore leaves of a default            *)
(* configuration of any size.  Then the configuration migration for any    *)
(* number of instances, any redis.conf and any number of faults: it        *)
(* implements Migration, loses values only when a rewrite is cut short,    *)
(* and reports success only when it is done.                               *)
(***************************************************************************)
EXTENDS ConfigMigrator, NaturalsInduction, WellFoundedInduction, TLAPS

-----------------------------------------------------------------------------
(* Set and Get                                                             *)

\* A key that some parameter has is found: the loop of Set stops at the first
\* parameter with the key.
LEMMA FirstFound ==
  ASSUME NEW T, NEW c \in Conf(T), NEW key, HasKey(c, key)
  PROVE  /\ First(c, key) \in DOMAIN c
         /\ c[First(c, key)].key = key
         /\ \A j \in 1 .. First(c, key) - 1 : c[j].key # key
<1> DEFINE Found == {i \in DOMAIN c : c[i].key = key}
           R == {p \in Nat \X Nat : p[1] < p[2]}
<1>1. DOMAIN c = 1 .. Len(c) /\ Len(c) \in Nat
  BY DEF Conf
<1>2. Found \subseteq Nat /\ Found # {}
  BY <1>1 DEF HasKey
<1>3. PICK x \in Found : \A y \in Found : ~(<<y, x>> \in R)
  <2>1. IsWellFoundedOn(R, Nat)
    BY NatLessThanWellFounded, Zenon DEF OpToRel
  <2> HIDE DEF Found, R
  <2> QED
    BY <1>2, <2>1, WFMin, Zenon
<1>4. \A y \in Found : ~(y < x)
  BY <1>2, <1>3, Zenon
<1>5. \A j \in 1 .. x - 1 : c[j].key # key
  BY <1>1, <1>2, <1>4
<1> QED
  BY <1>5 DEF First

\* Only one parameter is the first with its key.
LEMMA FirstIs ==
  ASSUME NEW T, NEW c \in Conf(T), NEW key, NEW i \in DOMAIN c,
         c[i].key = key, \A j \in 1 .. i - 1 : c[j].key # key
  PROVE  HasKey(c, key) /\ First(c, key) = i
<1>1. HasKey(c, key)
  BY DEF HasKey
<1> DEFINE f == First(c, key)
<1>2. /\ f \in DOMAIN c /\ c[f].key = key
      /\ \A j \in 1 .. f - 1 : c[j].key # key
  BY <1>1, FirstFound
<1>3. DOMAIN c = 1 .. Len(c) /\ Len(c) \in Nat
  BY DEF Conf
<1> HIDE DEF f
<1>4. f = i
  BY <1>2, <1>3
<1> QED
  BY <1>1, <1>4 DEF f

\* Where Set writes
At(c, key) == IF HasKey(c, key) THEN First(c, key) ELSE Len(c) + 1

Effect(T, c, key, value, slot, new) ==
  /\ new \in Conf(T)
  /\ DOMAIN new = DOMAIN c \cup {slot}
  /\ new[slot] = Param(key, value)
  /\ \A i \in DOMAIN c : i # slot => new[i] = c[i]
  /\ \A i \in 1 .. slot - 1 : i \in DOMAIN c /\ c[i].key # key
  /\ slot \in Nat

\* Set returns a Conf, replaces the first parameter with the key or appends
\* one, and leaves every other parameter in its place.
LEMMA SetEffect ==
  ASSUME NEW T, NEW c \in Conf(T), NEW key \in T, NEW value \in T
  PROVE  Effect(T, c, key, value, At(c, key), SetParam(c, key, value))
<1>1. Param(key, value) \in Parameter(T)
  BY DEF Param, Parameter
<1>2. DOMAIN c = 1 .. Len(c) /\ Len(c) \in Nat
  BY DEF Conf
<1>3. CASE HasKey(c, key)
  <2> DEFINE f == First(c, key)
             new == [c EXCEPT ![f] = Param(key, value)]
  <2>1. f \in DOMAIN c /\ \A j \in 1 .. f - 1 : c[j].key # key
    BY <1>3, FirstFound
  <2>2. SetParam(c, key, value) = new /\ At(c, key) = f
    BY <1>3 DEF SetParam, At
  <2> HIDE DEF f
  <2>3. new \in Conf(T)
    BY <1>1, <2>1 DEF Conf
  <2>4. /\ DOMAIN new = DOMAIN c /\ new[f] = Param(key, value)
        /\ \A i \in DOMAIN c : i # f => new[i] = c[i]
    BY <2>1, <1>2
  <2> QED
    BY <1>2, <2>1, <2>2, <2>3, <2>4 DEF Effect
<1>4. CASE ~HasKey(c, key)
  BY <1>1, <1>4 DEF SetParam, At, Conf, HasKey, Effect
<1> QED
  BY <1>3, <1>4

\* What Set wrote is what Get returns.
LEMMA GetAfterSet ==
  ASSUME NEW T, NEW c \in Conf(T), NEW key \in T, NEW value \in T
  PROVE  Get(SetParam(c, key, value), key) = value
<1> DEFINE new == SetParam(c, key, value)
           slot == At(c, key)
<1>1. Effect(T, c, key, value, slot, new)
  BY SetEffect
<1> HIDE DEF new, slot
<1>2. \A i \in 1 .. slot - 1 : new[i].key # key
  BY <1>1 DEF Effect
<1>3. new[slot].key = key /\ new[slot].value = value
  BY <1>1 DEF Param, Effect
<1>4. HasKey(new, key) /\ First(new, key) = slot
  <2>1. new \in Conf(T) /\ slot \in DOMAIN new
    BY <1>1 DEF Effect
  <2> QED
    BY <2>1, <1>2, <1>3, FirstIs
<1> QED
  BY <1>3, <1>4 DEF Get, new

\* Set changes no other key, however often the keys occur.
LEMMA GetOfOthers ==
  ASSUME NEW T, NEW c \in Conf(T), NEW key \in T, NEW value \in T,
         NEW other, other # key
  PROVE  Get(SetParam(c, key, value), other) = Get(c, other)
<1> DEFINE new == SetParam(c, key, value)
           slot == At(c, key)
<1>0. Effect(T, c, key, value, slot, new)
  BY SetEffect
<1>1. /\ new \in Conf(T) /\ DOMAIN new = DOMAIN c \cup {slot} /\ new[slot] = Param(key, value)
      /\ \A i \in DOMAIN c : i # slot => new[i] = c[i]
  BY <1>0 DEF Effect
<1>2. new[slot].key = key
  BY <1>1 DEF Param
<1>3. slot \in DOMAIN c => c[slot].key = key
  <2>1. HasKey(c, key) => c[First(c, key)].key = key
    BY FirstFound
  <2> QED
    BY <2>1 DEF Conf, HasKey, At
<1>4. DOMAIN c = 1 .. Len(c) /\ Len(c) \in Nat
  BY DEF Conf
<1> HIDE DEF new, slot
<1>5. CASE HasKey(c, other)
  <2> DEFINE f == First(c, other)
  <2>1. /\ f \in DOMAIN c /\ c[f].key = other
        /\ \A j \in 1 .. f - 1 : c[j].key # other
    BY <1>5, FirstFound
  <2> HIDE DEF f
  <2>2. f \in DOMAIN new /\ new[f] = c[f]
    BY <1>1, <1>3, <2>1
  <2>3. \A j \in 1 .. f - 1 : new[j].key # other
    BY <1>1, <1>2, <1>4, <2>1
  <2>4. HasKey(new, other) /\ First(new, other) = f
    BY <1>1, <2>1, <2>2, <2>3, FirstIs
  <2> QED
    BY <1>5, <2>2, <2>4 DEF Get, f, new
<1>6. CASE ~HasKey(c, other)
  <2>1. ~HasKey(new, other)
    BY <1>1, <1>2, <1>6 DEF HasKey
  <2> QED
    BY <1>6, <2>1 DEF Get, new
<1> QED
  BY <1>5, <1>6

\* A Conf stays a Conf.
LEMMA SetType ==
  ASSUME NEW T, NEW c \in Conf(T), NEW key \in T, NEW value \in T
  PROVE  SetParam(c, key, value) \in Conf(T)
<1>1. Effect(T, c, key, value, At(c, key), SetParam(c, key, value))
  BY SetEffect
<1> QED
  BY <1>1 DEF Effect

Added == {<<"syslog-enabled">>, <<"syslog-ident">>, <<"syslog-facility">>,
          <<"port">>, <<"requirepass">>, <<"pidfile">>}

\* Whatever the default redis.c holds, in whatever order and however often,
\* the instance's own copy has the instance's port, password and pidfile, and
\* every other key reads as it did in the default.
THEOREM AdditionsKeepTheRest ==
  ASSUME NEW T, NEW c \in Conf(T), NEW ident \in T, NEW port \in T,
         NEW password \in T, NEW pidfile \in T,
         Added \cup {<<"yes">>, <<"local0">>} \subseteq T,
         NEW new, new = InstanceAdditions(c, ident, port, password, pidfile)
  PROVE  /\ Get(new, <<"port">>) = port
         /\ Password(new) = password
         /\ Get(new, <<"pidfile">>) = pidfile
         /\ \A other : other \notin Added => Get(new, other) = Get(c, other)
<1> DEFINE c1 == SetParam(c, <<"syslog-enabled">>, <<"yes">>)
           c2 == SetParam(c1, <<"syslog-ident">>, ident)
           c3 == SetParam(c2, <<"syslog-facility">>, <<"local0">>)
           c4 == SetParam(c3, <<"port">>, port)
           c5 == SetParam(c4, <<"requirepass">>, password)
           c6 == SetParam(c5, <<"pidfile">>, pidfile)
<1>1. new = c6
  BY DEF InstanceAdditions
<1>3. /\ <<"port">> # <<"requirepass">> /\ <<"port">> # <<"pidfile">>
      /\ <<"requirepass">> # <<"pidfile">>
  OBVIOUS
<1>4. c1 \in Conf(T)
  BY SetType DEF Added
<1> HIDE DEF c1
<1>5. c2 \in Conf(T)
  BY <1>4, SetType DEF Added
<1> HIDE DEF c2
<1>6. c3 \in Conf(T)
  BY <1>5, SetType DEF Added
<1> HIDE DEF c3
<1>7. c4 \in Conf(T) /\ Get(c4, <<"port">>) = port
  BY <1>6, SetType, GetAfterSet DEF Added
<1> HIDE DEF c4
<1>8. c5 \in Conf(T) /\ Get(c5, <<"requirepass">>) = password
  BY <1>7, SetType, GetAfterSet DEF Added
<1> HIDE DEF c5
<1>9. Get(c6, <<"pidfile">>) = pidfile
  BY <1>8, GetAfterSet DEF Added
<1>10. Get(c6, <<"requirepass">>) = password
  BY <1>3, <1>8, GetOfOthers DEF Added
<1>11. Get(c6, <<"port">>) = port
  <2>1. Get(c5, <<"port">>) = port
    BY <1>3, <1>7, GetOfOthers DEF Added, c5
  <2> QED
    BY <1>3, <1>8, <2>1, GetOfOthers DEF Added
<1>12. ASSUME NEW other, other \notin Added
       PROVE  Get(c6, other) = Get(c, other)
  <2>1. Get(c1, other) = Get(c, other)
    BY <1>12, GetOfOthers DEF Added, c1
  <2>2. Get(c2, other) = Get(c1, other)
    BY <1>4, <1>12, GetOfOthers DEF Added, c2
  <2>3. Get(c3, other) = Get(c2, other)
    BY <1>5, <1>12, GetOfOthers DEF Added, c3
  <2>4. Get(c4, other) = Get(c3, other)
    BY <1>6, <1>12, GetOfOthers DEF Added, c4
  <2>5. Get(c5, other) = Get(c4, other)
    BY <1>7, <1>12, GetOfOthers DEF Added, c5
  <2>6. Get(c6, other) = Get(c5, other)
    BY <1>8, <1>12, GetOfOthers DEF Added
  <2> QED
    BY <2>1, <2>2, <2>3, <2>4, <2>5, <2>6
<1> QED
  BY <1>1, <1>9, <1>10, <1>11, <1>12 DEF Password

-----------------------------------------------------------------------------
(* The migration                                                           *)

Running == {"load", "read", "truncate", "fill", "remove"}

\* What the migration knows about the directory it is in
Progress ==
  /\ pc \in Running => listed = Len(Dirs) /\ at \in DOMAIN Dirs
  /\ pc \in {"read", "truncate"} => mem = conf[cur]
  /\ pc \in {"read", "truncate", "fill"} => Get(mem, prop) = <<>>
  /\ pc \in {"truncate", "fill"} => legacy[cur][prop] # NoFile
  /\ pc = "fill" => conf[cur] = <<>>
  /\ pc = "remove" => Get(conf[cur], prop) # <<>>

\* What it has left behind: migrated directories, and in the current one the
\* port before the password
Behind ==
  /\ pc \in Running => \A n \in 1 .. at - 1 : Migrated(Dirs[n])
  /\ pc \in Running /\ prop # PORT => Get(Current(cur), PORT) # <<>>
  /\ SuccessMeansMigrated

\* A setting that is in both places has one value
Agree ==
  \A i \in Instances, p \in Moved :
    legacy[i][p] # NoFile /\ Get(Current(i), p) # <<>>
      => SavedValue(legacy[i][p]) = Get(Current(i), p)

Inv == TypeOK /\ Progress /\ Behind /\ Agree

\* Get returns a text.
LEMMA GetType ==
  ASSUME NEW c \in Conf(Text), NEW key
  PROVE  Get(c, key) \in Text
<1>1. CASE HasKey(c, key)
  <2>1. First(c, key) \in DOMAIN c
    BY <1>1, FirstFound
  <2>2. c[First(c, key)] \in Parameter(Text)
    BY <2>1 DEF Conf
  <2> QED
    BY <1>1, <2>2 DEF Get, Parameter
<1>2. CASE ~HasKey(c, key)
  BY <1>2, TextAssumption DEF Get
<1> QED
  BY <1>1, <1>2

\* The empty redis.conf that a truncation leaves sets nothing.
LEMMA EmptyConf == <<>> \in Conf(Text) /\ \A key : Get(<<>>, key) = <<>>
BY DEF Conf, Get, HasKey

\* The directory being migrated is an instance, and no other directory is.
LEMMA CurrentDir ==
  ASSUME NEW n \in DOMAIN Dirs
  PROVE  /\ Dirs[n] \in Instances
         /\ \A m \in DOMAIN Dirs : m # n => Dirs[m] # Dirs[n]
         /\ DOMAIN Dirs = 1 .. Len(Dirs) /\ Len(Dirs) \in Nat
BY DirsAssumption DEF Instances

\* The invariant holds before the first run.
LEMMA InitInv == Init => Inv
<1> SUFFICES ASSUME Init PROVE Inv
  OBVIOUS
<1>1. TypeOK
  <2>1. Confs \subseteq Conf(Text) /\ PORT \in Moved
    BY TextAssumption DEF Moved
  <2>2. Len(Dirs) \in Nat
    BY DirsAssumption
  <2>3. mem \in Conf(Text)
    BY EmptyConf DEF Init
  <2> QED
    BY <2>1, <2>2, <2>3, FaultsAssumption DEF Init, TypeOK
<1>2. Progress /\ Behind
  BY DEF Init, Progress, Behind, Running, SuccessMeansMigrated
<1>3. Agree
  BY DEF Init, Agree, Current, Consistent
<1> QED
  BY <1>1, <1>2, <1>3 DEF Inv

\* A run that ends early, by a kill or an error, keeps the invariant.
LEMMA EndInv ==
  ASSUME Inv, pc' \in {"idle", "parsed", "failed"}, faults' \in 0 .. MaxFaults,
         UNCHANGED <<conf, legacy, listed, at, prop, mem>>
  PROVE  Inv'
<1>1. TypeOK'
  BY DEF Inv, TypeOK
<1>2. Progress' /\ Behind'
  BY DEF Progress, Behind, Running, SuccessMeansMigrated
<1>3. Agree'
  <2> SUFFICES ASSUME NEW i \in Instances, NEW p \in Moved,
                      legacy[i][p] # NoFile, Get(conf[i], p) # <<>>
               PROVE  SavedValue(legacy[i][p]) = Get(conf[i], p)
    BY DEF Agree, Current
  <2>1. ~(pc = "fill" /\ i = cur)
    BY EmptyConf DEF Inv, Progress
  <2> QED
    BY <2>1 DEF Inv, Agree, Current
<1> QED
  BY <1>1, <1>2, <1>3 DEF Inv

\* Faults that remain
LEMMA FaultType ==
  ASSUME Inv, Fault \/ NoFault
  PROVE  faults' \in 0 .. MaxFaults
BY FaultsAssumption DEF Inv, TypeOK, Fault, NoFault

\* An operation that fails keeps the invariant.
LEMMA FailsInv == Inv /\ Fails => Inv'
BY EndInv, FaultType DEF Fails

\* Reading the broker's configuration keeps the invariant.
LEMMA ParseConfigInv == Inv /\ ParseConfig => Inv'
<1> SUFFICES ASSUME Inv, ParseConfig PROVE Inv'
  OBVIOUS
<1>1. CASE Fails
  BY <1>1, FailsInv
<1>2. CASE ~Fails
  <2>1. faults' \in 0 .. MaxFaults
    BY <1>2, FaultType DEF ParseConfig
  <2> QED
    BY <1>2, <2>1, EndInv DEF ParseConfig
<1> QED
  BY <1>1, <1>2

\* Listing the directories keeps the invariant.
LEMMA MigrateInv == Inv /\ Migrate => Inv'
<1> SUFFICES ASSUME Inv, Migrate PROVE Inv'
  OBVIOUS
<1>0. Len(Dirs) \in Nat /\ DOMAIN Dirs = 1 .. Len(Dirs)
  BY DirsAssumption
<1>1. TypeOK'
  <2>1. faults' \in 0 .. MaxFaults
    BY FaultType DEF Migrate
  <2>2. PORT \in Moved
    BY DEF Moved
  <2>3. listed' \in {0, Len(Dirs)} /\ at' \in 1 .. Len(Dirs) + 1
    BY <1>0 DEF Migrate
  <2>4. pc' \in {"ok", "load"} /\ prop' \in Moved /\ UNCHANGED <<conf, legacy, mem>>
    BY <2>2 DEF Migrate
  <2> QED
    BY <2>1, <2>3, <2>4 DEF Inv, TypeOK
<1>2. Progress'
  BY <1>0 DEF Migrate, Progress, Running
<1>3. Behind'
  BY <1>0 DEF Migrate, Behind, Running, SuccessMeansMigrated
<1>4. Agree'
  BY DEF Inv, Migrate, Agree, Current
<1> QED
  BY <1>1, <1>2, <1>3, <1>4 DEF Inv

\* Reading redis.conf keeps the invariant.
LEMMA LoadInv == Inv /\ Load => Inv'
<1> SUFFICES ASSUME Inv, Load PROVE Inv'
  OBVIOUS
<1>1. CASE Fails
  BY <1>1, FailsInv
<1>2. CASE ~Fails
  <2>0. /\ pc = "load" /\ mem' = conf[cur] /\ NoFault
        /\ pc' = IF Get(conf[cur], prop) # <<>> THEN "remove" ELSE "read"
        /\ UNCHANGED <<conf, legacy, listed, at, prop>>
    BY <1>2 DEF Load
  <2>1. at \in DOMAIN Dirs /\ cur \in Instances /\ UNCHANGED cur
    BY <2>0, CurrentDir DEF Inv, Progress, Running, cur
  <2>2. TypeOK'
    <3>1. mem' \in Conf(Text)
      BY <2>0, <2>1 DEF Inv, TypeOK
    <3>2. faults' \in 0 .. MaxFaults
      BY <2>0, FaultType
    <3> QED
      BY <2>0, <3>1, <3>2 DEF Inv, TypeOK
  <2>3. Progress'
    BY <2>0, <2>1 DEF Inv, Progress, Running
  <2>4. Behind'
    BY <2>0, <2>1 DEF Inv, Behind, Running, SuccessMeansMigrated, Current, Migrated
  <2>5. Agree'
    BY <2>0 DEF Inv, Agree, Current
  <2> QED
    BY <2>2, <2>3, <2>4, <2>5 DEF Inv
<1> QED
  BY <1>1, <1>2

\* Reading the legacy file keeps the invariant.
LEMMA ReadInv == Inv /\ Read => Inv'
<1> SUFFICES ASSUME Inv, Read PROVE Inv'
  OBVIOUS
<1>1. CASE Fails
  BY <1>1, FailsInv
<1>2. CASE ~Fails
  <2>0. /\ pc = "read" /\ NoFault
        /\ pc' = IF legacy[cur][prop] = NoFile THEN "failed" ELSE "truncate"
        /\ UNCHANGED <<conf, legacy, listed, at, prop, mem>>
    BY <1>2 DEF Read
  <2>1. faults' \in 0 .. MaxFaults /\ UNCHANGED cur
    BY <2>0, FaultType DEF cur
  <2>2. CASE legacy[cur][prop] = NoFile
    BY <2>0, <2>1, <2>2, EndInv
  <2>3. CASE legacy[cur][prop] # NoFile
    <3>1. TypeOK'
      BY <2>0, <2>1, <2>3 DEF Inv, TypeOK
    <3>2. Progress'
      BY <2>0, <2>1, <2>3 DEF Inv, Progress, Running
    <3>3. Behind'
      BY <2>0, <2>1, <2>3 DEF Inv, Behind, Running, SuccessMeansMigrated, Current, Migrated
    <3>4. Agree'
      BY <2>0, <2>3 DEF Inv, Agree, Current
    <3> QED
      BY <3>1, <3>2, <3>3, <3>4 DEF Inv
  <2> QED
    BY <2>2, <2>3
<1> QED
  BY <1>1, <1>2

\* Truncating redis.conf keeps the invariant: mem holds what was in it.
LEMMA TruncateInv == Inv /\ Truncate => Inv'
<1> SUFFICES ASSUME Inv, Truncate PROVE Inv'
  OBVIOUS
<1>1. CASE Fails
  BY <1>1, FailsInv
<1>2. CASE ~Fails
  <2>0. /\ pc = "truncate" /\ NoFault /\ pc' = "fill"
        /\ conf' = [conf EXCEPT ![cur] = <<>>]
        /\ UNCHANGED <<legacy, listed, at, prop, mem>>
    BY <1>2 DEF Truncate
  <2>1. at \in DOMAIN Dirs /\ cur \in Instances /\ UNCHANGED cur
    BY <2>0, CurrentDir DEF Inv, Progress, Running, cur
  <2>2. conf'[cur] = <<>> /\ \A i \in Instances : i # cur => conf'[i] = conf[i]
    BY <2>0, <2>1 DEF Inv, TypeOK
  <2>3. \A i \in Instances : Current(i)' = Current(i)
    BY <2>0, <2>1, <2>2 DEF Inv, Progress, Current
  <2>4. TypeOK'
    <3>1. conf' \in [Instances -> Conf(Text)]
      BY <2>0, EmptyConf, Zenon DEF Inv, TypeOK
    <3>2. faults' \in 0 .. MaxFaults
      BY <2>0, FaultType
    <3> QED
      BY <2>0, <3>1, <3>2 DEF Inv, TypeOK
  <2>5. Progress'
    BY <2>0, <2>1, <2>2 DEF Inv, Progress, Running
  <2>6. Behind'
    <3>1. ASSUME NEW n \in 1 .. at - 1
          PROVE  Migrated(Dirs[n])'
      <4>1. Dirs[n] \in Instances /\ Dirs[n] # cur
        BY <2>1, CurrentDir DEF cur
      <4> QED
        BY <2>0, <2>2, <4>1 DEF Inv, Behind, Running, Migrated
    <3>2. prop # PORT => Get(Current(cur), PORT)' # <<>>
      BY <2>0, <2>1, <2>3 DEF Inv, Behind, Running
    <3> QED
      BY <2>0, <2>1, <3>1, <3>2 DEF Behind, SuccessMeansMigrated
  <2>7. Agree'
    BY <2>0, <2>3 DEF Inv, Agree
  <2> QED
    BY <2>4, <2>5, <2>6, <2>7 DEF Inv
<1> QED
  BY <1>1, <1>2

\* What writing redis.conf back does: the property reads as the legacy file,
\* and every other key as before.
LEMMA FillEffect ==
  ASSUME Inv, Fill, ~Fails
  PROVE  /\ pc = "fill" /\ pc' = "remove" /\ NoFault
         /\ UNCHANGED <<legacy, listed, at, prop, mem>>
         /\ at \in DOMAIN Dirs /\ cur \in Instances /\ UNCHANGED cur
         /\ conf' \in [Instances -> Conf(Text)]
         /\ \A i \in Instances : i # cur => conf'[i] = conf[i]
         /\ Get(conf'[cur], prop) = SavedValue(legacy[cur][prop])
         /\ SavedValue(legacy[cur][prop]) # <<>>
         /\ \A key : key # prop => Get(conf'[cur], key) = Get(mem, key)
<1> DEFINE v == SavedValue(legacy[cur][prop])
<1>1. /\ pc = "fill" /\ NoFault /\ pc' = "remove"
      /\ conf' = [conf EXCEPT ![cur] = SetParam(mem, prop, v)]
      /\ UNCHANGED <<legacy, listed, at, prop, mem>>
  BY DEF Fill
<1>2. at \in DOMAIN Dirs /\ cur \in Instances /\ UNCHANGED cur
  BY <1>1, CurrentDir DEF Inv, Progress, Running, cur
<1>3. v \in Text /\ v # <<>>
  <2>1. legacy[cur][prop] \in Contents
    BY <1>1, <1>2 DEF Inv, TypeOK, Progress
  <2> QED
    BY <2>1, ContentsAssumption
<1>4. mem \in Conf(Text) /\ prop \in Text
  BY TextAssumption DEF Inv, TypeOK
<1> HIDE DEF v
<1>5. SetParam(mem, prop, v) \in Conf(Text)
  BY <1>3, <1>4, SetType
<1>6. Get(SetParam(mem, prop, v), prop) = v
  BY <1>3, <1>4, GetAfterSet
<1>7. \A key : key # prop => Get(SetParam(mem, prop, v), key) = Get(mem, key)
  BY <1>3, <1>4, GetOfOthers
<1>8. conf'[cur] = SetParam(mem, prop, v)
  BY <1>1, <1>2 DEF Inv, TypeOK
<1>9. /\ conf' \in [Instances -> Conf(Text)]
      /\ \A i \in Instances : i # cur => conf'[i] = conf[i]
  BY <1>1, <1>2, <1>5 DEF Inv, TypeOK
<1> QED
  BY <1>1, <1>2, <1>3, <1>6, <1>7, <1>8, <1>9 DEF v

\* Writing redis.conf back keeps the invariant.
LEMMA FillInv == Inv /\ Fill => Inv'
<1> SUFFICES ASSUME Inv, Fill PROVE Inv'
  OBVIOUS
<1>1. CASE Fails
  BY <1>1, FailsInv
<1>2. CASE ~Fails
  <2>0. /\ pc = "fill" /\ pc' = "remove" /\ NoFault
        /\ UNCHANGED <<legacy, listed, at, prop, mem>>
        /\ at \in DOMAIN Dirs /\ cur \in Instances /\ UNCHANGED cur
    BY <1>2, FillEffect
  <2>1. conf' \in [Instances -> Conf(Text)]
    BY <1>2, FillEffect
  <2>2. \A i \in Instances : i # cur => conf'[i] = conf[i]
    BY <1>2, FillEffect
  <2>3. /\ Get(conf'[cur], prop) = SavedValue(legacy[cur][prop])
        /\ Get(conf'[cur], prop) # <<>>
    BY <1>2, FillEffect
  <2>4. \A key : key # prop => Get(conf'[cur], key) = Get(mem, key)
    BY <1>2, FillEffect
  <2>5. TypeOK'
    <3>1. faults' \in 0 .. MaxFaults
      BY <2>0, FaultType
    <3> QED
      BY <2>0, <2>1, <3>1 DEF Inv, TypeOK
  <2>6. Progress'
    BY <2>0, <2>3 DEF Inv, Progress, Running
  <2>7. Behind'
    <3>1. ASSUME NEW n \in 1 .. at - 1
          PROVE  Migrated(Dirs[n])'
      <4>1. Dirs[n] \in Instances /\ Dirs[n] # cur
        BY <2>0, CurrentDir DEF cur
      <4> QED
        BY <2>0, <2>2, <4>1 DEF Inv, Behind, Running, Migrated
    <3>2. prop # PORT => Get(conf'[cur], PORT) # <<>>
      BY <2>0, <2>4 DEF Inv, Behind, Running, Current
    <3> QED
      BY <2>0, <3>1, <3>2 DEF Behind, SuccessMeansMigrated, Current
  <2>8. Agree'
    <3> SUFFICES ASSUME NEW i \in Instances, NEW p \in Moved,
                        legacy[i][p] # NoFile, Get(conf'[i], p) # <<>>
                 PROVE  SavedValue(legacy[i][p]) = Get(conf'[i], p)
      BY <2>0 DEF Agree, Current
    <3>1. CASE i # cur
      BY <2>0, <2>2, <3>1 DEF Inv, Agree, Current
    <3>2. CASE i = cur /\ p = prop
      BY <2>3, <3>2
    <3>3. CASE i = cur /\ p # prop
      BY <2>0, <2>4, <3>3 DEF Inv, Agree, Current
    <3> QED
      BY <3>1, <3>2, <3>3
  <2> QED
    BY <2>5, <2>6, <2>7, <2>8 DEF Inv
<1> QED
  BY <1>1, <1>2

\* Removing the legacy file and going on keeps the invariant.
LEMMA RemoveLegacyInv == Inv /\ RemoveLegacy => Inv'
<1> SUFFICES ASSUME Inv, RemoveLegacy PROVE Inv'
  OBVIOUS
<1>0. /\ pc = "remove" /\ Advance /\ UNCHANGED <<conf, listed, mem>>
      /\ faults' \in 0 .. MaxFaults
  BY FaultType DEF RemoveLegacy
<1>1. /\ at \in DOMAIN Dirs /\ cur \in Instances /\ listed = Len(Dirs)
      /\ DOMAIN Dirs = 1 .. Len(Dirs) /\ Len(Dirs) \in Nat
  BY <1>0, CurrentDir DEF Inv, Progress, Running, cur
<1>2. /\ legacy' \in [Instances -> [Moved -> Contents \cup {NoFile}]]
      /\ \A i \in Instances, p \in Moved : legacy'[i][p] \in {legacy[i][p], NoFile}
  <2>1. CASE legacy' = [legacy EXCEPT ![cur][prop] = NoFile]
    BY <1>1, <2>1 DEF Inv, TypeOK
  <2>2. CASE UNCHANGED legacy
    BY <2>2 DEF Inv, TypeOK
  <2> QED
    BY <2>1, <2>2 DEF RemoveLegacy
<1>3. Get(conf[cur], prop) # <<>> /\ prop \in Moved
  BY <1>0 DEF Inv, Progress, TypeOK
<1>4. Agree'
  <2>1. pc' # "fill"
    BY <1>0 DEF Advance
  <2> QED
    BY <1>0, <1>2, <2>1 DEF Inv, Agree, Current
<1>5. CASE prop = PORT
  <2>1. prop' = PASSWORD /\ pc' = "load" /\ UNCHANGED <<at, cur>>
    BY <1>0, <1>5 DEF Advance, cur
  <2>2. PASSWORD \in Moved
    BY DEF Moved
  <2>3. TypeOK'
    BY <1>0, <1>2, <2>1, <2>2 DEF Inv, TypeOK
  <2>4. Progress'
    BY <1>0, <1>1, <2>1 DEF Progress, Running
  <2>5. Behind'
    BY <1>0, <1>3, <1>5, <2>1 DEF Inv, Behind, Running, SuccessMeansMigrated, Current, Migrated
  <2> QED
    BY <1>4, <2>3, <2>4, <2>5 DEF Inv
<1>6. CASE prop # PORT
  <2>1. /\ prop' = PORT /\ at' = at + 1
        /\ pc' = IF at < listed THEN "load" ELSE "ok"
    BY <1>0, <1>6 DEF Advance
  <2>2. PORT \in Moved
    BY DEF Moved
  <2>3. TypeOK'
    <3>1. at' \in 1 .. Len(Dirs) + 1 /\ pc' \in {"load", "ok"}
      BY <1>1, <2>1
    <3> QED
      BY <1>0, <1>2, <2>1, <2>2, <3>1 DEF Inv, TypeOK
  <2>4. Progress'
    BY <1>0, <1>1, <2>1 DEF Progress, Running
  <2>5. Migrated(cur)
    <3>1. Get(conf[cur], PORT) # <<>>
      BY <1>0, <1>6 DEF Inv, Behind, Running, Current
    <3> QED
      BY <1>3, <1>6, <3>1 DEF Moved, Migrated
  <2>6. \A n \in 1 .. at : Migrated(Dirs[n])'
    <3>1. \A n \in 1 .. at : Migrated(Dirs[n])
      BY <1>0, <1>1, <2>5 DEF Inv, Behind, Running, cur
    <3> QED
      BY <1>0, <3>1 DEF Migrated
  <2>7. Behind'
    <3>1. at' - 1 = at /\ (pc' = "ok" => listed' = at)
      BY <1>0, <1>1, <2>1
    <3> QED
      BY <2>1, <2>6, <3>1 DEF Behind, SuccessMeansMigrated
  <2> QED
    BY <1>4, <2>3, <2>4, <2>7 DEF Inv
<1> QED
  BY <1>5, <1>6

\* Every step of the migration keeps the invariant.
LEMMA NextInv == Inv /\ [Next]_vars => Inv'
<1> SUFFICES ASSUME Inv, [Next]_vars PROVE Inv'
  OBVIOUS
<1>1. CASE Migrate
  BY <1>1, MigrateInv
<1>2. CASE Load
  BY <1>2, LoadInv
<1>3. CASE Read
  BY <1>3, ReadInv
<1>4. CASE Truncate
  BY <1>4, TruncateInv
<1>5. CASE Fill
  BY <1>5, FillInv
<1>6. CASE RemoveLegacy
  BY <1>6, RemoveLegacyInv
<1>7. CASE Crash
  BY <1>7, EndInv, FaultType DEF Crash
<1>8. CASE Rerun
  <2>1. faults' \in 0 .. MaxFaults
    BY <1>8, FaultType DEF Rerun, NoFault
  <2> QED
    BY <1>8, <2>1, EndInv DEF Rerun
<1>9. CASE UNCHANGED vars
  BY <1>9 DEF vars, Inv, TypeOK, Progress, Behind, Agree, Running, cur, Current,
              SuccessMeansMigrated, Migrated
<1>10. CASE ParseConfig
  BY <1>10, ParseConfigInv
<1> QED
  BY <1>1, <1>2, <1>3, <1>4, <1>5, <1>6, <1>7, <1>8, <1>9, <1>10 DEF Next, Step

\* Whatever fails and whenever it is killed, the migration works on a Conf in
\* memory and on one in every file, within the directories it listed.
THEOREM TypesKept == Spec => []TypeOK
<1>1. Inv => TypeOK
  BY DEF Inv
<1> QED
  BY <1>1, InitInv, NextInv, PTL DEF Spec

\* Migrate returns no error only when every listed directory has its port and
\* its password in redis.conf, for any number of directories, any contents
\* and any number of kills and failing operations.
THEOREM SuccessIsTrue == Spec => []SuccessMeansMigrated
<1>1. Inv => SuccessMeansMigrated
  BY DEF Inv, Behind
<1> QED
  BY <1>1, InitInv, NextInv, PTL DEF Spec

-----------------------------------------------------------------------------
(* The migration implements Migration.                                     *)

\* A step that changes neither what redis.conf holds or will hold nor the
\* legacy files is invisible.
LEMMA SameView ==
  ASSUME \A i \in Instances : Current(i)' = Current(i), UNCHANGED legacy
  PROVE  UNCHANGED <<reads, homes>>
BY DEF reads, homes

\* Outside the window in which redis.conf is empty the end of a run is
\* invisible.
LEMMA EndView ==
  ASSUME pc # "fill", pc' # "fill", UNCHANGED <<conf, legacy>>
  PROVE  UNCHANGED <<reads, homes>>
<1>1. \A i \in Instances : Current(i)' = Current(i)
  BY DEF Current
<1> QED
  BY <1>1, SameView

\* A run that ends in that window loses what only redis.conf held.
LEMMA CutView ==
  ASSUME Inv, pc = "fill", pc' # "fill", UNCHANGED <<conf, legacy, at>>
  PROVE  Abstract!Next
<1>0. PICK j \in Instances : j = cur
  BY CurrentDir DEF Inv, Progress, Running, cur
<1> DEFINE back == {s \in Moved : homes[j][s] = "conf" /\ legacy[j][s] # NoFile}
<1>1. Current(j) = mem /\ Current(j)' = <<>>
  BY <1>0 DEF Inv, Progress, Current
<1>2. \A i \in Instances : i # j => Current(i)' = Current(i)
  BY <1>0 DEF Current
<1>3. \A s : Get(Current(j)', s) = <<>>
  BY <1>1, EmptyConf
<1>4. homes' = [homes EXCEPT ![j] = [s \in Moved |-> IF s \in back THEN "file" ELSE @[s]]]
  <2>1. ASSUME NEW i \in Instances, i # j PROVE homes'[i] = homes[i]
    BY <1>2, <2>1 DEF homes
  <2>2. ASSUME NEW s \in Moved
        PROVE  homes'[j][s] = IF s \in back THEN "file" ELSE homes[j][s]
    BY <1>1, <1>3 DEF homes
  <2> HIDE DEF back
  <2>3. homes'[j] = [s \in Moved |-> IF s \in back THEN "file" ELSE homes[j][s]]
    <3>1. homes'[j] = [s \in Moved |-> homes'[j][s]]
      BY <1>1 DEF homes
    <3> QED
      BY <2>2, <3>1
  <2>4. DOMAIN homes' = Instances /\ homes' = [i \in Instances |-> homes'[i]]
        /\ homes = [i \in Instances |-> homes[i]]
    BY DEF homes
  <2> QED
    BY <1>1, <2>1, <2>3, <2>4
<1>5. reads' = [reads EXCEPT ![j] =
        [s \in Settings |-> IF s \in Moved /\ homes'[j][s] = "file" THEN @[s] ELSE <<>>]]
  <2>1. ASSUME NEW i \in Instances, i # j PROVE reads'[i] = reads[i]
    BY <1>2, <2>1 DEF reads
  <2>2. ASSUME NEW s \in Settings
        PROVE  reads'[j][s] =
                 IF s \in Moved /\ homes'[j][s] = "file" THEN reads[j][s] ELSE <<>>
    <3>1. CASE s \in Moved /\ legacy[j][s] # NoFile
      <4>1. homes'[j][s] = "file" /\ reads'[j][s] = SavedValue(legacy[j][s])
        BY <1>1, <1>3, <3>1 DEF homes, reads
      <4>2. reads[j][s] = SavedValue(legacy[j][s])
        BY <1>1, <3>1 DEF reads, Inv, Agree
      <4> QED
        BY <3>1, <4>1, <4>2
    <3>2. CASE ~(s \in Moved /\ legacy[j][s] # NoFile)
      BY <1>1, <1>3, <3>2 DEF homes, reads
    <3> QED
      BY <3>1, <3>2
  <2>3. reads'[j] = [s \in Settings |->
          IF s \in Moved /\ homes'[j][s] = "file" THEN reads[j][s] ELSE <<>>]
    <3>1. reads'[j] = [s \in Settings |-> reads'[j][s]]
      BY <1>1 DEF reads
    <3> HIDE DEF reads, homes
    <3> QED
      BY <2>2, <3>1
  <2>4. reads' = [i \in Instances |-> reads'[i]] /\ reads = [i \in Instances |-> reads[i]]
    BY DEF reads
  <2> QED
    BY <1>1, <2>1, <2>3, <2>4
<1>6. back \subseteq {s \in Moved : homes[j][s] = "conf"} /\ back \in SUBSET Moved
  OBVIOUS
<1> HIDE DEF back
<1>7. Abstract!Cut(j, back)
  BY <1>4, <1>5, <1>6 DEF Abstract!Cut
<1> QED
  BY <1>1, <1>6, <1>7 DEF Abstract!Next

\* Writing redis.conf back moves the property and keeps every value.
LEMMA FillView ==
  ASSUME Inv, Fill, ~Fails
  PROVE  Abstract!Next /\ UNCHANGED reads
<1>0. PICK j \in Instances : j = cur
  BY FillEffect
<1>1. PICK p \in Moved : p = prop
  BY DEF Inv, TypeOK
<1>2. pc = "fill" /\ pc' = "remove" /\ UNCHANGED legacy
  BY FillEffect
<1>3. Current(j) = mem /\ Current(j)' = conf'[j]
  BY <1>0, <1>2 DEF Current
<1>4. \A i \in Instances : i # j => Current(i)' = Current(i)
  BY <1>0, <1>2, FillEffect DEF Current
<1>5. /\ Get(Current(j), p) = <<>> /\ legacy[j][p] # NoFile
      /\ Get(Current(j)', p) = SavedValue(legacy[j][p])
      /\ SavedValue(legacy[j][p]) # <<>>
  BY <1>0, <1>1, <1>2, <1>3, FillEffect DEF Inv, Progress
<1>6. \A key : key # p => Get(Current(j)', key) = Get(Current(j), key)
  BY <1>0, <1>1, <1>3, FillEffect
<1>7. UNCHANGED reads
  <2>1. ASSUME NEW i \in Instances, NEW s \in Settings
        PROVE  reads'[i][s] = reads[i][s]
    <3>1. CASE i # j
      BY <1>2, <1>4, <3>1 DEF reads
    <3>2. CASE i = j /\ s # p
      BY <1>2, <1>6, <3>2 DEF reads
    <3>3. CASE i = j /\ s = p
      <4>1. reads[j][p] = SavedValue(legacy[j][p])
        BY <1>5, <3>3 DEF reads
      <4>2. reads'[j][p] = SavedValue(legacy[j][p])
        BY <1>5, <3>3 DEF reads
      <4> QED
        BY <3>3, <4>1, <4>2
    <3> QED
      BY <3>1, <3>2, <3>3
  <2>2. /\ reads = [i \in Instances |-> [s \in Settings |-> reads[i][s]]]
        /\ reads' = [i \in Instances |-> [s \in Settings |-> reads'[i][s]]]
    BY DEF reads
  <2> HIDE DEF reads
  <2> QED
    BY <2>1, <2>2
<1>8. homes[j][p] = "file" /\ homes' = [homes EXCEPT ![j][p] = "conf"]
  <2>1. homes[j][p] = "file" /\ homes'[j][p] = "conf"
    BY <1>2, <1>5 DEF homes
  <2>2. ASSUME NEW i \in Instances, NEW s \in Moved, i # j \/ s # p
        PROVE  homes'[i][s] = homes[i][s]
    BY <1>2, <1>4, <1>6, <2>2 DEF homes
  <2>3. /\ homes = [i \in Instances |-> [s \in Moved |-> homes[i][s]]]
        /\ homes' = [i \in Instances |-> [s \in Moved |-> homes'[i][s]]]
    BY DEF homes
  <2> HIDE DEF homes
  <2> QED
    BY <2>1, <2>2, <2>3
<1> HIDE DEF reads, homes
<1> QED
  BY <1>7, <1>8, Zenon DEF Abstract!Next, Abstract!Move

\* Removing a legacy file is invisible: redis.conf has the setting.
LEMMA RemoveLegacyView ==
  ASSUME Inv, RemoveLegacy
  PROVE  UNCHANGED <<reads, homes>>
<1>0. PICK j \in Instances : j = cur
  BY CurrentDir DEF Inv, Progress, Running, RemoveLegacy, cur
<1>1. pc = "remove" /\ pc' # "fill" /\ UNCHANGED conf
  BY DEF RemoveLegacy, Advance
<1>2. \A i \in Instances : Current(i)' = Current(i)
  BY <1>1 DEF Current
<1>3. Get(Current(j), prop) # <<>>
  BY <1>0, <1>1 DEF Inv, Progress, Current
<1>4. \A i \in Instances, s \in Moved :
        legacy'[i][s] = legacy[i][s] \/ Get(Current(i), s) # <<>>
  <2>1. CASE legacy' = [legacy EXCEPT ![cur][prop] = NoFile]
    BY <1>0, <1>3, <2>1 DEF Inv, TypeOK
  <2>2. CASE UNCHANGED legacy
    BY <2>2
  <2> QED
    BY <2>1, <2>2 DEF RemoveLegacy
<1> QED
  BY <1>2, <1>4 DEF reads, homes

\* Every step of the migration is a step of Migration or invisible, and it
\* changes what is read only when it cuts a rewrite short.
LEMMA StepView ==
  ASSUME Inv, [Next]_vars
  PROVE  /\ [Abstract!Next]_<<reads, homes>>
         /\ UNCHANGED reads \/ (pc = "fill" /\ pc' \in {"idle", "failed"})
<1>1. CASE Fails
  <2>1. pc' = "failed" /\ UNCHANGED <<conf, legacy, at>>
    BY <1>1 DEF Fails
  <2>2. CASE pc = "fill"
    BY <2>1, <2>2, CutView
  <2>3. CASE pc # "fill"
    BY <2>1, <2>3, EndView
  <2> QED
    BY <2>2, <2>3
<1>2. CASE Crash
  <2>1. pc' = "idle" /\ UNCHANGED <<conf, legacy, at>>
    BY <1>2 DEF Crash
  <2>2. CASE pc = "fill"
    BY <2>1, <2>2, CutView
  <2>3. CASE pc # "fill"
    BY <2>1, <2>3, EndView
  <2> QED
    BY <2>2, <2>3
<1>3. CASE Migrate
  BY <1>3, EndView DEF Migrate
<1>4. CASE Load /\ ~Fails
  BY <1>4, EndView DEF Load
<1>5. CASE Read /\ ~Fails
  BY <1>5, EndView DEF Read
<1>6. CASE Truncate /\ ~Fails
  <2>0. /\ pc = "truncate" /\ pc' = "fill" /\ UNCHANGED <<legacy, at, mem>>
        /\ conf' = [conf EXCEPT ![cur] = <<>>]
    BY <1>6 DEF Truncate
  <2>1. UNCHANGED cur /\ mem = conf[cur]
    BY <2>0 DEF Inv, Progress, cur
  <2>2. \A i \in Instances : Current(i)' = Current(i)
    BY <2>0, <2>1 DEF Inv, TypeOK, Current
  <2> QED
    BY <2>0, <2>2, SameView
<1>7. CASE Fill /\ ~Fails
  BY <1>7, FillView
<1>8. CASE RemoveLegacy
  BY <1>8, RemoveLegacyView
<1>9. CASE Rerun
  BY <1>9, EndView DEF Rerun
<1>10. CASE UNCHANGED vars
  <2>1. \A i \in Instances : Current(i)' = Current(i)
    BY <1>10 DEF vars, Current, cur
  <2> QED
    BY <1>10, <2>1, SameView DEF vars
<1>11. CASE ParseConfig /\ ~Fails
  BY <1>11, EndView DEF ParseConfig
<1> QED
  BY <1>1, <1>2, <1>3, <1>4, <1>5, <1>6, <1>7, <1>8, <1>9, <1>10, <1>11 DEF Next, Step

\* The first state of the migration is one of Migration: nothing is lost.
LEMMA InitView == Init => Abstract!Init
<1> SUFFICES ASSUME Init PROVE Abstract!Init
  OBVIOUS
<1>1. Inv
  BY InitInv
<1>2. ASSUME NEW i \in Instances, NEW s \in Settings
      PROVE  reads[i][s] \in Text
  <2>1. Get(Current(i), s) \in Text
    BY <1>1, GetType DEF Init, Current, TypeOK, Inv
  <2>2. s \in Moved /\ legacy[i][s] # NoFile => SavedValue(legacy[i][s]) \in Text
    BY <1>1, ContentsAssumption DEF Inv, TypeOK
  <2> QED
    BY <2>1, <2>2 DEF reads
<1>3. Abstract!TypeOK
  <2>1. reads \in [Instances -> [Settings -> Text \cup {<<>>}]]
    <3>1. reads = [i \in Instances |-> [s \in Settings |-> reads[i][s]]]
      BY DEF reads
    <3> HIDE DEF reads
    <3> QED
      BY <1>2, <3>1
  <2>2. homes \in [Instances -> [Moved -> {"file", "conf"}]]
    BY DEF homes
  <2> QED
    BY <2>1, <2>2 DEF Abstract!TypeOK
<1>4. ASSUME NEW i \in Instances, NEW s \in Moved
      PROVE  reads[i][s] # <<>>
  <2>1. legacy[i][s] # NoFile => SavedValue(legacy[i][s]) # <<>>
    BY <1>1, ContentsAssumption DEF Inv, TypeOK
  <2>2. Current(i) = conf[i] /\ (Get(conf[i], s) = <<>> => legacy[i][s] # NoFile)
    BY DEF Init, Current, Consistent
  <2>3. s \in Settings
    BY TextAssumption
  <2> QED
    BY <2>1, <2>2, <2>3 DEF reads
<1> QED
  BY <1>3, <1>4 DEF Abstract!Init

\* The migration implements Migration: whatever is killed or fails, a setting
\* moves with its value, and values are lost only by a cut rewrite.
THEOREM Refinement == Spec => Implements
<1>1. Inv /\ [Next]_vars => [Abstract!Next]_(Abstract!vars)
  BY StepView DEF Abstract!vars
<1> QED
  BY <1>1, InitInv, NextInv, InitView, PTL DEF Spec, Implements, Abstract!Spec

\* No other step changes what a reader finds under any key of any instance.
THEOREM OnlyCuts == Spec => OnlyCutsLose
<1>1. Inv /\ [Next]_vars
        => [reads' = reads \/ (pc = "fill" /\ pc' \in {"idle", "failed"})]_vars
  BY StepView
<1> QED
  BY <1>1, InitInv, NextInv, PTL DEF Spec, OnlyCutsLose
=============================================================================

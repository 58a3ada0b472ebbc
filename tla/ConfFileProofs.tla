--------------------------- MODULE ConfFileProofs ---------------------------
(***************************************************************************)
(* A redis.conf on disk: what a Conf is after Save and Load, which line a  *)
(* Get returns and which alias a renamed command has, for every text;      *)
(* MoveFile never loses the file, however often its calls fail; and the    *)
(* port of a Conf fits the protocol that Tls tells the client to speak.    *)
(***************************************************************************)
EXTENDS RedisConfProofs

(* ---------- MoveFile, and the port -------------------------------------- *)

\* Which file holds the text while MoveFile is under way.  The destination is
\* truncated only while the source is whole, and the source is removed only
\* after the destination is.
MoveInv ==
  /\ move \in {"create", "copy", "failed"} => text = file
  /\ move = "remove" => text = file /\ text = destination
  /\ move = "ok" => destination = text /\ file = NoFile
  /\ move \in {"idle", "create", "copy", "failed", "remove", "ok"}

\* A call of MoveFile keeps MoveInv, whether it fails or not.
LEMMA MoveFileInv == MoveInv /\ MoveFile => MoveInv'
<1> SUFFICES ASSUME MoveInv, MoveFile PROVE MoveInv'
  OBVIOUS
<1> USE DEF MoveInv, Returns, CallFails
<1>1. CASE OpenSource
  BY <1>1 DEF OpenSource
<1>2. CASE CreateDestination
  BY <1>2 DEF CreateDestination
<1>3. CASE Copy
  BY <1>3 DEF Copy
<1>4. CASE RemoveSource
  BY <1>4 DEF RemoveSource
<1> QED
  BY <1>1, <1>2, <1>3, <1>4 DEF MoveFile

\* Every step keeps MoveInv: a Conf is loaded, edited and saved only while
\* MoveFile has not been called.
LEMMA MoveInvKept == MoveInv /\ [Next]_vars => MoveInv'
<1> SUFFICES ASSUME MoveInv, [Next]_vars PROVE MoveInv'
  OBVIOUS
<1>1. CASE Load
  BY <1>1 DEF Load, MoveInv, fileVars
<1>2. CASE Save
  BY <1>2 DEF Save, MoveInv, staying
<1>3. CASE Move
  BY <1>3, MoveFileInv DEF Move
<1>4. ASSUME NEW k \in Keys, NEW v \in Values, Edit(k, v)
      PROVE  MoveInv'
  BY <1>4 DEF Edit, MoveInv, fileVars
<1>5. CASE UNCHANGED vars
  BY <1>5 DEF vars, MoveInv, fileVars
<1> QED
  BY <1>1, <1>2, <1>3, <1>4, <1>5 DEF Next

\* MoveFile loses nothing of any text, wherever its copy is cut short and
\* however often it is called again; when it returns nil the destination
\* holds the text and the source is gone.
THEOREM TextIsKept == Spec => []MoveKeepsText
<1>1. Init => MoveInv
  BY DEF Init, FilesInit, MoveInv
<1>2. MoveInv => MoveKeepsText
  BY DEF MoveInv, MoveKeepsText
<1> QED
  BY <1>1, <1>2, MoveInvKept, PTL DEF Spec

\* Port and Tls agree for every Conf, in whatever way it was loaded and
\* edited and whatever numbers Atoi accepts.
THEOREM PortFitsTLS == Spec => []PortSpeaksTLS
<1>1. PortSpeaksTLS
  BY AtoiAssumption DEF PortSpeaksTLS, Port, PlainPort, Tls
<1> QED
  BY <1>1, PTL

(* ---------- Save and Load ----------------------------------------------- *)

\* A value of one line, with or without its line ending, is Short.
LEMMA OneLineShort ==
  ASSUME NEW C, NEW v \in Seq(C), OneLine(v)
  PROVE  Short(v)
<1>1. Len(v) \in Nat
  BY LenProperties
<1>2. PICK tail \in {<<>>, <<NL>>, <<CR, NL>>}, n \in 0 .. Len(v) :
              v = SubSeq(v, 1, n) \o tail /\ CleanValue(SubSeq(v, 1, n))
  BY Zenon DEF OneLine
<1>. DEFINE w == SubSeq(v, 1, n)
<1>3. w \in Seq(C) /\ Len(w) = n /\ \A i \in 1 .. n : w[i] = v[i]
  BY <1>1
<1>. HIDE DEF w
<1>4. \A i \in 1 .. n : v[i] # NL
  BY <1>2, <1>3, Containing DEF CleanValue, w
<1>5. CASE tail \in {<<>>, <<NL>>}
  <2>1. Len(w \o tail) <= n + 1
    <3>1. w \in Seq(C \cup {NL}) /\ tail \in Seq(C \cup {NL}) /\ Len(tail) <= 1
      <4>1. CASE tail = <<>>
        BY <1>3, <4>1, SeqMonotonic
      <4>2. CASE tail = <<NL>>
        BY <1>3, <4>2, SeqMonotonic
      <4>. QED  BY <1>5, <4>1, <4>2
    <3>2. Len(w \o tail) = Len(w) + Len(tail) /\ Len(tail) \in Nat
      BY <3>1, ConcatProperties, LenProperties
    <3>. QED  BY <1>3, <3>1, <3>2
  <2>2. Len(v) <= n + 1
    BY <1>2, <2>1 DEF w
  <2>. QED  BY <1>1, <1>4, <2>2 DEF Short
<1>6. CASE tail = <<CR, NL>>
  <2>1. Len(w \o <<CR, NL>>) = n + 2 /\ (w \o <<CR, NL>>)[n + 1] = CR
    <3>1. w \in Seq(C \cup {CR, NL}) /\ <<CR, NL>> \in Seq(C \cup {CR, NL})
      BY <1>3, SeqMonotonic
    <3>. QED  BY <1>1, <1>3, <3>1, ConcatProperties
  <2>2. Len(v) = n + 2 /\ v[n + 1] = CR /\ CR # NL
    BY <1>2, <1>6, <2>1 DEF w, CR, NL
  <2>. QED  BY <1>1, <1>4, <2>2 DEF Short
<1>. QED  BY <1>5, <1>6

\* An edited Conf is a Conf.
LEMMA SetParamSeq ==
  ASSUME NEW C, NEW c \in Conf(Seq(C)), NEW k \in Seq(C), NEW v \in Seq(C)
  PROVE  SetParam(c, k, v) \in Conf(Seq(C))
<1>1. Param(k, v) \in Parameter(Seq(C)) /\ c \in Seq(Parameter(Seq(C)))
  BY DEF Param, Parameter, Conf
<1>. DEFINE P == Parameter(Seq(C))
            p == Param(k, v)
            j == First(c, k)
<1>. HIDE DEF P, p, j
<1>2. [c EXCEPT ![j] = p] \in Seq(P)
  <2>1. Len(c) \in Nat /\ c \in [1 .. Len(c) -> P] /\ p \in P
    BY <1>1, LenProperties DEF P, p
  <2>2. [c EXCEPT ![j] = p] \in [1 .. Len(c) -> P]
    BY <2>1
  <2>. QED  BY <2>1, <2>2, SeqDef
<1>3. Append(c, p) \in Seq(P)
  BY <1>1, AppendProperties DEF P, p
<1>. QED  BY <1>2, <1>3 DEF SetParam, Conf, P, p, j

\* An edit of a clean Conf survives a save up to the line ending of its value.
LEMMA EditSaved ==
  ASSUME NEW C, SP \in C, NL \in C, NEW c \in Conf(Seq(C)),
         \A i \in DOMAIN c : Clean(c[i]),
         NEW k \in Seq(C), CleanKey(k), NEW v \in Seq(C), Short(v)
  PROVE  decode(Encode(SetParam(c, k, v))) = SetParam(c, k, SavedValue(v))
<1>. DEFINE d == SetParam(c, k, v)
            j == First(c, k)
<1>1. /\ Len(c) \in Nat /\ DOMAIN c = 1 .. Len(c) /\ c = [i \in DOMAIN c |-> c[i]]
      /\ \A i \in DOMAIN c : /\ c[i] = Param(c[i].key, c[i].value)
                             /\ c[i].key \in Seq(C) /\ c[i].value \in Seq(C)
  BY ConfElements DEF Conf
<1>2. \A i \in DOMAIN c : /\ CleanKey(c[i].key) /\ Short(c[i].value)
                          /\ SavedValue(c[i].value) = c[i].value
  BY <1>1, CleanIsSaved DEF Clean
<1>3. d \in Conf(Seq(C)) /\ Len(d) \in Nat /\ DOMAIN d = 1 .. Len(d)
  BY SetParamSeq, ConfElements
<1>4. Param(k, v).key = k /\ Param(k, v).value = v
  BY DEF Param
<1>. HIDE DEF j
<1>5. CASE HasKey(c, k)
  <2>1. d = [c EXCEPT ![j] = Param(k, v)]
    BY <1>5 DEF SetParam, j
  <2>2. DOMAIN d = DOMAIN c /\ \A i \in DOMAIN c : d[i] = IF i = j THEN Param(k, v) ELSE c[i]
    BY <1>1, <2>1
  <2>. HIDE DEF d
  <2>3. \A i \in DOMAIN d : CleanKey(d[i].key) /\ Short(d[i].value)
    BY <1>2, <1>4, <2>2
  <2>4. decode(Encode(d)) = Saved(d)
    BY <1>3, <2>3, SavedAndLoaded
  <2>5. Saved(d) = [i \in DOMAIN c |-> IF i = j THEN Param(k, SavedValue(v)) ELSE c[i]]
    BY <1>1, <1>2, <1>4, <2>2 DEF Saved
  <2>6. SetParam(c, k, SavedValue(v)) = [c EXCEPT ![j] = Param(k, SavedValue(v))]
    BY <1>5 DEF SetParam, j
  <2>7. [c EXCEPT ![j] = Param(k, SavedValue(v))]
          = [i \in DOMAIN c |-> IF i = j THEN Param(k, SavedValue(v)) ELSE c[i]]
    BY <1>1
  <2>. QED  BY <2>4, <2>5, <2>6, <2>7 DEF d
<1>6. CASE ~HasKey(c, k)
  <2>1. d = Append(c, Param(k, v)) /\ c \in Seq(Parameter(Seq(C)))
    BY <1>6 DEF SetParam, Conf
  <2>2. /\ Len(d) = Len(c) + 1 /\ d[Len(c) + 1] = Param(k, v)
        /\ \A i \in 1 .. Len(c) : d[i] = c[i]
    BY <1>1, <2>1
  <2>. HIDE DEF d
  <2>3. \A i \in DOMAIN d : CleanKey(d[i].key) /\ Short(d[i].value)
    BY <1>1, <1>2, <1>3, <1>4, <2>2
  <2>4. decode(Encode(d)) = Saved(d)
    BY <1>3, <2>3, SavedAndLoaded
  <2>. DEFINE q == Param(k, SavedValue(v))
              e == Append(c, q)
  <2>5. q \in Parameter(Seq(C))
    BY SavedValueSeq DEF Param, Parameter
  <2>6. /\ e \in Seq(Parameter(Seq(C))) /\ DOMAIN e = 1 .. Len(c) + 1
        /\ e[Len(c) + 1] = q /\ \A i \in 1 .. Len(c) : e[i] = c[i]
    <3>. HIDE DEF q
    <3>. QED  BY <1>1, <2>1, <2>5
  <2>7. SetParam(c, k, SavedValue(v)) = e
    BY <1>6 DEF SetParam
  <2>. HIDE DEF e, q
  <2>8. \A i \in 1 .. Len(c) + 1 : Param(d[i].key, SavedValue(d[i].value)) = e[i]
    <3>. SUFFICES ASSUME NEW i \in 1 .. Len(c) + 1
                  PROVE  Param(d[i].key, SavedValue(d[i].value)) = e[i]
      OBVIOUS
    <3>1. CASE i = Len(c) + 1
      BY <1>4, <2>2, <2>6, <3>1 DEF q
    <3>2. CASE i \in DOMAIN c
      <4>1. e[i] = c[i] /\ d[i] = c[i]
        BY <1>1, <2>2, <2>6, <3>2
      <4>. QED  BY <1>1, <1>2, <3>2, <4>1
    <3>. QED  BY <1>1, <3>1, <3>2
  <2>9. e = [i \in 1 .. Len(c) + 1 |-> e[i]]
    BY <2>6
  <2>10. Saved(d) = [i \in 1 .. Len(c) + 1 |-> e[i]]
    BY <1>1, <1>3, <2>2, <2>8 DEF Saved
  <2>. QED  BY <2>4, <2>7, <2>9, <2>10 DEF d
<1>. QED  BY <1>5, <1>6

\* The characters of the texts, keys and values of the instance.
Char == {SP, NL} \cup UNION {Range(t) : t \in Texts \cup Keys \cup Values}

\* The texts of the instance are sequences of them.
LEMMA TextChars == ASSUME NEW t \in Texts \cup Keys \cup Values PROVE t \in Seq(Char)
<1>1. t \in Seq(Range(t)) /\ Range(t) \subseteq Char
  BY TextsAssumption DEF Char
<1>. QED  BY <1>1, SeqMonotonic

\* What conf and file hold is made of those characters, and there is a file
\* until MoveFile is called.
TextInv ==
  /\ conf = LoadError \/ conf \in Conf(Seq(Char))
  /\ file = NoFile \/ file \in Seq(Char)
  /\ move = "idle" => file \in Seq(Char)

\* Every step keeps TextInv: Load and Save convert, and the rest copies.
LEMMA TextInvKept == TextInv /\ [Next]_vars => TextInv'
<1>. SUFFICES ASSUME TextInv, [Next]_vars PROVE TextInv'
  OBVIOUS
<1>0. SP \in Char /\ NL \in Char
  BY DEF Char
<1>1. CASE Load
  BY <1>1, DecodeShape DEF Load, TextInv, fileVars
<1>2. CASE Save
  <2>1. Encode(conf) \in Seq(Char)
    BY <1>0, <1>2, EncodeEnds DEF Save, TextInv
  <2>. QED  BY <1>2, <2>1 DEF Save, TextInv, staying
<1>3. CASE Move
  BY <1>3 DEF Move, MoveFile, OpenSource, CreateDestination, Copy, RemoveSource, Returns,
              CallFails, TextInv
<1>4. ASSUME NEW k \in Keys, NEW v \in Values, Edit(k, v)
      PROVE  TextInv'
  <2>1. SetParam(conf, k, v) \in Conf(Seq(Char))
    BY <1>4, TextChars, SetParamSeq DEF Edit, TextInv
  <2>. QED  BY <1>4, <2>1 DEF Edit, TextInv, fileVars
<1>5. CASE UNCHANGED vars
  BY <1>5 DEF vars, TextInv, fileVars
<1>. QED  BY <1>1, <1>2, <1>3, <1>4, <1>5 DEF Next

\* TextInv holds throughout.
LEMMA TextInvHolds == Spec => []TextInv
<1>1. Init => TextInv
  BY TextChars, EmptySeq DEF Init, FilesInit, TextInv, Conf
<1>. QED  BY <1>1, TextInvKept, PTL DEF Spec

\* A Conf is read back as it was written exactly when no key or value of it
\* holds a character that the format gives a meaning to: for Confs of any length,
\* over any texts, loaded and edited in any order.
THEOREM CleanReadsBack == Spec => []ReadsBack
<1>1. TextInv => ReadsBack
  <2>1. SP \in Char /\ NL \in Char
    BY DEF Char
  <2>. QED  BY <2>1, ReadBack DEF TextInv, ReadsBack
<1>. QED  BY <1>1, TextInvHolds, PTL

\* An edit of any clean Conf with a value of one line is on disk after Save,
\* and leaves every other parameter as it was.
THEOREM EditsAreSaved == Spec => []EditSurvivesSave
<1>1. TextInv => EditSurvivesSave
  <2>1. SP \in Char /\ NL \in Char
    BY DEF Char
  <2>. SUFFICES ASSUME TextInv, conf # LoadError, \A i \in DOMAIN conf : Clean(conf[i]),
                       NEW k \in Keys, CleanKey(k), NEW v \in Values, OneLine(v)
                PROVE  decode(Encode(SetParam(conf, k, v))) = SetParam(conf, k, SavedValue(v))
    BY Zenon DEF EditSurvivesSave
  <2>2. k \in Seq(Char) /\ v \in Seq(Char) /\ conf \in Conf(Seq(Char))
    BY TextChars DEF TextInv
  <2>3. Short(v)
    BY <2>2, OneLineShort
  <2>. QED  BY <2>1, <2>2, <2>3, EditSaved
<1>. QED  BY <1>1, TextInvHolds, PTL

(* ---------- Aliases of commands ----------------------------------------- *)

\* The parameters with a key are parameters of the Conf.
LEMMA getAllSeq ==
  ASSUME NEW P, NEW c \in Seq(P), NEW key PROVE getAll(c, key) \in Seq(P)
<1>. DEFINE A == Seq(P)
            b == <<>>
            Pick(all, p) == IF p.key = key THEN Append(all, p) ELSE all
            F == [a \in A |-> [p \in P |-> Pick(a, p)]]
            Eqn(f) == f = [n \in 0 .. Len(c) |-> IF n = 0 THEN b ELSE Pick(f[n - 1], c[n])]
            h == CHOOSE f : Eqn(f)
<1>1. b \in A
  BY EmptySeq
<1>2. ASSUME NEW a \in A, NEW p \in P PROVE Pick(a, p) \in A
  BY AppendProperties
<1>3. getAll(c, key) = h[Len(c)]
  BY DEF getAll, FoldLeft
<1>. HIDE DEF Pick, b
<1>4. F \in Op(A, P)
  BY <1>2 DEF Op
<1>5. \A a \in A, p \in P : F[a][p] = Pick(a, p)
  OBVIOUS
<1>. HIDE DEF A, F
<1>6. Len(c) \in Nat /\ \A n \in 1 .. Len(c) : c[n] \in P
  BY LenProperties, ElementOfSeq
<1>7. PICK f : f \in [0 .. Len(c) -> A] /\ Runs(f, F, b, c, Len(c))
  BY <1>1, <1>4, FoldExists, Zenon
<1>8. Eqn(f)
  <2>1. \A n \in 1 .. Len(c) : f[n] = Pick(f[n - 1], c[n])
    BY <1>5, <1>6, <1>7 DEF Runs
  <2>. QED  BY <1>6, <1>7, <2>1 DEF Runs
<1>. HIDE DEF Eqn
<1>9. Eqn(h)
  BY <1>8, Zenon
<1>. HIDE DEF h
<1>10. h[0] = b /\ \A n \in 1 .. Len(c) : h[n] = Pick(h[n - 1], c[n])
  BY <1>6, <1>9 DEF Eqn
<1>11. Stays(h, A, F, b, c, Len(c))
  <2>1. ASSUME NEW n \in 1 .. Len(c), h[n - 1] \in A
        PROVE  h[n] = F[h[n - 1]][c[n]]
    BY <1>5, <1>6, <1>10, <2>1, Zenon
  <2>. QED  BY <1>10, <2>1, Zenon DEF Stays
<1>12. h[Len(c)] \in A
  BY <1>1, <1>4, <1>11, FoldIs, Zenon
<1>. QED  BY <1>3, <1>12 DEF A

\* The command that a rename-command parameter renames; the map that
\* CommandAliases builds; the maps there can be.
Renamed(param) == Before(param.value, SP)
Aliased(renames) == FoldLeft(AddAlias, <<>>, renames)
Maps(P) == UNION {[D -> {Alias(p.value) : p \in P}] : D \in SUBSET {Renamed(p) : p \in P}}

\* CommandAliases goes through the parameters in order.
LEMMA AliasFolds ==
  ASSUME NEW P
  PROVE  /\ Aliased(<<>>) = <<>>
         /\ \A s \in Seq(P) : Aliased(s) \in Maps(P)
         /\ \A s \in Seq(P), p \in P : Aliased(Append(s, p)) = AddAlias(Aliased(s), p)
<1>. DEFINE A == Maps(P)
            b == <<>>
            F == [a \in A |-> [p \in P |-> AddAlias(a, p)]]
<1>1. b \in A
  <2>1. b \in [{} -> {Alias(p.value) : p \in P}]
    OBVIOUS
  <2>. HIDE DEF b
  <2>. QED  BY <2>1 DEF Maps
<1>2. ASSUME NEW a \in A, NEW p \in P PROVE AddAlias(a, p) \in A
  <2>. DEFINE V == {Alias(q.value) : q \in P}
              K == {Renamed(q) : q \in P}
              v == Alias(p.value)
              k == Renamed(p)
  <2>1. v \in V /\ k \in K
    OBVIOUS
  <2>2. PICK D \in SUBSET K : a \in [D -> V]
    BY DEF Maps
  <2>3. AddAlias(a, p) = Put(a, k, v)
    BY DEF AddAlias, Renamed
  <2>. HIDE DEF V, K, v, k
  <2>4. Put(a, k, v) \in [D \cup {k} -> V] /\ D \cup {k} \in SUBSET K
    BY <2>1, <2>2 DEF Put
  <2>. QED  BY <2>3, <2>4 DEF Maps, V, K
<1>3. F \in Op(A, P)
  BY <1>2 DEF Op
<1>4. \A a \in A, p \in P : F[a][p] = AddAlias(a, p)
  OBVIOUS
<1>. HIDE DEF A, F
<1>5. ASSUME NEW s \in Seq(P) PROVE Aliased(s) = Folded(F, b, s)
  <2>. DEFINE Eqn(f) == f = [n \in 0 .. Len(s) |-> IF n = 0 THEN b ELSE AddAlias(f[n - 1], s[n])]
              h == CHOOSE f : Eqn(f)
  <2>1. Aliased(s) = h[Len(s)]
    BY DEF Aliased, FoldLeft
  <2>. HIDE DEF b
  <2>2. Len(s) \in Nat /\ \A n \in 1 .. Len(s) : s[n] \in P
    BY LenProperties, ElementOfSeq
  <2>3. PICK f : f \in [0 .. Len(s) -> A] /\ Runs(f, F, b, s, Len(s))
    BY <1>1, <1>3, FoldExists, Zenon
  <2>4. Eqn(f)
    <3>1. \A n \in 1 .. Len(s) : f[n] = AddAlias(f[n - 1], s[n])
      BY <1>4, <2>2, <2>3 DEF Runs
    <3>. QED  BY <2>2, <2>3, <3>1 DEF Runs
  <2>. HIDE DEF Eqn
  <2>5. Eqn(h)
    BY <2>4, Zenon
  <2>. HIDE DEF h
  <2>6. h[0] = b /\ \A n \in 1 .. Len(s) : h[n] = AddAlias(h[n - 1], s[n])
    BY <2>2, <2>5 DEF Eqn
  <2>7. Stays(h, A, F, b, s, Len(s))
    <3>1. ASSUME NEW n \in 1 .. Len(s), h[n - 1] \in A
          PROVE  h[n] = F[h[n - 1]][s[n]]
      BY <1>4, <2>2, <2>6, <3>1, Zenon
    <3>. QED  BY <2>6, <3>1, Zenon DEF Stays
  <2>8. h[Len(s)] = Folded(F, b, s)
    BY <1>1, <1>3, <2>7, FoldIs, Zenon
  <2>. QED  BY <2>1, <2>8
<1>6. /\ Folded(F, b, <<>>) = b
      /\ \A s \in Seq(P) : Folded(F, b, s) \in A
      /\ \A s \in Seq(P), p \in P : Folded(F, b, Append(s, p)) = F[Folded(F, b, s)][p]
  <2>. HIDE DEF b
  <2>. QED  BY <1>1, <1>3, FoldEnds
<1>7. <<>> \in Seq(P) /\ \A s \in Seq(P), p \in P : Append(s, p) \in Seq(P)
  BY EmptySeq, AppendProperties
<1>8. ASSUME NEW s \in Seq(P), NEW p \in P
      PROVE  Aliased(Append(s, p)) = AddAlias(Aliased(s), p)
  BY <1>4, <1>5, <1>6, <1>7, Zenon
<1>. QED  BY <1>5, <1>6, <1>7, <1>8, Zenon DEF A

\* A later alias of a command replaces an earlier one.
LEMMA AliasesLast ==
  ASSUME NEW P, NEW r \in Seq(P)
  PROVE  \A i \in 1 .. Len(r) :
           (\A j \in i + 1 .. Len(r) : Renamed(r[j]) # Renamed(r[i]))
              => Aliased(r)[Renamed(r[i])] = Alias(r[i].value)
<1>. DEFINE O(i) == Renamed(r[i])
            V(i) == Alias(r[i].value)
            M(n) == Aliased(SubSeq(r, 1, n))
            Q(n) == /\ \A i \in 1 .. n : O(i) \in DOMAIN M(n)
                    /\ \A i \in 1 .. n : (\A j \in i + 1 .. n : O(j) # O(i)) => M(n)[O(i)] = V(i)
            S == {n \in 0 .. Len(r) : Q(n)}
<1>1. Len(r) \in Nat /\ \A i \in 1 .. Len(r) : r[i] \in P
  BY LenProperties, ElementOfSeq
<1>2. Q(0)
  OBVIOUS
<1>3. ASSUME NEW n \in 0 .. Len(r) - 1, Q(n) PROVE Q(n + 1)
  <2>. DEFINE s == SubSeq(r, 1, n)
              p == r[n + 1]
  <2>1. s \in Seq(P) /\ p \in P /\ SubSeq(r, 1, n + 1) = Append(s, p) /\ n \in Nat
    BY <1>1
  <2>2. M(n + 1) = AddAlias(M(n), p)
    <3>. HIDE DEF s, p
    <3>1. Aliased(Append(s, p)) = AddAlias(Aliased(s), p)
      BY <2>1, AliasFolds
    <3>. QED  BY <2>1, <3>1 DEF s
  <2>3. M(n + 1) = Put(M(n), O(n + 1), V(n + 1))
    BY <2>2 DEF AddAlias, Renamed
  <2>. HIDE DEF M, O, V
  <2>4. /\ DOMAIN M(n + 1) = DOMAIN M(n) \cup {O(n + 1)}
        /\ M(n + 1)[O(n + 1)] = V(n + 1)
        /\ \A x \in DOMAIN M(n) : x # O(n + 1) => M(n + 1)[x] = M(n)[x]
    BY <2>3 DEF Put
  <2>5. ASSUME NEW i \in 1 .. n + 1 PROVE O(i) \in DOMAIN M(n + 1)
    BY <1>3, <2>1, <2>4
  <2>6. ASSUME NEW i \in 1 .. n + 1, \A j \in i + 1 .. n + 1 : O(j) # O(i)
        PROVE  M(n + 1)[O(i)] = V(i)
    <3>1. CASE i = n + 1
      BY <2>4, <3>1
    <3>2. CASE i \in 1 .. n
      <4>1. O(n + 1) # O(i) /\ \A j \in i + 1 .. n : O(j) # O(i)
        BY <2>1, <2>6, <3>2
      <4>. QED  BY <1>3, <2>4, <3>2, <4>1
    <3>. QED  BY <2>1, <3>1, <3>2
  <2>. QED  BY <2>5, <2>6
<1>4. Q(Len(r))
  <2>. HIDE DEF Q
  <2>1. 0 \in S /\ \A n \in 0 .. Len(r) - 1 : n \in S => n + 1 \in S
    BY <1>1, <1>2, <1>3
  <2>. HIDE DEF S
  <2>2. 0 .. Len(r) \subseteq S
    BY <1>1, <2>1, UpTo
  <2>. QED  BY <1>1, <2>2 DEF S
<1>5. M(Len(r)) = Aliased(r)
  BY SubSeqFull
<1>. HIDE DEF M
<1>. QED  BY <1>4, <1>5

\* Whatever Conf was loaded or edited, a command that is renamed more than
\* once has the alias that is given last.
THEOREM AliasesFollowLast == Spec => []LastAliasWins
<1>1. ASSUME TextInv, conf # LoadError PROVE LastAliasWins
  <2>. DEFINE P == Parameter(Seq(Char))
              r == getAll(conf, <<"rename-command">>)
              o == [i \in DOMAIN r |-> Before(r[i].value, SP)]
  <2>1. r \in Seq(P)
    <3>. HIDE DEF P
    <3>1. conf \in Seq(P)
      BY <1>1 DEF TextInv, Conf, P
    <3>. QED  BY <3>1, getAllSeq
  <2>2. DOMAIN r = 1 .. Len(r) /\ Len(r) \in Nat
    BY <2>1, LenProperties
  <2>. HIDE DEF P, r
  <2>3. CASE \E i \in DOMAIN r : ~Contains(r[i].value, SP)
    BY <2>3 DEF LastAliasWins, CommandAliases, r
  <2>4. CASE ~\E i \in DOMAIN r : ~Contains(r[i].value, SP)
    <3>1. CommandAliases(conf) = Aliased(r)
      BY <2>4 DEF CommandAliases, Aliased, r
    <3>2. ASSUME NEW i \in DOMAIN r, \A j \in i + 1 .. Len(r) : o[j] # o[i]
          PROVE  CommandAliases(conf)[o[i]] = Alias(r[i].value)
      <4>1. \A j \in DOMAIN r : o[j] = Renamed(r[j])
        BY DEF Renamed
      <4>2. \A j \in i + 1 .. Len(r) : Renamed(r[j]) # Renamed(r[i])
        <5>. HIDE DEF o
        <5>. QED  BY <2>2, <3>2, <4>1
      <4>. QED  BY <2>1, <2>2, <3>1, <4>1, <4>2, AliasesLast
    <3>. QED  BY <2>4, <3>2 DEF LastAliasWins, r
  <2>. QED  BY <2>3, <2>4
<1>2. TextInv => LastAliasWins
  BY <1>1 DEF LastAliasWins
<1>. QED  BY <1>2, TextInvHolds, PTL

(* ---------- Where the text gives it ------------------------------------- *)

\* A text from position i on; where in a text a value for k is given.
From(t, i) == SubSeq(t, i, Len(t))
Places(k, t) == {i \in LineStarts(t) : Begins(k, From(t, i))}

\* w is the line of t that starts at st, without its line ending.
LineAt(t, st, w) ==
  /\ \A x \in 1 .. Len(w) : st - 1 + x \in 1 .. Len(t) /\ t[st - 1 + x] = w[x]
  /\ \A x \in 1 .. Len(w) : w[x] # NL
  /\ st + Len(w) <= Len(t) => t[st + Len(w)] = NL

\* What the text shows at a place where a line starts is what the line holds.
LEMMA LineIs ==
  ASSUME NEW C, SP \in C, NL \in C, NEW t \in Seq(C), NEW st \in 1 .. Len(t), NEW w \in Seq(C),
         LineAt(t, st, w), NEW k \in Seq(C), CleanKey(k)
  PROVE  /\ SavedValue(From(t, st)) = dropCR(w)
         /\ Begins(k, From(t, st)) <=> Begins(k, w)
<1>. DEFINE y == From(t, st)
<1>1. Len(t) \in Nat /\ Len(w) \in Nat /\ Len(k) \in Nat
  BY LenProperties
<1>2. y \in Seq(C) /\ Len(y) = Len(t) - st + 1 /\ \A x \in 1 .. Len(y) : y[x] = t[st - 1 + x]
  BY <1>1 DEF From
<1>. HIDE DEF y
<1>3. Len(w) <= Len(y) /\ \A x \in 1 .. Len(w) : y[x] = w[x] /\ w[x] # NL
  <2>1. CASE Len(w) = 0
    BY <1>1, <1>2, <2>1
  <2>2. CASE Len(w) # 0
    <3>1. Len(w) \in 1 .. Len(w)
      BY <1>1, <2>2
    <3>2. st - 1 + Len(w) \in 1 .. Len(t)
      BY <3>1 DEF LineAt
    <3>3. Len(w) <= Len(y)
      BY <1>1, <1>2, <3>2
    <3>4. \A x \in 1 .. Len(w) : x \in 1 .. Len(y) /\ t[st - 1 + x] = w[x] /\ w[x] # NL
      <4>1. Len(y) \in Nat
        BY <1>2, LenProperties
      <4>. QED  BY <1>1, <3>3, <4>1 DEF LineAt
    <3>. QED  BY <1>2, <3>3, <3>4
  <2>. QED  BY <2>1, <2>2
<1>4. Len(w) < Len(y) => y[Len(w) + 1] = NL
  <2>. SUFFICES ASSUME Len(w) < Len(y) PROVE y[Len(w) + 1] = NL
    OBVIOUS
  <2>1. st + Len(w) <= Len(t) /\ Len(w) + 1 \in 1 .. Len(y) /\ st - 1 + (Len(w) + 1) = st + Len(w)
    BY <1>1, <1>2
  <2>. QED  BY <1>2, <2>1 DEF LineAt
<1>5. Before(y, NL) = w
  <2>1. CASE Len(w) = Len(y)
    <3>1. y = w
      BY <1>2, <1>3, <2>1, SeqEqual
    <3>2. ~Contains(y, NL)
      BY <1>2, <1>3, <2>1, Containing
    <3>. QED  BY <3>1, <3>2 DEF Before, Index
  <2>2. CASE Len(w) < Len(y)
    <3>1. Len(w) + 1 \in 1 .. Len(y) /\ (Len(w) + 1) - 1 = Len(w)
      BY <1>1, <1>2, <2>2
    <3>2. Index(y, NL) = Len(w) + 1
      BY <1>2, <1>3, <1>4, <2>2, <3>1, IndexIs
    <3>3. Before(y, NL) = SubSeq(y, 1, Len(w))
      BY <1>1, <3>1, <3>2 DEF Before
    <3>4. SubSeq(y, 1, Len(w)) = w
      BY <1>1, <1>2, <1>3
    <3>. QED  BY <3>3, <3>4
  <2>3. Len(y) \in Nat
    BY <1>2, LenProperties
  <2>. QED  BY <1>1, <1>3, <2>1, <2>2, <2>3
<1>6. Begins(k, y) <=> Begins(k, w)
  <2>1. ASSUME Begins(k, w) PROVE Begins(k, y)
    <3>1. /\ Len(k) + 1 <= Len(w) /\ w[Len(k) + 1] = SP
          /\ \A i \in 1 .. Len(k) : w[i] = k[i]
      BY <2>1, BeginsIs
    <3>2. Len(k) + 1 <= Len(y) /\ Len(k) + 1 \in 1 .. Len(w) /\ 1 .. Len(k) \subseteq 1 .. Len(w)
      <4>1. Len(y) \in Nat
        BY <1>2, LenProperties
      <4>. QED  BY <1>1, <1>3, <3>1, <4>1
    <3>3. y[Len(k) + 1] = SP /\ \A i \in 1 .. Len(k) : y[i] = k[i]
      BY <1>3, <3>1, <3>2
    <3>. QED  BY <1>2, <3>2, <3>3, BeginsIs
  <2>2. ASSUME Begins(k, y) PROVE Begins(k, w)
    <3>1. /\ Len(k) + 1 <= Len(y) /\ y[Len(k) + 1] = SP
          /\ \A i \in 1 .. Len(k) : y[i] = k[i]
      BY <1>2, <2>2, BeginsIs
    <3>2. \A i \in 1 .. Len(k) : k[i] # NL
      BY Containing DEF CleanKey
    <3>3. SP # NL
      BY DEF SP, NL
    <3>4. \A i \in 1 .. Len(k) + 1 : y[i] # NL
      BY <1>1, <3>1, <3>2, <3>3
    <3>5. Len(k) + 1 <= Len(w)
      BY <1>1, <1>2, <1>3, <1>4, <3>1, <3>4
    <3>6. w[Len(k) + 1] = SP /\ \A i \in 1 .. Len(k) : w[i] = k[i]
      BY <1>1, <1>3, <3>1, <3>5
    <3>. QED  BY <3>5, <3>6, BeginsIs
  <2>. QED  BY <2>1, <2>2
<1>. QED  BY <1>5, <1>6 DEF SavedValue, y

\* The lines L read before position st hold what the text shows before it.
Shown(k, t, L, st) ==
  /\ (\A i \in Places(k, t) : i >= st) => NoHit(k, L)
  /\ \A i \in Places(k, t) :
       i < st /\ (\A j \in Places(k, t) : i <= j) => Hit(k, L, SavedValue(From(t, i)))

\* One line more, read and shown.
LEMMA LineEnds ==
  ASSUME NEW C, SP \in C, NL \in C, NEW t \in Seq(C), NEW st \in 1 .. Len(t), NEW w \in Seq(C),
         LineAt(t, st, w), st \in LineStarts(t), NEW k \in Seq(C), CleanKey(k),
         NEW L \in Seq(Seq(C)), Shown(k, t, L, st)
  PROVE  Shown(k, t, Append(L, dropCR(w)), st + Len(w) + 1)
<1>. DEFINE l == dropCR(w)
            M == Append(L, l)
            e == st + Len(w) + 1
            P == Places(k, t)
<1>1. SavedValue(From(t, st)) = l /\ (Begins(k, From(t, st)) <=> Begins(k, l)) /\ l \in Seq(C)
  BY LineIs, BeginsDrop, dropCRSeq
<1>2. st \in P <=> Begins(k, l)
  BY <1>1 DEF Places
<1>3. Len(t) \in Nat /\ Len(w) \in Nat /\ P \subseteq 1 .. Len(t)
  BY LenProperties DEF Places, LineStarts
<1>4. ASSUME NEW i \in P, i < e PROVE i <= st
  <2>. SUFFICES ASSUME i > st PROVE FALSE
    BY <1>3
  <2>. DEFINE x == i - st
  <2>1. x \in 1 .. Len(w) /\ st - 1 + x = i - 1
    BY <1>3, <1>4
  <2>2. t[i - 1] # NL
    BY <2>1 DEF LineAt
  <2>. QED  BY <1>3, <2>2 DEF Places, LineStarts
<1>5. /\ NoHit(k, M) <=> NoHit(k, L) /\ ~Begins(k, l)
      /\ \A x : Hit(k, M, x) <=> Hit(k, L, x) \/ (NoHit(k, L) /\ Begins(k, l) /\ x = l)
  BY <1>1, HitAppend
<1>. HIDE DEF l, M, P
<1>6. ASSUME \A i \in P : i >= e PROVE NoHit(k, M)
  <2>1. st \notin P /\ \A i \in P : i >= st
    BY <1>3, <1>6
  <2>. QED  BY <1>2, <1>5, <2>1 DEF Shown, P
<1>7. ASSUME NEW i \in P, i < e, \A j \in P : i <= j
      PROVE  Hit(k, M, SavedValue(From(t, i)))
  <2>1. CASE i < st
    <3>1. Hit(k, L, SavedValue(From(t, i)))
      BY <1>7, <2>1 DEF Shown, P
    <3>. QED  BY <1>5, <3>1, Zenon
  <2>2. CASE i = st
    <3>1. NoHit(k, L)
      BY <1>3, <1>7, <2>2 DEF Shown, P
    <3>. QED  BY <1>1, <1>2, <1>5, <1>7, <2>2, <3>1
  <2>. QED  BY <1>3, <1>4, <1>7, <2>1, <2>2
<1>. QED  BY <1>6, <1>7 DEF Shown, P, M, l

\* The scanner after n characters: the line it is at is the text since the
\* last newline, and the lines before it hold what the text shows there.
Found(k, t, n) ==
  LET scan == Scan(SubSeq(t, 1, n))
      st   == n - Len(scan.line) + 1
  IN  /\ Len(scan.line) <= n
      /\ st = 1 \/ t[st - 1] = NL
      /\ \A x \in 1 .. Len(scan.line) : t[st - 1 + x] = scan.line[x]
      /\ Shown(k, t, scan.lines, st)

\* This holds after every character.
LEMMA ScanFinds ==
  ASSUME NEW C, SP \in C, NL \in C, NEW t \in Seq(C), NEW k \in Seq(C), CleanKey(k)
  PROVE  \A n \in 0 .. Len(t) : Found(k, t, n)
<1>. DEFINE S == {n \in 0 .. Len(t) : Found(k, t, n)}
<1>1. Len(t) \in Nat /\ \A i \in 1 .. Len(t) : t[i] \in C
  BY LenProperties, ElementOfSeq
<1>2. 0 \in S
  <2>1. SubSeq(t, 1, 0) = <<>>
    OBVIOUS
  <2>2. Scan(SubSeq(t, 1, 0)) = Start
    BY <2>1, ScanFolds
  <2>3. Scan(SubSeq(t, 1, 0)).lines = <<>> /\ Scan(SubSeq(t, 1, 0)).line = <<>> /\ Len(<<>>) = 0
    BY <2>2 DEF Start
  <2>4. \A i \in Places(k, t) : i \in 1 .. Len(t)
    BY DEF Places, LineStarts
  <2>5. Shown(k, t, <<>>, 1)
    BY <1>1, <2>4 DEF Shown, NoHit
  <2>. DEFINE r == Scan(SubSeq(t, 1, 0))
  <2>6. Len(r.line) = 0 /\ 0 - Len(r.line) + 1 = 1 /\ r.lines = <<>>
    BY <2>3
  <2>. HIDE DEF r
  <2>7. /\ Len(r.line) <= 0 /\ Shown(k, t, r.lines, 0 - Len(r.line) + 1)
        /\ \A x \in 1 .. Len(r.line) : t[(0 - Len(r.line) + 1) - 1 + x] = r.line[x]
    BY <2>5, <2>6
  <2>8. Found(k, t, 0)
    BY <2>6, <2>7 DEF Found, r
  <2>. QED  BY <1>1, <2>8
<1>3. ASSUME NEW n \in 0 .. Len(t) - 1, Found(k, t, n) PROVE Found(k, t, n + 1)
  <2>. DEFINE s == SubSeq(t, 1, n)
              c == t[n + 1]
              L == Scan(s).lines
              w == Scan(s).line
              st == n - Len(w) + 1
  <2>1. s \in Seq(C) /\ c \in C /\ n \in Nat /\ n + 1 \in 1 .. Len(t)
    BY <1>1
  <2>2. SubSeq(t, 1, n + 1) = Append(s, c)
    BY <1>1, <2>1
  <2>3. Scan(SubSeq(t, 1, n + 1)) = ScanChar(Scan(s), c)
    BY <2>1, <2>2, ScanFolds
  <2>4. L \in Seq(Seq(C)) /\ w \in Seq(C)
    BY <2>1, ScanSeq
  <2>5. Len(w) \in Nat /\ \A x \in 1 .. Len(w) : w[x] # NL
    <3>1. w \in Seq(C \ {NL})
      BY <2>1, ScanFolds DEF Scans
    <3>. QED  BY <3>1, LenProperties, ElementOfSeq
  <2>6. /\ Len(w) <= n /\ (st = 1 \/ t[st - 1] = NL) /\ Shown(k, t, L, st)
        /\ \A x \in 1 .. Len(w) : t[st - 1 + x] = w[x]
    BY <1>3 DEF Found
  <2>. DEFINE r == Scan(SubSeq(t, 1, n + 1))
  <2>. HIDE DEF s, c, L, w
  <2>7. CASE c = NL
    <3>1. r = [lines |-> Append(L, dropCR(w)), line |-> <<>>]
      BY <2>3, <2>7 DEF ScanChar, L, w
    <3>2. r.lines = Append(L, dropCR(w)) /\ r.line = <<>> /\ Len(r.line) = 0
      BY <3>1
    <3>3. st \in 1 .. Len(t) /\ st + Len(w) = n + 1 /\ st \in LineStarts(t)
      BY <1>1, <2>1, <2>5, <2>6 DEF LineStarts
    <3>4. LineAt(t, st, w)
      <4>1. \A x \in 1 .. Len(w) : st - 1 + x \in 1 .. Len(t)
        BY <1>1, <2>1, <2>5, <2>6
      <4>2. t[st + Len(w)] = NL
        BY <2>7, <3>3 DEF c
      <4>. QED  BY <2>5, <2>6, <4>1, <4>2 DEF LineAt
    <3>. HIDE DEF st
    <3>5. Shown(k, t, Append(L, dropCR(w)), st + Len(w) + 1)
      BY <2>4, <2>6, <3>3, <3>4, LineEnds
    <3>. HIDE DEF r
    <3>6. (n + 1) - Len(r.line) + 1 = n + 2 /\ st + Len(w) + 1 = n + 2 /\ (n + 2) - 1 = n + 1
      <4>1. st \in Nat /\ Len(r.line) = 0
        BY <1>1, <3>2, <3>3
      <4>2. (n + 1) - Len(r.line) + 1 = n + 2 /\ (n + 2) - 1 = n + 1
        BY <2>1, <4>1
      <4>3. st + Len(w) = n + 1
        BY <3>3
      <4>4. st + Len(w) + 1 = n + 2
        BY <2>1, <2>5, <4>1, <4>3
      <4>. QED  BY <4>2, <4>4
    <3>7. t[(n + 2) - 1] = NL /\ Shown(k, t, r.lines, n + 2) /\ Len(r.line) <= n + 1
      BY <2>1, <2>7, <3>2, <3>5, <3>6 DEF c
    <3>8. \A x \in 1 .. Len(r.line) : t[(n + 2) - 1 + x] = r.line[x]
      BY <3>2
    <3>. QED  BY <3>6, <3>7, <3>8 DEF Found, r
  <2>8. CASE c # NL
    <3>1. r = [lines |-> L, line |-> Append(w, c)]
      BY <2>3, <2>8 DEF ScanChar, L, w
    <3>2. r.lines = L /\ r.line = Append(w, c)
      BY <3>1
    <3>. HIDE DEF r
    <3>3. /\ Len(r.line) = Len(w) + 1 /\ r.line[Len(w) + 1] = c
          /\ \A x \in 1 .. Len(w) : r.line[x] = w[x]
      <4>1. /\ Len(Append(w, c)) = Len(w) + 1 /\ Append(w, c)[Len(w) + 1] = c
            /\ \A x \in 1 .. Len(w) : Append(w, c)[x] = w[x]
        BY <2>1, <2>4, AppendProperties
      <4>. QED  BY <3>2, <4>1
    <3>4. (n + 1) - Len(r.line) + 1 = st /\ Len(r.line) <= n + 1 /\ st - 1 + (Len(w) + 1) = n + 1
      BY <2>1, <2>5, <2>6, <3>3
    <3>5. \A x \in 1 .. Len(r.line) : t[st - 1 + x] = r.line[x]
      <4>. TAKE x \in 1 .. Len(r.line)
      <4>1. CASE x = Len(w) + 1
        BY <3>3, <3>4, <4>1 DEF c
      <4>2. CASE x \in 1 .. Len(w)
        BY <2>6, <3>3, <4>2
      <4>. QED  BY <2>5, <3>3, <4>1, <4>2
    <3>. HIDE DEF st
    <3>. QED  BY <2>6, <3>2, <3>4, <3>5 DEF Found, r, st
  <2>. QED  BY <2>7, <2>8
<1>4. \A n \in 0 .. Len(t) - 1 : n \in S => n + 1 \in S
  BY <1>1, <1>3
<1>. HIDE DEF S
<1>5. 0 .. Len(t) \subseteq S
  BY <1>1, <1>2, <1>4, UpTo
<1>. QED  BY <1>5 DEF S

\* The first line that gives a value for k is at the first place that does.
LEMMA LinesFound ==
  ASSUME NEW C, SP \in C, NL \in C, NEW t \in Seq(C), NEW k \in Seq(C), CleanKey(k)
  PROVE  /\ Places(k, t) = {} => NoHit(k, ScanLines(t))
         /\ \A i \in Places(k, t) : (\A j \in Places(k, t) : i <= j) =>
              Hit(k, ScanLines(t), SavedValue(From(t, i)))
<1>. DEFINE N == Len(t)
            L == Scan(t).lines
            w == Scan(t).line
            st == N - Len(w) + 1
            P == Places(k, t)
<1>1. N \in Nat /\ SubSeq(t, 1, N) = t /\ P \subseteq 1 .. N
  BY LenProperties DEF Places, LineStarts
<1>2. L \in Seq(Seq(C)) /\ w \in Seq(C)
  BY ScanSeq
<1>3. Len(w) \in Nat /\ \A x \in 1 .. Len(w) : w[x] # NL
  <2>1. w \in Seq(C \ {NL})
    BY ScanFolds DEF Scans
  <2>. QED  BY <2>1, LenProperties, ElementOfSeq
<1>4. Found(k, t, N)
  BY <1>1, ScanFinds
<1>5. /\ Len(w) <= N /\ (st = 1 \/ t[st - 1] = NL) /\ Shown(k, t, L, st)
      /\ \A x \in 1 .. Len(w) : t[st - 1 + x] = w[x]
  BY <1>1, <1>4 DEF Found
<1>6. \E e \in Nat : e > N /\ Shown(k, t, ScanLines(t), e)
  <2>1. CASE w = <<>>
    <3>1. Len(w) = 0
      BY <2>1
    <3>2. st = N + 1 /\ ScanLines(t) = L
      BY <1>1, <2>1, <3>1 DEF ScanLines
    <3>. HIDE DEF L, st
    <3>. QED  BY <1>1, <1>5, <3>2
  <2>2. CASE w # <<>>
    <3>1. Len(w) # 0
      BY <1>2, <2>2, EmptySeq
    <3>2. st \in 1 .. N /\ st + Len(w) = N + 1 /\ st \in LineStarts(t)
      <4>. HIDE DEF w
      <4>1. st \in 1 .. N /\ st + Len(w) = N + 1
        BY <1>1, <1>3, <1>5, <3>1
      <4>. QED  BY <1>5, <4>1 DEF LineStarts
    <3>3. LineAt(t, st, w)
      <4>1. \A x \in 1 .. Len(w) : st - 1 + x \in 1 .. Len(t)
        BY <1>1, <1>3, <1>5
      <4>2. ~(st + Len(w) <= Len(t))
        BY <1>1, <3>2
      <4>. QED  BY <1>3, <1>5, <4>1, <4>2 DEF LineAt
    <3>. HIDE DEF st, L, w
    <3>4. Shown(k, t, Append(L, dropCR(w)), st + Len(w) + 1)
      BY <1>2, <1>5, <3>2, <3>3, LineEnds
    <3>5. ScanLines(t) = Append(L, dropCR(w))
      BY <2>2 DEF ScanLines, L, w
    <3>6. st + Len(w) + 1 \in Nat /\ st + Len(w) + 1 > N
      BY <1>1, <3>2
    <3>. QED  BY <3>4, <3>5, <3>6
  <2>. QED  BY <2>1, <2>2
<1>7. PICK e \in Nat : e > N /\ Shown(k, t, ScanLines(t), e)
  BY <1>6
<1>8. \A i \in P : i < e
  BY <1>1, <1>7
<1>. QED  BY <1>7, <1>8 DEF Shown

\* The first line of the text of a key and a value, which may go on with
\* other lines, has the first line of the value.
LEMMA JoinedSaved ==
  ASSUME NEW C, SP \in C, NEW k \in Seq(C), CleanKey(k), NEW z \in Seq(C)
  PROVE  SavedValue(Joined(k, z)) = Joined(k, SavedValue(z))
<1>. DEFINE b == Before(z, NL)
            y == Joined(k, z)
<1>0. Len(k) \in Nat /\ Len(z) \in Nat
  BY LenProperties
<1>1. /\ y \in Seq(C) /\ Len(y) = Len(k) + 1 + Len(z) /\ y[Len(k) + 1] = SP
      /\ \A i \in 1 .. Len(k) : y[i] = k[i]
      /\ \A i \in 1 .. Len(z) : y[Len(k) + 1 + i] = z[i]
  BY DEF Joined
<1>2. (\A i \in 1 .. Len(k) : k[i] # NL) /\ SP # NL
  BY Containing DEF CleanKey, SP, NL
<1>3. \A i \in 1 .. Len(k) + 1 : y[i] # NL
  <2>. HIDE DEF y
  <2>. TAKE i \in 1 .. Len(k) + 1
  <2>1. CASE i = Len(k) + 1
    BY <1>1, <1>2, <2>1
  <2>2. CASE i \in 1 .. Len(k)
    BY <1>1, <1>2, <2>2
  <2>. QED  BY <1>0, <2>1, <2>2
<1>4. b \in Seq(C) /\ Before(y, NL) = Joined(k, b)
  <2>1. CASE ~Contains(z, NL)
    <3>1. \A i \in 1 .. Len(z) : z[i] # NL
      BY <2>1, Containing
    <3>2. \A i \in 1 .. Len(y) : y[i] # NL
      <4>. HIDE DEF y
      <4>. TAKE i \in 1 .. Len(y)
      <4>1. CASE i <= Len(k) + 1
        BY <1>0, <1>1, <1>3, <4>1
      <4>2. CASE i > Len(k) + 1
        <5>1. i - Len(k) - 1 \in 1 .. Len(z) /\ Len(k) + 1 + (i - Len(k) - 1) = i
          BY <1>0, <1>1, <4>2
        <5>. QED  BY <1>0, <1>1, <3>1, <5>1
      <4>. QED  BY <1>0, <1>1, <4>1, <4>2
    <3>3. ~Contains(y, NL)
      BY <1>0, <1>1, <3>2, Containing
    <3>. QED  BY <2>1, <3>3 DEF Before, Index
  <2>2. CASE Contains(z, NL)
    <3>. DEFINE q == Index(z, NL)
                p == Len(k) + 1 + q
    <3>1. q \in 1 .. Len(z) /\ z[q] = NL /\ \A i \in 1 .. q - 1 : z[i] # NL
      BY <2>2, IndexFound
    <3>. HIDE DEF y, q
    <3>2. p \in 1 .. Len(y) /\ y[p] = NL
      <4>1. y[p] = NL
        BY <1>1, <3>1
      <4>. QED  BY <1>0, <1>1, <3>1, <4>1
    <3>3. \A i \in 1 .. p - 1 : y[i] # NL
      <4>. TAKE i \in 1 .. p - 1
      <4>1. CASE i <= Len(k) + 1
        BY <1>0, <1>1, <1>3, <3>1, <4>1
      <4>2. CASE i > Len(k) + 1
        <5>1. i - Len(k) - 1 \in 1 .. Len(z) /\ Len(k) + 1 + (i - Len(k) - 1) = i /\ i - Len(k) - 1 \in 1 .. q - 1
          BY <1>0, <1>1, <3>1, <4>2
        <5>. QED  BY <1>0, <1>1, <3>1, <5>1
      <4>. QED  BY <1>0, <1>1, <3>1, <4>1, <4>2
    <3>4. Index(y, NL) = p
      BY <1>0, <1>1, <3>2, <3>3, IndexIs
    <3>5. b = SubSeq(z, 1, q - 1) /\ Before(y, NL) = SubSeq(y, 1, p - 1)
      BY <1>0, <1>1, <3>1, <3>2, <3>4 DEF Before, q
    <3>6. b \in Seq(C) /\ Len(b) = q - 1 /\ \A i \in 1 .. q - 1 : b[i] = z[i]
      BY <1>0, <1>1, <3>1, <3>5
    <3>. HIDE DEF b
    <3>. DEFINE u == SubSeq(y, 1, p - 1)
                v == Joined(k, b)
    <3>7. u \in Seq(C) /\ Len(u) = Len(k) + q /\ \A i \in 1 .. Len(k) + q : u[i] = y[i]
      BY <1>0, <1>1, <3>1, <3>2
    <3>8. /\ v \in Seq(C) /\ Len(v) = Len(k) + 1 + Len(b) /\ v[Len(k) + 1] = SP
          /\ \A i \in 1 .. Len(k) : v[i] = k[i]
          /\ \A i \in 1 .. Len(b) : v[Len(k) + 1 + i] = b[i]
      <4>1. b \in Seq(C)
        BY <3>6
      <4>. QED  BY <4>1 DEF Joined
    <3>. HIDE DEF u, v
    <3>9. Len(v) = Len(u)
      BY <1>0, <1>1, <3>1, <3>6, <3>7, <3>8
    <3>10. \A i \in 1 .. Len(u) : u[i] = v[i]
      <4>. TAKE i \in 1 .. Len(u)
      <4>0. i \in 1 .. Len(k) + q /\ u[i] = y[i]
        BY <3>7
      <4>1. CASE i <= Len(k)
        <5>1. i \in 1 .. Len(k)
          BY <1>0, <1>1, <4>0, <4>1
        <5>. QED  BY <1>0, <1>1, <3>8, <4>0, <5>1
      <4>2. CASE i = Len(k) + 1
        BY <1>0, <1>1, <3>8, <4>0, <4>2
      <4>3. CASE i > Len(k) + 1
        <5>1. /\ i - Len(k) - 1 \in 1 .. Len(b) /\ Len(k) + 1 + (i - Len(k) - 1) = i
              /\ i - Len(k) - 1 \in 1 .. Len(z) /\ i - Len(k) - 1 \in 1 .. q - 1
          BY <1>0, <1>1, <3>1, <3>6, <4>0, <4>3
        <5>. QED  BY <1>0, <1>1, <3>6, <3>8, <4>0, <5>1
      <4>. QED  BY <1>0, <1>1, <3>1, <4>0, <4>1, <4>2, <4>3
    <3>11. u = v
      BY <3>7, <3>8, <3>9, <3>10, SeqEqual
    <3>. QED  BY <3>5, <3>6, <3>11 DEF u, v
  <2>. QED  BY <2>1, <2>2
<1>. QED  BY <1>4, JoinDrops DEF SavedValue

\* The value of the line of a key and a value.
LEMMA RestJoined ==
  ASSUME NEW C, SP \in C, NEW k \in Seq(C), NEW v \in Seq(C)
  PROVE  Rest(k, Joined(k, v)) = v
<1>. DEFINE y == Joined(k, v)
<1>0. Len(k) \in Nat /\ Len(v) \in Nat
  BY LenProperties
<1>1. /\ y \in Seq(C) /\ Len(y) = Len(k) + 1 + Len(v)
      /\ \A i \in 1 .. Len(v) : y[Len(k) + 1 + i] = v[i]
  BY Joins
<1>. HIDE DEF y
<1>2. SubSeq(y, Len(k) + 2, Len(y)) = v
  BY <1>0, <1>1
<1>. QED  BY <1>2 DEF Rest, y

\* Get after Load agrees with the text: for every text that Load accepts and
\* every clean key, it returns what follows the key on the first line that gives
\* it, however long the text and whatever other lines it holds.
THEOREM FirstLineIsRead == Spec => []FirstLineWins
<1>1. TextInv => FirstLineWins
  <2>. SUFFICES ASSUME TextInv, file # NoFile, decode(file) # LoadError,
                       NEW k \in Keys, CleanKey(k)
                PROVE  LET first == CHOOSE i \in Given(k) : \A j \in Given(k) : i <= j
                       IN  Get(decode(file), k) =
                             IF Given(k) = {} THEN <<>>
                             ELSE SavedValue(SubSeq(file, first + Len(k) + 1, Len(file)))
    BY Zenon DEF FirstLineWins
  <2>. DEFINE P == Given(k)
              f == CHOOSE i \in P : \A j \in P : i <= j
              y == From(file, f)
              z == SubSeq(file, f + Len(k) + 1, Len(file))
  <2>1. SP \in Char /\ NL \in Char
    BY DEF Char
  <2>2. k \in Seq(Char) /\ file \in Seq(Char)
    BY TextChars DEF TextInv
  <2>3. P = Places(k, file)
    BY DEF Places, Given, Begins, From
  <2>4. CASE P = {}
    <3>1. Get(decode(file), k) = <<>>
      BY <2>1, <2>2, <2>3, <2>4, LinesFound, GetDecoded
    <3>. QED  BY <2>4, <3>1
  <2>5. CASE P # {}
    <3>1. P \subseteq 1 .. Len(file) /\ Len(file) \in Nat /\ Len(k) \in Nat
      BY <2>2, LenProperties DEF Given, LineStarts
    <3>. HIDE DEF P
    <3>2. \E i \in P : \A j \in P : i <= j
      <4>1. P \subseteq Nat
        BY <3>1
      <4>. QED  BY <2>5, <4>1, Least
    <3>3. f \in P /\ \A j \in P : f <= j
      BY <3>2, Zenon
    <3>. HIDE DEF f
    <3>4. Hit(k, ScanLines(file), SavedValue(y))
      BY <2>1, <2>2, <2>3, <3>3, LinesFound
    <3>5. Get(decode(file), k) = Rest(k, SavedValue(y))
      BY <2>1, <2>2, <3>4, GetDecoded
    <3>6. Begins(k, y) /\ f \in 1 .. Len(file)
      BY <2>3, <3>1, <3>3 DEF Places
    <3>7. y \in Seq(Char) /\ Len(y) = Len(file) - f + 1 /\ \A x \in 1 .. Len(y) : y[x] = file[f - 1 + x]
      BY <2>2, <3>1, <3>6 DEF From
    <3>8. Rest(k, y) \in Seq(Char) /\ y = Joined(k, Rest(k, y)) /\ Len(k) + 1 <= Len(y)
      BY <2>1, <2>2, <3>6, <3>7, BeginsJoined, BeginsIs
    <3>9. Rest(k, y) = z
      <4>. DEFINE q == Rest(k, y)
      <4>. HIDE DEF y
      <4>1. /\ q \in Seq(Char) /\ Len(q) = Len(y) - Len(k) - 1
            /\ \A x \in 1 .. Len(q) : q[x] = y[Len(k) + 1 + x]
        BY <3>1, <3>7, <3>8 DEF Rest
      <4>2. /\ z \in Seq(Char) /\ Len(z) = Len(file) - f - Len(k)
            /\ \A x \in 1 .. Len(z) : z[x] = file[f + Len(k) + x]
        <5>. DEFINE g == f + Len(k) + 1
        <5>1. g \in 1 .. Len(file) + 1 /\ Len(file) - g + 1 = Len(file) - f - Len(k)
          BY <3>1, <3>6, <3>7, <3>8
        <5>2. \A x \in Nat : g - 1 + x = f + Len(k) + x
          BY <3>1, <3>6
        <5>. HIDE DEF g
        <5>3. /\ SubSeq(file, g, Len(file)) \in Seq(Char)
              /\ Len(SubSeq(file, g, Len(file))) = Len(file) - g + 1
              /\ \A x \in 1 .. Len(file) - g + 1 : SubSeq(file, g, Len(file))[x] = file[g - 1 + x]
          BY <2>2, <3>1, <5>1
        <5>4. z = SubSeq(file, g, Len(file))
          BY DEF g
        <5>. HIDE DEF z
        <5>5. z \in Seq(Char) /\ Len(z) = Len(file) - f - Len(k)
          BY <5>1, <5>3, <5>4
        <5>6. ASSUME NEW x \in 1 .. Len(z) PROVE z[x] = file[f + Len(k) + x]
          <6>1. x \in 1 .. Len(file) - g + 1 /\ x \in Nat
            BY <5>1, <5>5
          <6>. QED  BY <5>2, <5>3, <5>4, <6>1
        <5>. QED  BY <5>5, <5>6
      <4>. HIDE DEF q, z
      <4>3. Len(q) = Len(z)
        BY <3>1, <3>6, <3>7, <4>1, <4>2
      <4>4. ASSUME NEW x \in 1 .. Len(q) PROVE q[x] = z[x]
        <5>1. Len(k) + 1 + x \in 1 .. Len(y) /\ f - 1 + (Len(k) + 1 + x) = f + Len(k) + x
          BY <3>1, <3>6, <3>7, <4>1
        <5>. QED  BY <3>7, <4>1, <4>2, <4>3, <5>1
      <4>. QED  BY <4>1, <4>2, <4>3, <4>4, SeqEqual DEF q
    <3>10. SavedValue(y) = Joined(k, SavedValue(z)) /\ SavedValue(z) \in Seq(Char)
      BY <2>1, <2>2, <3>8, <3>9, JoinedSaved, SavedValueSeq
    <3>11. Rest(k, Joined(k, SavedValue(z))) = SavedValue(z)
      BY <2>1, <2>2, <3>10, RestJoined
    <3>. QED  BY <2>5, <3>5, <3>10, <3>11 DEF P, f
  <2>. QED  BY <2>4, <2>5
<1>. QED  BY <1>1, TextInvHolds, PTL
=============================================================================

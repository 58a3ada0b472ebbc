-------------------------- MODULE RedisConfProofs --------------------------
(***************************************************************************)
(* The text of a redis.conf, whatever its characters and however long:     *)
(* what Encode writes and decode reads, line by line.                      *)
(*                                                                         *)
(* Texts are read and written by folds.  FoldEnds gives the equations of   *)
(* any fold, a lemma per operator (ScanFolds, KeptFolds, FlattenFolds)     *)
(* takes them to the model, and what holds of a whole text is shown for    *)
(* its prefixes one after the other, with UpTo.                            *)
(***************************************************************************)
EXTENDS ConfFile, NaturalsInduction, WellFoundedInduction, SequenceTheorems, TLAPS

(* ---------- Induction, and folds over a sequence ------------------------ *)

\* A non-empty set of naturals has a least element.
LEMMA Least ==
  ASSUME NEW S, S \subseteq Nat, S # {}
  PROVE  \E x \in S : \A y \in S : x <= y
<1>. DEFINE R == {p \in Nat \X Nat : p[1] < p[2]}
<1>1. PICK x \in S : \A y \in S : ~(<<y, x>> \in R)
  <2>1. IsWellFoundedOn(R, Nat)
    BY NatLessThanWellFounded, Zenon DEF OpToRel
  <2>. HIDE DEF R
  <2>. QED  BY <2>1, WFMin, Zenon
<1>2. ASSUME NEW y \in S PROVE x <= y
  <2>1. ~(<<y, x>> \in R) /\ x \in Nat /\ y \in Nat
    BY <1>1, Zenon
  <2>. QED  BY <2>1
<1>. QED  BY <1>1, <1>2

\* Induction up to N over a set S, by the least number that S lacks: what the
\* proofs below use in place of induction over a predicate.
LEMMA UpTo ==
  ASSUME NEW S, NEW N \in Nat, 0 \in S,
         \A n \in 0 .. N - 1 : n \in S => n + 1 \in S
  PROVE  0 .. N \subseteq S
<1>. DEFINE Left == (0 .. N) \ S
<1>. SUFFICES ASSUME Left # {} PROVE FALSE
  OBVIOUS
<1>1. PICK x \in Left : \A y \in Left : x <= y
  <2>1. Left \subseteq Nat
    OBVIOUS
  <2>. HIDE DEF Left
  <2>. QED  BY <2>1, Least
<1>2. x \in 1 .. N /\ x \notin S
  BY <1>1
<1>3. x - 1 \in 0 .. N - 1 /\ x - 1 \in 0 .. N /\ ~(x <= x - 1) /\ (x - 1) + 1 = x
  BY <1>2
<1>4. x - 1 \in S
  BY <1>1, <1>3
<1>. QED  BY <1>2, <1>3, <1>4

\* A fold runs an operation F of Op(A, E) over a sequence of E, starting at b:
\* f[n] is what it has computed after n elements.
Op(A, E) == [A -> [E -> A]]

Runs(f, F, b, s, N) == f[0] = b /\ \A n \in 1 .. N : f[n] = F[f[n - 1]][s[n]]

\* A run, as far as its values stay in A.
Stays(f, A, F, b, s, N) ==
  f[0] = b /\ \A n \in 1 .. N : f[n - 1] \in A => f[n] = F[f[n - 1]][s[n]]

\* What the run ends with.
Folded(F, b, s) == CHOOSE v : \E f : Runs(f, F, b, s, Len(s)) /\ v = f[Len(s)]

\* A run over a sequence exists, and its values stay in A.
LEMMA FoldExists ==
  ASSUME NEW A, NEW E, NEW F \in Op(A, E), NEW b \in A, NEW s \in Seq(E)
  PROVE  \E f : f \in [0 .. Len(s) -> A] /\ Runs(f, F, b, s, Len(s))
<1>. DEFINE Folds(f, n) == f \in [0 .. n -> A] /\ Runs(f, F, b, s, n)
            S == {n \in Nat : \E f : Folds(f, n)}
<1>0. Len(s) \in Nat /\ \A n \in 1 .. Len(s) : s[n] \in E
  BY LenProperties, ElementOfSeq
<1>1. 0 \in S
  <2>1. Folds([k \in 0 .. 0 |-> b], 0)
    BY DEF Runs
  <2>. HIDE DEF Folds
  <2>. QED  BY <2>1
<1>2. ASSUME NEW n \in 0 .. Len(s) - 1, n \in S
      PROVE  n + 1 \in S
  <2>1. PICK f : Folds(f, n)
    BY <1>2
  <2>. DEFINE v == F[f[n]][s[n + 1]]
              g == [k \in 0 .. n + 1 |-> IF k = n + 1 THEN v ELSE f[k]]
  <2>2. f[n] \in A /\ s[n + 1] \in E
    BY <1>0, <2>1
  <2>3. v \in A
    BY <2>2 DEF Op
  <2>4. g \in [0 .. n + 1 -> A]
    <3>. HIDE DEF v
    <3>. QED  BY <2>1, <2>3
  <2>5. /\ g[0] = b /\ g[n + 1] = v
        /\ \A k \in 0 .. n : g[k] = f[k]
    <3>. HIDE DEF v
    <3>. QED  BY <2>1 DEF Runs
  <2>6. ASSUME NEW k \in 1 .. n + 1
        PROVE  g[k] = F[g[k - 1]][s[k]]
    <3>. HIDE DEF g
    <3>1. CASE k = n + 1
      BY <2>5, <3>1
    <3>2. CASE k \in 1 .. n
      <4>1. k \in 0 .. n /\ k - 1 \in 0 .. n
        BY <3>2
      <4>. QED  BY <2>1, <2>5, <3>2, <4>1 DEF Runs
    <3>. QED  BY <3>1, <3>2
  <2>7. Folds(g, n + 1)
    <3>. HIDE DEF g
    <3>. QED  BY <2>4, <2>5, <2>6 DEF Runs
  <2>8. n + 1 \in Nat
    OBVIOUS
  <2>. HIDE DEF Folds, g
  <2>. QED  BY <2>7, <2>8
<1>3. Len(s) \in S
  <2>. HIDE DEF S
  <2>1. 0 .. Len(s) \subseteq S
    BY <1>0, <1>1, <1>2, UpTo
  <2>. QED  BY <1>0, <2>1
<1>. QED  BY <1>3, Zenon

\* Two runs over a sequence end with the same value.
LEMMA FoldUnique ==
  ASSUME NEW A, NEW E, NEW F \in Op(A, E), NEW b \in A, NEW s \in Seq(E),
         NEW f, NEW h, Runs(f, F, b, s, Len(s)), Stays(h, A, F, b, s, Len(s))
  PROVE  h[Len(s)] = f[Len(s)] /\ h[Len(s)] \in A
<1>. DEFINE N == Len(s)
            S == {n \in 0 .. N : h[n] = f[n] /\ h[n] \in A}
<1>0. N \in Nat /\ \A n \in 1 .. N : s[n] \in E
  BY LenProperties, ElementOfSeq
<1>. HIDE DEF N
<1>1. 0 \in S
  BY <1>0 DEF Runs, Stays
<1>2. ASSUME NEW n \in 0 .. N - 1, n \in S
      PROVE  n + 1 \in S
  <2>1. n + 1 \in 1 .. N /\ (n + 1) - 1 = n /\ n + 1 \in 0 .. N
    BY <1>0
  <2>2. h[n] = f[n] /\ h[n] \in A /\ s[n + 1] \in E
    BY <1>0, <1>2, <2>1
  <2>3. f[n + 1] = F[f[n]][s[n + 1]] /\ h[n + 1] = F[h[n]][s[n + 1]]
    BY <2>1, <2>2 DEF Runs, Stays, N
  <2>4. F[h[n]][s[n + 1]] \in A
    BY <2>2 DEF Op
  <2>. QED  BY <2>1, <2>2, <2>3, <2>4
<1>3. 0 .. N \subseteq S
  <2>. HIDE DEF S
  <2>. QED  BY <1>0, <1>1, <1>2, UpTo
<1>. QED  BY <1>0, <1>3 DEF N

\* Any run ends with Folded: FoldLeft of Lists is one.
LEMMA FoldIs ==
  ASSUME NEW A, NEW E, NEW F \in Op(A, E), NEW b \in A, NEW s \in Seq(E),
         NEW h, Stays(h, A, F, b, s, Len(s))
  PROVE  h[Len(s)] = Folded(F, b, s) /\ h[Len(s)] \in A
<1>1. \E f : Runs(f, F, b, s, Len(s))
  BY FoldExists, Zenon
<1>2. \E f : Runs(f, F, b, s, Len(s)) /\ Folded(F, b, s) = f[Len(s)]
  BY <1>1, Zenon DEF Folded
<1>. QED  BY <1>2, FoldUnique, Zenon

\* The equations that determine a fold: the empty sequence, and one element
\* more at the end.
LEMMA FoldEnds ==
  ASSUME NEW A, NEW E, NEW F \in Op(A, E), NEW b \in A
  PROVE  /\ Folded(F, b, <<>>) = b
         /\ \A s \in Seq(E) : Folded(F, b, s) \in A
         /\ \A s \in Seq(E), x \in E :
              Folded(F, b, Append(s, x)) = F[Folded(F, b, s)][x]
<1>0. ASSUME NEW f, NEW s, Runs(f, F, b, s, Len(s))
      PROVE  Stays(f, A, F, b, s, Len(s))
  BY <1>0, Zenon DEF Runs, Stays
<1>1. Folded(F, b, <<>>) = b
  <2>1. <<>> \in Seq(E) /\ Len(<<>>) = 0
    BY EmptySeq
  <2>2. PICK f : Runs(f, F, b, <<>>, Len(<<>>))
    BY <2>1, FoldExists, Zenon
  <2>3. f[Len(<<>>)] = Folded(F, b, <<>>)
    BY <1>0, <2>1, <2>2, FoldIs, Zenon
  <2>. QED  BY <2>1, <2>2, <2>3, Zenon DEF Runs
<1>2. ASSUME NEW s \in Seq(E) PROVE Folded(F, b, s) \in A
  <2>1. PICK f : Runs(f, F, b, s, Len(s))
    BY FoldExists, Zenon
  <2>. QED  BY <1>0, <2>1, FoldIs, Zenon
<1>3. ASSUME NEW s \in Seq(E), NEW x \in E
      PROVE  Folded(F, b, Append(s, x)) = F[Folded(F, b, s)][x]
  <2>. DEFINE t == Append(s, x)
              N == Len(s)
  <2>1. /\ N \in Nat /\ t \in Seq(E) /\ Len(t) = N + 1 /\ t[N + 1] = x
        /\ \A i \in 1 .. N : t[i] = s[i]
    BY LenProperties, AppendProperties
  <2>. HIDE DEF t, N
  <2>2. PICK f : Runs(f, F, b, t, Len(t))
    BY <2>1, FoldExists, Zenon
  <2>3. Runs(f, F, b, s, N)
    BY <2>1, <2>2 DEF Runs
  <2>4. f[N] = Folded(F, b, s)
    BY <1>0, <2>3, FoldIs, Zenon DEF N
  <2>5. f[Len(t)] = Folded(F, b, t)
    BY <1>0, <2>1, <2>2, FoldIs, Zenon
  <2>6. N + 1 \in 1 .. Len(t) /\ (N + 1) - 1 = N
    BY <2>1
  <2>7. f[N + 1] = F[f[N]][x]
    BY <2>1, <2>2, <2>6 DEF Runs
  <2>. QED  BY <2>1, <2>4, <2>5, <2>7 DEF t
<1>. QED  BY <1>1, <1>2, <1>3

\* What the line scanner has read of a text whose characters are in C.
Scans(C) == [lines : Seq(Seq(C \ {NL})), line : Seq(C \ {NL})]
Start == [lines |-> <<>>, line |-> <<>>]

\* Dropping the carriage return of a line leaves characters of the line.
LEMMA dropCRSeq == ASSUME NEW C, NEW l \in Seq(C) PROVE dropCR(l) \in Seq(C)
<1>1. CASE l # <<>> /\ Last(l) = CR
  <2>1. Len(l) \in Nat \ {0} /\ \A i \in 1 .. Len(l) : l[i] \in C
    BY <1>1, EmptySeq, ElementOfSeq
  <2>. QED  BY <1>1, <2>1, SubSeqProperties DEF dropCR, Front
<1>. QED  BY <1>1 DEF dropCR

\* The scanner reads a text character by character; none of its lines holds a
\* newline.
LEMMA ScanFolds ==
  ASSUME NEW C
  PROVE  /\ Scan(<<>>) = Start
         /\ \A t \in Seq(C) : Scan(t) \in Scans(C)
         /\ \A t \in Seq(C), c \in C : Scan(Append(t, c)) = ScanChar(Scan(t), c)
<1>. DEFINE A == Scans(C)
            F == [a \in A |-> [c \in C |-> ScanChar(a, c)]]
<1>1. Start \in A
  BY EmptySeq DEF Scans, Start
<1>2. ASSUME NEW a \in A, NEW c \in C PROVE ScanChar(a, c) \in A
  <2>. DEFINE D == C \ {NL}
  <2>1. a.lines \in Seq(Seq(D)) /\ a.line \in Seq(D) /\ <<>> \in Seq(D)
    BY EmptySeq DEF Scans
  <2>2. dropCR(a.line) \in Seq(D)
    BY <2>1, dropCRSeq
  <2>3. Append(a.lines, dropCR(a.line)) \in Seq(Seq(D)) /\ (c # NL => Append(a.line, c) \in Seq(D))
    BY <2>1, <2>2, AppendProperties
  <2>. QED  BY <2>1, <2>3 DEF ScanChar, Scans
<1>3. F \in Op(A, C) /\ \A a \in A, c \in C : F[a][c] = ScanChar(a, c)
  BY <1>2 DEF Op
<1>. HIDE DEF A, F
<1>4. ASSUME NEW t \in Seq(C) PROVE Scan(t) = Folded(F, Start, t)
  <2>. DEFINE Eqn(f) == f = [n \in 0 .. Len(t) |-> IF n = 0 THEN Start ELSE ScanChar(f[n - 1], t[n])]
              h == CHOOSE f : Eqn(f)
  <2>1. Scan(t) = h[Len(t)]
    BY DEF Scan, FoldLeft, Start
  <2>2. Len(t) \in Nat /\ \A n \in 1 .. Len(t) : t[n] \in C
    BY LenProperties, ElementOfSeq
  <2>3. PICK f : f \in [0 .. Len(t) -> A] /\ Runs(f, F, Start, t, Len(t))
    BY <1>1, <1>3, FoldExists, Zenon
  <2>4. Eqn(f)
    <3>1. \A n \in 1 .. Len(t) : f[n] = ScanChar(f[n - 1], t[n])
      BY <1>3, <2>2, <2>3 DEF Runs
    <3>2. f[0] = Start
      BY <2>3 DEF Runs
    <3>. QED  BY <2>2, <2>3, <3>1, <3>2
  <2>. HIDE DEF Eqn
  <2>5. Eqn(h)
    BY <2>4, Zenon
  <2>. HIDE DEF h
  <2>6. h[0] = Start /\ \A n \in 1 .. Len(t) : h[n] = ScanChar(h[n - 1], t[n])
    BY <2>2, <2>5 DEF Eqn
  <2>7. Stays(h, A, F, Start, t, Len(t))
    <3>1. ASSUME NEW n \in 1 .. Len(t), h[n - 1] \in A
          PROVE  h[n] = F[h[n - 1]][t[n]]
      BY <1>3, <2>2, <2>6, <3>1, Zenon
    <3>. QED  BY <2>6, <3>1, Zenon DEF Stays
  <2>8. h[Len(t)] = Folded(F, Start, t)
    <3>1. F \in Op(A, C)
      BY <1>3
    <3>. QED  BY <1>1, <2>7, <3>1, FoldIs, Zenon
  <2>. QED  BY <2>1, <2>8
<1>5. /\ Folded(F, Start, <<>>) = Start
      /\ \A t \in Seq(C) : Folded(F, Start, t) \in A
      /\ \A t \in Seq(C), c \in C : Folded(F, Start, Append(t, c)) = F[Folded(F, Start, t)][c]
  BY <1>1, <1>3, FoldEnds
<1>6. <<>> \in Seq(C) /\ \A t \in Seq(C), c \in C : Append(t, c) \in Seq(C)
  BY EmptySeq, AppendProperties
<1>7. ASSUME NEW t \in Seq(C), NEW c \in C
      PROVE  Scan(Append(t, c)) = ScanChar(Scan(t), c)
  BY <1>3, <1>4, <1>5, <1>6, Zenon
<1>. QED  BY <1>4, <1>5, <1>6, <1>7, Zenon DEF A

\* The same scan, with its two fields apart.
LEMMA ScanSeq ==
  ASSUME NEW C, NEW t \in Seq(C)
  PROVE  /\ Scan(t) = [lines |-> Scan(t).lines, line |-> Scan(t).line]
         /\ Scan(t).lines \in Seq(Seq(C)) /\ Scan(t).line \in Seq(C)
<1>1. Scan(t) \in Scans(C)
  BY ScanFolds
<1>2. \A s \in Seq(C \ {NL}) : s \in Seq(C)
  BY SeqMonotonic
<1>3. \A s \in Seq(Seq(C \ {NL})) : s \in Seq(Seq(C))
  BY <1>2, SeqMonotonic
<1>. QED  BY <1>1, <1>2, <1>3 DEF Scans

\* The lines of a text hold no newline.
LEMMA ScanLinesSeq ==
  ASSUME NEW C, NEW t \in Seq(C) PROVE ScanLines(t) \in Seq(Seq(C \ {NL}))
<1>1. Scan(t).lines \in Seq(Seq(C \ {NL})) /\ Scan(t).line \in Seq(C \ {NL})
  BY ScanFolds DEF Scans
<1>2. dropCR(Scan(t).line) \in Seq(C \ {NL})
  BY <1>1, dropCRSeq
<1>. QED  BY <1>1, <1>2, AppendProperties DEF ScanLines

\* The lines that decode keeps.
Kept(lines) == FoldLeft(KeepLine, <<>>, lines)

\* decode goes through the lines in order, and keeps none it has to skip.
LEMMA KeptFolds ==
  ASSUME NEW T
  PROVE  /\ Kept(<<>>) = <<>>
         /\ \A s \in Seq(T) : Kept(s) \in Seq({l \in T : ~Skipped(l)})
         /\ \A s \in Seq(T), l \in T : Kept(Append(s, l)) = KeepLine(Kept(s), l)
<1>. DEFINE A == Seq({l \in T : ~Skipped(l)})
            b == <<>>
            F == [a \in A |-> [l \in T |-> KeepLine(a, l)]]
<1>1. b \in A
  BY EmptySeq
<1>2. ASSUME NEW a \in A, NEW l \in T PROVE KeepLine(a, l) \in A
  BY AppendProperties DEF KeepLine
<1>3. F \in Op(A, T)
  BY <1>2 DEF Op
<1>4. \A a \in A, l \in T : F[a][l] = KeepLine(a, l)
  OBVIOUS
<1>. HIDE DEF A, F
<1>5. ASSUME NEW s \in Seq(T) PROVE Kept(s) = Folded(F, b, s)
  <2>. DEFINE Eqn(f) == f = [n \in 0 .. Len(s) |-> IF n = 0 THEN b ELSE KeepLine(f[n - 1], s[n])]
              h == CHOOSE f : Eqn(f)
  <2>1. Kept(s) = h[Len(s)]
    BY DEF Kept, FoldLeft
  <2>. HIDE DEF b
  <2>2. Len(s) \in Nat /\ \A n \in 1 .. Len(s) : s[n] \in T
    BY LenProperties, ElementOfSeq
  <2>3. PICK f : f \in [0 .. Len(s) -> A] /\ Runs(f, F, b, s, Len(s))
    BY <1>1, <1>3, FoldExists, Zenon
  <2>4. Eqn(f)
    <3>1. \A n \in 1 .. Len(s) : f[n] = KeepLine(f[n - 1], s[n])
      BY <1>4, <2>2, <2>3 DEF Runs
    <3>. QED  BY <2>2, <2>3, <3>1 DEF Runs
  <2>. HIDE DEF Eqn
  <2>5. Eqn(h)
    BY <2>4, Zenon
  <2>. HIDE DEF h
  <2>6. h[0] = b /\ \A n \in 1 .. Len(s) : h[n] = KeepLine(h[n - 1], s[n])
    BY <2>2, <2>5 DEF Eqn
  <2>7. Stays(h, A, F, b, s, Len(s))
    <3>1. ASSUME NEW n \in 1 .. Len(s), h[n - 1] \in A
          PROVE  h[n] = F[h[n - 1]][s[n]]
      BY <1>4, <2>2, <2>6, <3>1, Zenon
    <3>. QED  BY <2>6, <3>1, Zenon DEF Stays
  <2>8. h[Len(s)] = Folded(F, b, s)
    BY <1>1, <1>3, <2>7, FoldIs, Zenon
  <2>. QED  BY <2>1, <2>8
<1>6. /\ Folded(F, b, <<>>) = b
      /\ \A s \in Seq(T) : Folded(F, b, s) \in A
      /\ \A s \in Seq(T), l \in T : Folded(F, b, Append(s, l)) = F[Folded(F, b, s)][l]
  <2>. HIDE DEF b
  <2>. QED  BY <1>1, <1>3, FoldEnds
<1>7. <<>> \in Seq(T) /\ \A s \in Seq(T), l \in T : Append(s, l) \in Seq(T)
  BY EmptySeq, AppendProperties
<1>8. ASSUME NEW s \in Seq(T), NEW l \in T
      PROVE  Kept(Append(s, l)) = KeepLine(Kept(s), l)
  BY <1>4, <1>5, <1>6, <1>7, Zenon
<1>. QED  BY <1>5, <1>6, <1>7, <1>8, Zenon DEF A

\* Flattening goes through the texts in order.
LEMMA FlattenFolds ==
  ASSUME NEW C
  PROVE  /\ FlattenSeq(<<>>) = <<>>
         /\ \A s \in Seq(Seq(C)) : FlattenSeq(s) \in Seq(C)
         /\ \A s \in Seq(Seq(C)), l \in Seq(C) : FlattenSeq(Append(s, l)) = FlattenSeq(s) \o l
<1>. DEFINE A == Seq(C)
            T == Seq(C)
            b == <<>>
            Cat(a, l) == a \o l
            F == [a \in A |-> [l \in T |-> Cat(a, l)]]
<1>1. b \in A
  BY EmptySeq
<1>2. ASSUME NEW a \in A, NEW l \in T PROVE Cat(a, l) \in A
  BY ConcatProperties
<1>. HIDE DEF Cat
<1>3. F \in Op(A, T)
  BY <1>2 DEF Op
<1>4. \A a \in A, l \in T : F[a][l] = Cat(a, l)
  OBVIOUS
<1>. HIDE DEF A, T, F
<1>5. ASSUME NEW s \in Seq(T) PROVE FlattenSeq(s) = Folded(F, b, s)
  <2>. DEFINE Eqn(f) == f = [n \in 0 .. Len(s) |-> IF n = 0 THEN b ELSE Cat(f[n - 1], s[n])]
              h == CHOOSE f : Eqn(f)
  <2>1. FlattenSeq(s) = h[Len(s)]
    BY DEF FlattenSeq, FoldLeft, Cat
  <2>. HIDE DEF b, Cat
  <2>2. Len(s) \in Nat /\ \A n \in 1 .. Len(s) : s[n] \in T
    BY LenProperties, ElementOfSeq
  <2>3. PICK f : f \in [0 .. Len(s) -> A] /\ Runs(f, F, b, s, Len(s))
    BY <1>1, <1>3, FoldExists, Zenon
  <2>4. Eqn(f)
    <3>1. \A n \in 1 .. Len(s) : f[n] = Cat(f[n - 1], s[n])
      BY <1>4, <2>2, <2>3 DEF Runs
    <3>. QED  BY <2>2, <2>3, <3>1 DEF Runs
  <2>. HIDE DEF Eqn
  <2>5. Eqn(h)
    BY <2>4, Zenon
  <2>. HIDE DEF h
  <2>6. h[0] = b /\ \A n \in 1 .. Len(s) : h[n] = Cat(h[n - 1], s[n])
    BY <2>2, <2>5 DEF Eqn
  <2>7. Stays(h, A, F, b, s, Len(s))
    <3>1. ASSUME NEW n \in 1 .. Len(s), h[n - 1] \in A
          PROVE  h[n] = F[h[n - 1]][s[n]]
      BY <1>4, <2>2, <2>6, <3>1, Zenon
    <3>. QED  BY <2>6, <3>1, Zenon DEF Stays
  <2>8. h[Len(s)] = Folded(F, b, s)
    BY <1>1, <1>3, <2>7, FoldIs, Zenon
  <2>. QED  BY <2>1, <2>8
<1>6. /\ Folded(F, b, <<>>) = b
      /\ \A s \in Seq(T) : Folded(F, b, s) \in A
      /\ \A s \in Seq(T), l \in T : Folded(F, b, Append(s, l)) = F[Folded(F, b, s)][l]
  <2>. HIDE DEF b
  <2>. QED  BY <1>1, <1>3, FoldEnds
<1>7. <<>> \in Seq(T) /\ \A s \in Seq(T), l \in T : Append(s, l) \in Seq(T)
  BY EmptySeq, AppendProperties
<1>8. ASSUME NEW s \in Seq(T), NEW l \in T
      PROVE  FlattenSeq(Append(s, l)) = Cat(FlattenSeq(s), l)
  BY <1>4, <1>5, <1>6, <1>7, Zenon
<1>. QED  BY <1>5, <1>6, <1>7, <1>8, Zenon DEF A, T, Cat

(* ---------- Searching a text, and joining a key and a value ------------- *)

\* Contains, by positions.
LEMMA Containing ==
  ASSUME NEW C, NEW t \in Seq(C), NEW c
  PROVE  Contains(t, c) <=> \E i \in 1 .. Len(t) : t[i] = c
BY LenProperties DEF Contains, Range

\* Index is the first position of a character.
LEMMA IndexIs ==
  ASSUME NEW C, NEW t \in Seq(C), NEW c, NEW i \in 1 .. Len(t), t[i] = c,
         \A j \in 1 .. i - 1 : t[j] # c
  PROVE  Index(t, c) = i
<1>. DEFINE S == {j \in DOMAIN t : t[j] = c}
<1>1. Contains(t, c)
  BY Containing
<1>2. Len(t) \in Nat /\ DOMAIN t = 1 .. Len(t)
  BY LenProperties
<1>3. i \in S /\ \A y \in S : i <= y
  BY <1>2
<1>4. \A x \in S : (\A y \in S : x <= y) => x = i
  BY <1>2, <1>3
<1>. HIDE DEF S
<1>5. Min(S) = i
  BY <1>3, <1>4 DEF Min
<1>. QED  BY <1>1, <1>5 DEF Index, S

\* A character that a text contains is found at its first position.
LEMMA IndexFound ==
  ASSUME NEW C, NEW t \in Seq(C), NEW c, Contains(t, c)
  PROVE  /\ Index(t, c) \in 1 .. Len(t) /\ t[Index(t, c)] = c
         /\ \A j \in 1 .. Index(t, c) - 1 : t[j] # c
<1>. DEFINE S == {j \in 1 .. Len(t) : t[j] = c}
<1>1. Len(t) \in Nat
  BY LenProperties
<1>2. S \subseteq Nat /\ S # {}
  BY <1>1, Containing
<1>. HIDE DEF S
<1>3. PICK x \in S : \A y \in S : x <= y
  BY <1>2, Least, Zenon
<1>4. x \in 1 .. Len(t) /\ t[x] = c /\ \A j \in 1 .. x - 1 : t[j] # c
  BY <1>1, <1>3 DEF S
<1>5. Index(t, c) = x
  BY <1>4, IndexIs, Zenon
<1>. QED  BY <1>4, <1>5

\* The line of a key and a value.
Joined(k, v) == k \o <<SP>> \o v

\* The characters of that line.
LEMMA Joins ==
  ASSUME NEW C, SP \in C, NEW k \in Seq(C), NEW v \in Seq(C)
  PROVE  /\ Joined(k, v) \in Seq(C)
         /\ Len(Joined(k, v)) = Len(k) + 1 + Len(v)
         /\ Joined(k, v)[Len(k) + 1] = SP
         /\ \A i \in 1 .. Len(k) : Joined(k, v)[i] = k[i]
         /\ \A i \in 1 .. Len(v) : Joined(k, v)[Len(k) + 1 + i] = v[i]
  BY DEF Joined

\* parseParam splits the line of a key without a space where it was joined.
LEMMA JoinSplits ==
  ASSUME NEW C, SP \in C, NEW k \in Seq(C), NEW v \in Seq(C), ~Contains(k, SP)
  PROVE  parseParam(Joined(k, v)) = Param(k, v) /\ Contains(Joined(k, v), SP)
<1>. DEFINE l == Joined(k, v)
<1>1. /\ l \in Seq(C) /\ Len(l) = Len(k) + 1 + Len(v) /\ l[Len(k) + 1] = SP
      /\ \A i \in 1 .. Len(k) : l[i] = k[i]
      /\ \A i \in 1 .. Len(v) : l[Len(k) + 1 + i] = v[i]
  BY DEF Joined
<1>2. Len(k) \in Nat /\ Len(v) \in Nat
  BY LenProperties
<1>. HIDE DEF l
<1>3. Contains(l, SP)
  <2>1. Len(k) + 1 \in 1 .. Len(l)
    BY <1>1, <1>2
  <2>. QED  BY <1>1, <2>1, Containing
<1>4. Index(l, SP) = Len(k) + 1
  <2>1. \A j \in 1 .. Len(k) : l[j] # SP
    BY <1>1, Containing
  <2>2. Len(k) + 1 \in 1 .. Len(l) /\ (Len(k) + 1) - 1 = Len(k)
    BY <1>1, <1>2
  <2>. QED  BY <1>1, <2>1, <2>2, IndexIs
<1>5. Before(l, SP) = k
  <2>1. Before(l, SP) = SubSeq(l, 1, Len(k))
    BY <1>2, <1>4 DEF Before
  <2>. QED  BY <1>1, <1>2, <2>1
<1>6. After(l, SP) = v
  <2>1. After(l, SP) = SubSeq(l, Len(k) + 2, Len(l))
    BY <1>2, <1>4 DEF After
  <2>. QED  BY <1>1, <1>2, <2>1
<1>. QED  BY <1>3, <1>5, <1>6 DEF parseParam, l

\* The last element of a sequence, and what is in front of it.
LEMMA AppendEnds ==
  ASSUME NEW C, NEW s \in Seq(C), NEW x \in C
  PROVE  Last(Append(s, x)) = x /\ Front(Append(s, x)) = s
<1>1. Len(s) \in Nat /\ Len(Append(s, x)) = Len(s) + 1
  BY AppendProperties
<1>2. (Len(s) + 1) - 1 = Len(s)
  BY <1>1
<1>3. Last(Append(s, x)) = x
  BY <1>1, AppendProperties DEF Last
<1>4. Front(Append(s, x)) = SubSeq(Append(s, x), 1, Len(s))
  BY <1>1, <1>2 DEF Front
<1>. QED  BY <1>1, <1>3, <1>4

\* A sequence that is not empty ends in an element.
LEMMA SnocOf ==
  ASSUME NEW C, NEW s \in Seq(C), s # <<>>
  PROVE  Front(s) \in Seq(C) /\ Last(s) \in C /\ s = Append(Front(s), Last(s))
<1>1. PICK t \in Seq(C), x \in C : s = Append(t, x)
  BY SequenceEmptyOrAppend
<1>. QED  BY <1>1, AppendEnds

\* Concatenation with one element more.
LEMMA ConcatAppend ==
  ASSUME NEW C, NEW s \in Seq(C), NEW t \in Seq(C), NEW x \in C
  PROVE  s \o Append(t, x) = Append(s \o t, x)
OBVIOUS

\* The carriage return at the end of a line is that of its value.
LEMMA JoinDrops ==
  ASSUME NEW C, SP \in C, NEW k \in Seq(C), NEW v \in Seq(C)
  PROVE  dropCR(Joined(k, v)) = Joined(k, dropCR(v))
<1>. DEFINE ks == k \o <<SP>>
<1>1. ks \in Seq(C) /\ ks # <<>> /\ Last(ks) = SP
  BY DEF Last
<1>2. SP # CR
  BY DEF SP, CR
<1>. HIDE DEF ks
<1>3. CASE v = <<>>
  <2>1. Joined(k, v) = ks /\ dropCR(v) = v
    BY <1>1, <1>3 DEF Joined, ks, dropCR
  <2>. QED  BY <1>1, <1>2, <2>1 DEF dropCR
<1>4. CASE v # <<>>
  <2>. DEFINE w == Front(v)
              x == Last(v)
  <2>1. w \in Seq(C) /\ x \in C /\ v = Append(w, x)
    BY <1>4, SnocOf
  <2>. HIDE DEF w, x
  <2>2. Joined(k, v) = Append(Joined(k, w), x) /\ Joined(k, w) \in Seq(C)
    BY <1>1, <2>1, ConcatAppend DEF Joined, ks
  <2>3. Append(Joined(k, w), x) # <<>> /\ Last(Append(Joined(k, w), x)) = x
        /\ Front(Append(Joined(k, w), x)) = Joined(k, w)
    BY <2>1, <2>2, AppendEnds, AppendProperties
  <2>4. dropCR(Joined(k, v)) = IF x = CR THEN Joined(k, w) ELSE Joined(k, v)
    BY <2>2, <2>3 DEF dropCR
  <2>5. dropCR(v) = IF x = CR THEN w ELSE v
    BY <1>4 DEF dropCR, w, x
  <2>. QED  BY <2>4, <2>5
<1>. QED  BY <1>3, <1>4

\* A text without a newline lengthens the line the scanner is at.
LEMMA ScanRun ==
  ASSUME NEW C, NEW t \in Seq(C), NEW l \in Seq(C), ~Contains(l, NL)
  PROVE  Scan(t \o l) = [lines |-> Scan(t).lines, line |-> Scan(t).line \o l]
<1>. DEFINE Q(n) == Scan(t \o SubSeq(l, 1, n))
                      = [lines |-> Scan(t).lines, line |-> Scan(t).line \o SubSeq(l, 1, n)]
            S == {n \in 0 .. Len(l) : Q(n)}
<1>1. Len(l) \in Nat /\ \A i \in 1 .. Len(l) : l[i] \in C /\ l[i] # NL
  BY LenProperties, ElementOfSeq, Containing
<1>2. Scan(t) = [lines |-> Scan(t).lines, line |-> Scan(t).line]
  BY ScanSeq
<1>3. Scan(t).lines \in Seq(Seq(C)) /\ Scan(t).line \in Seq(C)
  BY ScanSeq
<1>4. Q(0)
  <2>1. SubSeq(l, 1, 0) = <<>>
    BY <1>1
  <2>2. t \o SubSeq(l, 1, 0) = t /\ Scan(t).line \o SubSeq(l, 1, 0) = Scan(t).line
    BY <1>3, <2>1
  <2>. QED  BY <1>2, <2>2
<1>5. ASSUME NEW n \in 0 .. Len(l) - 1, Q(n)
      PROVE  Q(n + 1)
  <2>. DEFINE s == SubSeq(l, 1, n)
              u == SubSeq(l, 1, n + 1)
              c == l[n + 1]
  <2>1. s \in Seq(C) /\ c \in C /\ c # NL /\ u = Append(s, c)
    BY <1>1
  <2>. HIDE DEF s, u, c
  <2>2. t \o s \in Seq(C) /\ t \o u = Append(t \o s, c)
    BY <2>1, ConcatAppend
  <2>3. Scan(t).line \o u = Append(Scan(t).line \o s, c)
    <3>. DEFINE w == Scan(t).line
    <3>1. w \in Seq(C)
      BY <1>3
    <3>. HIDE DEF w
    <3>2. w \o u = Append(w \o s, c)
      BY <2>1, <3>1
    <3>. QED  BY <3>2 DEF w
  <2>4. Scan(t \o u) = ScanChar(Scan(t \o s), c)
    BY <2>1, <2>2, ScanFolds
  <2>5. Scan(t \o s) = [lines |-> Scan(t).lines, line |-> Scan(t).line \o s]
    BY <1>5 DEF s
  <2>6. ScanChar(Scan(t \o s), c) = [lines |-> Scan(t).lines, line |-> Append(Scan(t).line \o s, c)]
    BY <2>1, <2>5 DEF ScanChar
  <2>7. Scan(t \o u) = [lines |-> Scan(t).lines, line |-> Scan(t).line \o u]
    BY <2>3, <2>4, <2>6
  <2>. QED  BY <2>7 DEF u
<1>6. Q(Len(l))
  <2>. HIDE DEF Q
  <2>1. 0 \in S /\ \A n \in 0 .. Len(l) - 1 : n \in S => n + 1 \in S
    BY <1>1, <1>4, <1>5
  <2>. HIDE DEF S
  <2>2. 0 .. Len(l) \subseteq S
    BY <1>1, <2>1, UpTo
  <2>. QED  BY <1>1, <2>2 DEF S
<1>7. SubSeq(l, 1, Len(l)) = l
  BY SubSeqFull
<1>. QED  BY <1>6, <1>7

(* ---------- Writing a Conf and reading its lines ------------------------ *)

\* A newline ends it.
LEMMA ScanEnd ==
  ASSUME NEW C, NL \in C, NEW t \in Seq(C), NEW l \in Seq(C), ~Contains(l, NL),
         Scan(t).line = <<>>
  PROVE  Scan(t \o Append(l, NL))
           = [lines |-> Append(Scan(t).lines, dropCR(l)), line |-> <<>>]
<1>2. Scan(t \o l) = [lines |-> Scan(t).lines, line |-> Scan(t).line \o l]
  BY ScanRun
<1>3. Scan(t).line \o l = l
  BY ConcatEmptySeq
<1>4. t \o l \in Seq(C) /\ t \o Append(l, NL) = Append(t \o l, NL)
  BY ConcatProperties, ConcatAppend
<1>5. Scan(t \o Append(l, NL)) = ScanChar(Scan(t \o l), NL)
  BY <1>4, ScanFolds
<1>. QED  BY <1>2, <1>3, <1>5 DEF ScanChar

\* The text Encode writes for a parameter.
Written(p) == Append(Joined(p.key, p.value), NL)

\* Encode writes the parameters one after the other.
LEMMA EncodeEnds ==
  ASSUME NEW C, SP \in C, NL \in C
  PROVE  /\ Encode(<<>>) = <<>>
         /\ \A c \in Conf(Seq(C)) : Encode(c) \in Seq(C)
         /\ \A c \in Conf(Seq(C)), p \in Parameter(Seq(C)) :
              Encode(Append(c, p)) = Encode(c) \o Written(p)
<1>. DEFINE Lines(c) == [i \in DOMAIN c |-> Written(c[i])]
<1>1. ASSUME NEW p \in Parameter(Seq(C))
      PROVE  /\ Written(p) = p.key \o <<SP>> \o p.value \o <<NL>>
             /\ Written(p) \in Seq(C)
  <2>1. p.key \in Seq(C) /\ p.value \in Seq(C)
    BY DEF Parameter
  <2>2. Joined(p.key, p.value) \in Seq(C)
    BY <2>1 DEF Joined
  <2>. QED  BY <2>2, AppendIsConcat, AppendProperties DEF Written, Joined
<1>2. ASSUME NEW c \in Conf(Seq(C))
      PROVE  Lines(c) \in Seq(Seq(C)) /\ Encode(c) = FlattenSeq(Lines(c))
  <2>1. /\ Len(c) \in Nat /\ DOMAIN c = 1 .. Len(c)
        /\ \A i \in 1 .. Len(c) : c[i] \in Parameter(Seq(C))
    BY LenProperties, ElementOfSeq DEF Conf
  <2>2. \A i \in 1 .. Len(c) : Written(c[i]) \in Seq(C)
    BY <1>1, <2>1
  <2>3. Lines(c) = [i \in DOMAIN c |-> c[i].key \o <<SP>> \o c[i].value \o <<NL>>]
    BY <1>1, <2>1
  <2>4. Lines(c) \in Seq(Seq(C))
    BY <2>1, <2>2
  <2>. QED  BY <2>3, <2>4 DEF Encode
<1>3. Encode(<<>>) = <<>>
  <2>1. Lines(<<>>) = <<>> /\ <<>> \in Conf(Seq(C))
    BY DEF Conf
  <2>. QED  BY <1>2, <2>1, FlattenFolds
<1>4. ASSUME NEW c \in Conf(Seq(C)) PROVE Encode(c) \in Seq(C)
  BY <1>2, FlattenFolds
<1>5. ASSUME NEW c \in Conf(Seq(C)), NEW p \in Parameter(Seq(C))
      PROVE  Encode(Append(c, p)) = Encode(c) \o Written(p)
  <2>1. Append(c, p) \in Conf(Seq(C))
    BY AppendProperties DEF Conf
  <2>2. Lines(Append(c, p)) = Append(Lines(c), Written(p))
    BY <1>2, <2>1 DEF Conf
  <2>. HIDE DEF Lines
  <2>3. FlattenSeq(Append(Lines(c), Written(p))) = FlattenSeq(Lines(c)) \o Written(p)
    BY <1>1, <1>2, FlattenFolds
  <2>. QED  BY <1>2, <2>1, <2>2, <2>3
<1>. QED  BY <1>3, <1>4, <1>5

\* A value with no newline but, maybe, its last character.
Short(v) == \A i \in 1 .. Len(v) - 1 : v[i] # NL

\* The line of a clean key is never taken for a comment or an empty line.
LEMMA JoinKept ==
  ASSUME NEW C, SP \in C, NEW k \in Seq(C), NEW v \in Seq(C), CleanKey(k)
  PROVE  ~Skipped(Joined(k, v)) /\ (~Contains(v, NL) => ~Contains(Joined(k, v), NL))
<1>. DEFINE l == Joined(k, v)
<1>1. /\ l \in Seq(C) /\ Len(l) = Len(k) + 1 + Len(v) /\ l[Len(k) + 1] = SP
      /\ \A i \in 1 .. Len(k) : l[i] = k[i]
      /\ \A i \in 1 .. Len(v) : l[Len(k) + 1 + i] = v[i]
  BY DEF Joined
<1>2. Len(k) \in Nat /\ Len(v) \in Nat
  BY LenProperties
<1>. HIDE DEF l
<1>3. ~Skipped(l)
  <2>1. k # <<>> /\ k[1] \notin {HASH, SP, TAB}
    BY DEF CleanKey, Skipped
  <2>2. Len(k) >= 1
    BY <1>2, <2>1, EmptySeq
  <2>3. l[1] = k[1] /\ Len(l) # 0
    BY <1>1, <1>2, <2>2
  <2>. QED  BY <2>1, <2>3, EmptySeq DEF Skipped
<1>4. ASSUME ~Contains(v, NL) PROVE ~Contains(l, NL)
  <2>1. /\ \A i \in 1 .. Len(k) : k[i] # NL
        /\ \A i \in 1 .. Len(v) : v[i] # NL
    BY <1>4, Containing DEF CleanKey
  <2>2. SP # NL
    BY DEF SP, NL
  <2>3. ASSUME NEW i \in 1 .. Len(l) PROVE l[i] # NL
    <3>1. CASE i > Len(k) + 1
      <4>. DEFINE m == i - (Len(k) + 1)
      <4>1. m \in 1 .. Len(v) /\ i = Len(k) + 1 + m
        BY <1>1, <1>2, <3>1
      <4>. HIDE DEF m
      <4>. QED  BY <1>1, <2>1, <4>1
    <3>2. CASE i <= Len(k)
      BY <1>1, <1>2, <2>1, <3>2
    <3>. QED  BY <1>1, <1>2, <2>2, <3>1, <3>2
  <2>. QED  BY <1>1, <2>3, Containing
<1>. QED  BY <1>3, <1>4 DEF l

\* What is read of a parameter that was written: its key, and its value as
\* SavedValue has it.
LEMMA WrittenKept ==
  ASSUME NEW C, SP \in C, NL \in C, NEW t \in Seq(C), Scan(t).line = <<>>,
         NEW p \in Parameter(Seq(C)), CleanKey(p.key), Short(p.value)
  PROVE  /\ Scan(t \o Written(p)).line = <<>>
         /\ Kept(Scan(t \o Written(p)).lines)
              = Append(Kept(Scan(t).lines), Joined(p.key, SavedValue(p.value)))
<1>. DEFINE k == p.key
            v == p.value
            L == Scan(t).lines
<1>1. k \in Seq(C) /\ v \in Seq(C) /\ <<>> \in Seq(C) /\ CleanKey(k)
  BY EmptySeq DEF Parameter
<1>2. L \in Seq(Seq(C))
  BY ScanSeq
<1>3. Short(v) /\ Written(p) = Append(Joined(k, v), NL)
  BY DEF Written
<1>. HIDE DEF k, v
<1>4. ASSUME NEW w \in Seq(C), ~Contains(w, NL)
      PROVE  /\ Scan(t \o Append(Joined(k, w), NL))
                  = [lines |-> Append(L, Joined(k, dropCR(w))), line |-> <<>>]
             /\ Append(L, Joined(k, dropCR(w))) \in Seq(Seq(C))
             /\ Kept(Append(L, Joined(k, dropCR(w)))) = Append(Kept(L), Joined(k, dropCR(w)))
  <2>1. Joined(k, w) \in Seq(C) /\ ~Contains(Joined(k, w), NL)
    BY <1>1, <1>4, Joins, JoinKept
  <2>2. dropCR(Joined(k, w)) = Joined(k, dropCR(w)) /\ dropCR(w) \in Seq(C)
    BY <1>1, JoinDrops, dropCRSeq
  <2>3. Joined(k, dropCR(w)) \in Seq(C) /\ ~Skipped(Joined(k, dropCR(w)))
    BY <1>1, <2>2, Joins, JoinKept
  <2>4. Scan(t \o Append(Joined(k, w), NL))
          = [lines |-> Append(L, dropCR(Joined(k, w))), line |-> <<>>]
    BY <2>1, ScanEnd
  <2>5. Kept(Append(L, Joined(k, dropCR(w)))) = KeepLine(Kept(L), Joined(k, dropCR(w)))
    BY <1>2, <2>3, KeptFolds
  <2>6. Append(L, Joined(k, dropCR(w))) \in Seq(Seq(C))
    BY <1>2, <2>3, AppendProperties
  <2>. QED  BY <2>2, <2>3, <2>4, <2>5, <2>6 DEF KeepLine
<1>. HIDE DEF L
<1>5. CASE ~Contains(v, NL)
  <2>1. SavedValue(v) = dropCR(v)
    BY <1>5 DEF SavedValue, Before, Index
  <2>. DEFINE M == Append(L, Joined(k, dropCR(v)))
  <2>2. /\ Scan(t \o Written(p)) = [lines |-> M, line |-> <<>>]
        /\ Kept(M) = Append(Kept(L), Joined(k, dropCR(v)))
    BY <1>1, <1>3, <1>4, <1>5
  <2>. HIDE DEF M
  <2>. QED  BY <2>1, <2>2 DEF L, k, v
<1>6. CASE Contains(v, NL)
  <2>. DEFINE w == Front(v)
              M == Append(L, Joined(k, dropCR(w)))
  <2>1. v # <<>> /\ Len(v) \in Nat \ {0}
    <3>1. PICK i \in 1 .. Len(v) : v[i] = NL
      BY <1>1, <1>6, Containing
    <3>2. Len(v) \in Nat
      BY <1>1, LenProperties
    <3>. QED  BY <3>1, <3>2, EmptySeq
  <2>2. w \in Seq(C) /\ v = Append(w, Last(v))
    BY <1>1, <2>1, SnocOf
  <2>3. v[Len(v)] = NL
    BY <1>1, <1>3, <1>6, <2>1, Containing DEF Short
  <2>4. v = Append(w, NL) /\ Len(v) = Len(w) + 1
    BY <2>2, <2>3, AppendProperties DEF Last
  <2>5. ~Contains(w, NL)
    <3>1. Len(w) \in Nat /\ Len(v) - 1 = Len(w) /\ \A i \in 1 .. Len(w) : v[i] = w[i]
      BY <2>2, <2>4, AppendProperties, LenProperties
    <3>2. \A i \in 1 .. Len(w) : w[i] # NL
      BY <1>3, <3>1 DEF Short
    <3>. QED  BY <2>2, <3>2, Containing
  <2>6. SavedValue(v) = dropCR(w)
    <3>1. Index(v, NL) = Len(v)
      <4>1. Len(v) \in 1 .. Len(v)
        BY <1>1, <2>1, EmptySeq, LenProperties
      <4>2. \A j \in 1 .. Len(v) - 1 : v[j] # NL
        BY <1>3 DEF Short
      <4>. QED  BY <1>1, <2>3, <4>1, <4>2, IndexIs
    <3>2. Before(v, NL) = w
      BY <2>1, <3>1 DEF Before, Front
    <3>. QED  BY <3>2 DEF SavedValue
  <2>. HIDE DEF w
  <2>7. /\ Scan(t \o Append(Joined(k, w), NL)) = [lines |-> M, line |-> <<>>]
        /\ M \in Seq(Seq(C)) /\ Kept(M) = Append(Kept(L), Joined(k, dropCR(w)))
    BY <1>4, <2>2, <2>5
  <2>. HIDE DEF M
  <2>8. Joined(k, w) \in Seq(C) /\ Joined(k, v) = Append(Joined(k, w), NL)
    <3>1. k \o <<SP>> \in Seq(C)
      BY <1>1
    <3>. QED  BY <1>1, <2>2, <2>4, <3>1, ConcatAppend, Joins DEF Joined
  <2>9. /\ t \o Append(Joined(k, w), NL) \in Seq(C)
        /\ t \o Written(p) = Append(t \o Append(Joined(k, w), NL), NL)
    BY <1>3, <2>8, ConcatAppend, ConcatProperties, AppendProperties
  <2>10. Scan(t \o Written(p)) = ScanChar([lines |-> M, line |-> <<>>], NL)
    BY <2>7, <2>9, ScanFolds
  <2>11. Scan(t \o Written(p)) = [lines |-> Append(M, <<>>), line |-> <<>>]
    BY <2>10 DEF ScanChar, dropCR
  <2>12. Kept(Append(M, <<>>)) = Kept(M)
    BY <1>1, <2>7, KeptFolds DEF KeepLine, Skipped
  <2>. QED  BY <2>6, <2>7, <2>11, <2>12 DEF L, k, v
<1>. QED  BY <1>5, <1>6

\* What a Conf is after a save and a load.
Saved(c) == [i \in DOMAIN c |-> Param(c[i].key, SavedValue(c[i].value))]

\* The lines read of a Conf that was written.
LEMMA EncodeKept ==
  ASSUME NEW C, SP \in C, NL \in C, NEW c \in Conf(Seq(C)),
         \A i \in 1 .. Len(c) : CleanKey(c[i].key) /\ Short(c[i].value)
  PROVE  /\ Scan(Encode(c)).line = <<>>
         /\ Kept(Scan(Encode(c)).lines)
              = [i \in 1 .. Len(c) |-> Joined(c[i].key, SavedValue(c[i].value))]
<1>. DEFINE J(i) == Joined(c[i].key, SavedValue(c[i].value))
            Q(n) == /\ Scan(Encode(SubSeq(c, 1, n))).line = <<>>
                    /\ Kept(Scan(Encode(SubSeq(c, 1, n))).lines) = [i \in 1 .. n |-> J(i)]
            S == {n \in 0 .. Len(c) : Q(n)}
<1>1. /\ Len(c) \in Nat /\ c \in Seq(Parameter(Seq(C)))
      /\ \A i \in 1 .. Len(c) : c[i] \in Parameter(Seq(C))
  BY LenProperties, ElementOfSeq DEF Conf
<1>2. Q(0)
  <2>1. SubSeq(c, 1, 0) = <<>> /\ [i \in 1 .. 0 |-> J(i)] = <<>>
    BY <1>1
  <2>2. Scan(<<>>) = Start
    BY ScanFolds, Zenon
  <2>3. Encode(<<>>) = <<>>
    BY EncodeEnds, Zenon
  <2>4. Kept(<<>>) = <<>>
    BY KeptFolds, Zenon
  <2>5. Scan(Encode(SubSeq(c, 1, 0))) = Start
    BY <2>1, <2>2, <2>3
  <2>6. Start.line = <<>> /\ Start.lines = <<>>
    BY DEF Start
  <2>. QED  BY <2>1, <2>4, <2>5, <2>6
<1>3. ASSUME NEW n \in 0 .. Len(c) - 1, Q(n) PROVE Q(n + 1)
  <2>. DEFINE s == SubSeq(c, 1, n)
              p == c[n + 1]
  <2>1. n + 1 \in 1 .. Len(c) /\ n \in Nat
    BY <1>1
  <2>2. s \in Conf(Seq(C)) /\ p \in Parameter(Seq(C)) /\ SubSeq(c, 1, n + 1) = Append(s, p)
    BY <1>1, <2>1 DEF Conf
  <2>3. CleanKey(p.key) /\ Short(p.value)
    BY <2>1
  <2>4. /\ Scan(Encode(s)).line = <<>>
        /\ Kept(Scan(Encode(s)).lines) = [i \in 1 .. n |-> J(i)]
    BY <1>3
  <2>5. Joined(p.key, SavedValue(p.value)) = J(n + 1)
    OBVIOUS
  <2>. HIDE DEF s, p, J
  <2>6. Encode(s) \in Seq(C) /\ Encode(Append(s, p)) = Encode(s) \o Written(p)
    BY <2>2, EncodeEnds
  <2>7. /\ Scan(Encode(Append(s, p))).line = <<>>
        /\ Kept(Scan(Encode(Append(s, p))).lines) = Append([i \in 1 .. n |-> J(i)], J(n + 1))
    BY <2>2, <2>3, <2>4, <2>5, <2>6, WrittenKept
  <2>8. Append([i \in 1 .. n |-> J(i)], J(n + 1)) = [i \in 1 .. n + 1 |-> J(i)]
    BY <2>1
  <2>. QED  BY <2>2, <2>7, <2>8
<1>4. Q(Len(c))
  <2>. HIDE DEF Q
  <2>1. 0 \in S /\ \A n \in 0 .. Len(c) - 1 : n \in S => n + 1 \in S
    BY <1>1, <1>2, <1>3
  <2>. HIDE DEF S
  <2>2. 0 .. Len(c) \subseteq S
    BY <1>1, <2>1, UpTo
  <2>. QED  BY <1>1, <2>2 DEF S
<1>5. SubSeq(c, 1, Len(c)) = c
  BY <1>1, SubSeqFull
<1>. QED  BY <1>4, <1>5

\* What is left of a value holds characters of the value.
LEMMA SavedValueSeq == ASSUME NEW C, NEW v \in Seq(C) PROVE SavedValue(v) \in Seq(C)
<1>1. Before(v, NL) \in Seq(C)
  <2>1. CASE Contains(v, NL)
    <3>1. Index(v, NL) \in 1 .. Len(v) /\ Len(v) \in Nat
      BY <2>1, IndexFound, LenProperties
    <3>. HIDE DEF Index
    <3>. QED  BY <3>1 DEF Before
  <2>2. CASE ~Contains(v, NL)
    BY <2>2 DEF Before, Index
  <2>. QED  BY <2>1, <2>2
<1>. QED  BY <1>1, dropCRSeq DEF SavedValue

\* A Conf that is saved and loaded has the parameters it had, in their order,
\* each with the first line of its value.  ConfigMigrator takes this as the
\* effect of Save.
LEMMA SavedAndLoaded ==
  ASSUME NEW C, SP \in C, NL \in C, NEW c \in Conf(Seq(C)),
         \A i \in 1 .. Len(c) : CleanKey(c[i].key) /\ Short(c[i].value)
  PROVE  decode(Encode(c)) = Saved(c)
<1>. DEFINE t == Encode(c)
            J(i) == Joined(c[i].key, SavedValue(c[i].value))
            lines == [i \in 1 .. Len(c) |-> J(i)]
<1>1. /\ Len(c) \in Nat /\ DOMAIN c = 1 .. Len(c)
      /\ \A i \in 1 .. Len(c) : c[i].key \in Seq(C) /\ c[i].value \in Seq(C)
  <2>1. c \in Seq(Parameter(Seq(C)))
    BY DEF Conf
  <2>2. \A i \in 1 .. Len(c) : c[i] \in Parameter(Seq(C))
    BY <2>1, ElementOfSeq
  <2>. QED  BY <2>1, <2>2, LenProperties DEF Parameter
<1>2. Scan(t).line = <<>> /\ Kept(Scan(t).lines) = lines
  BY EncodeKept
<1>3. FoldLeft(KeepLine, <<>>, ScanLines(t)) = lines
  BY <1>2 DEF ScanLines, Kept
<1>4. ASSUME NEW i \in 1 .. Len(c)
      PROVE  /\ Contains(J(i), SP)
             /\ parseParam(J(i)) = Param(c[i].key, SavedValue(c[i].value))
  BY <1>1, JoinSplits, SavedValueSeq DEF CleanKey
<1>. HIDE DEF J
<1>5. DOMAIN lines = 1 .. Len(c) /\ \A i \in 1 .. Len(c) : lines[i] = J(i)
  OBVIOUS
<1>. HIDE DEF lines, t
<1>6. decode(t) = [n \in 1 .. Len(c) |-> parseParam(lines[n])]
  BY <1>3, <1>4, <1>5 DEF decode
<1>7. decode(t) = [n \in 1 .. Len(c) |-> Param(c[n].key, SavedValue(c[n].value))]
  BY <1>4, <1>5, <1>6
<1>. QED  BY <1>1, <1>7 DEF Saved, t

(* ---------- Conf, decode and Encode ------------------------------------- *)

\* The elements of a Conf.
LEMMA ConfElements ==
  ASSUME NEW C, NEW c \in Conf(Seq(C))
  PROVE  /\ Len(c) \in Nat /\ DOMAIN c = 1 .. Len(c)
         /\ \A i \in DOMAIN c : /\ c[i] \in Parameter(Seq(C)) /\ c[i] = Param(c[i].key, c[i].value)
                                /\ c[i].key \in Seq(C) /\ c[i].value \in Seq(C)
<1>1. c \in Seq(Parameter(Seq(C)))
  BY DEF Conf
<1>2. \A i \in 1 .. Len(c) : c[i] \in Parameter(Seq(C))
  BY <1>1, ElementOfSeq
<1>. QED  BY <1>1, <1>2, LenProperties DEF Parameter, Param

\* A clean value survives a save.
LEMMA CleanIsSaved ==
  ASSUME NEW C, NEW v \in Seq(C), CleanValue(v)
  PROVE  Short(v) /\ SavedValue(v) = v
<1>1. Len(v) \in Nat
  BY LenProperties
<1>2. Short(v)
  BY <1>1, Containing DEF CleanValue, Short
<1>3. SavedValue(v) = v
  BY DEF CleanValue, SavedValue, Before, Index, dropCR
<1>. QED  BY <1>2, <1>3

\* The two parts of a line that decode has kept.
LEMMA LineParts ==
  ASSUME NEW C, NEW l \in Seq(C \ {NL}), ~Skipped(l), Contains(l, SP)
  PROVE  /\ Before(l, SP) \in Seq(C) /\ CleanKey(Before(l, SP))
         /\ After(l, SP) \in Seq(C) /\ ~Contains(After(l, SP), NL)
<1>. DEFINE i == Index(l, SP)
            k == SubSeq(l, 1, i - 1)
            v == SubSeq(l, i + 1, Len(l))
<1>1. /\ i \in 1 .. Len(l) /\ l[i] = SP /\ \A j \in 1 .. i - 1 : l[j] # SP
      /\ Len(l) \in Nat /\ \A j \in 1 .. Len(l) : l[j] \in C /\ l[j] # NL
  BY IndexFound, LenProperties, ElementOfSeq
<1>2. Before(l, SP) = k /\ After(l, SP) = v
  BY <1>1 DEF Before, After
<1>3. i # 1 /\ l[1] \notin {HASH, SP, TAB}
  BY <1>1 DEF Skipped
<1>. HIDE DEF i
<1>4. k \in Seq(C) /\ Len(k) = i - 1 /\ \A j \in 1 .. i - 1 : k[j] = l[j]
  BY <1>1
<1>5. v \in Seq(C) /\ Len(v) = Len(l) - i /\ \A j \in 1 .. Len(l) - i : v[j] = l[i + j]
  BY <1>1
<1>. HIDE DEF k, v
<1>6. ~Contains(v, NL)
  BY <1>1, <1>5, Containing
<1>7. ~Contains(k, NL) /\ ~Contains(k, SP)
  BY <1>1, <1>4, Containing
<1>8. ~Skipped(k)
  <2>1. k # <<>> /\ k[1] = l[1]
    BY <1>1, <1>3, <1>4, EmptySeq
  <2>. QED  BY <1>3, <2>1 DEF Skipped
<1>. QED  BY <1>2, <1>4, <1>5, <1>6, <1>7, <1>8 DEF CleanKey

\* Whatever text decode accepts, no key it reads has a character that would
\* change where its line is split, and no value a newline.
LEMMA DecodeShape ==
  ASSUME NEW C, NEW t \in Seq(C), decode(t) # LoadError
  PROVE  /\ decode(t) \in Conf(Seq(C))
         /\ \A i \in DOMAIN decode(t) : /\ CleanKey(decode(t)[i].key)
                                        /\ ~Contains(decode(t)[i].value, NL)
<1>. DEFINE D == Seq(C \ {NL})
            lines == Kept(ScanLines(t))
<1>1. ScanLines(t) \in Seq(D)
  <2>1. Scan(t).lines \in Seq(D) /\ Scan(t).line \in D
    BY ScanFolds DEF Scans
  <2>2. dropCR(Scan(t).line) \in D
    BY <2>1, dropCRSeq
  <2>. HIDE DEF D
  <2>. QED  BY <2>1, <2>2, AppendProperties DEF ScanLines
<1>2. lines \in Seq({l \in D : ~Skipped(l)})
  <2>. HIDE DEF D
  <2>. QED  BY <1>1, KeptFolds
<1>3. /\ Len(lines) \in Nat /\ DOMAIN lines = 1 .. Len(lines)
      /\ \A n \in 1 .. Len(lines) : lines[n] \in D /\ ~Skipped(lines[n])
  <2>. HIDE DEF D, lines
  <2>. QED  BY <1>2, LenProperties, ElementOfSeq
<1>4. /\ \A n \in 1 .. Len(lines) : Contains(lines[n], SP)
      /\ decode(t) = [n \in 1 .. Len(lines) |-> parseParam(lines[n])]
  BY <1>3 DEF decode, Kept
<1>. HIDE DEF lines
<1>5. ASSUME NEW n \in 1 .. Len(lines)
      PROVE  /\ parseParam(lines[n]) \in Parameter(Seq(C))
             /\ CleanKey(parseParam(lines[n]).key) /\ ~Contains(parseParam(lines[n]).value, NL)
  <2>1. /\ Before(lines[n], SP) \in Seq(C) /\ CleanKey(Before(lines[n], SP))
        /\ After(lines[n], SP) \in Seq(C) /\ ~Contains(After(lines[n], SP), NL)
    BY <1>3, <1>4, LineParts
  <2>. QED  BY <2>1 DEF parseParam, Param, Parameter
<1>6. decode(t) \in Seq(Parameter(Seq(C)))
  BY <1>3, <1>4, <1>5
<1>. QED  BY <1>4, <1>5, <1>6 DEF Conf

\* A Conf reads back as it was written exactly when all of it is clean.
LEMMA ReadBack ==
  ASSUME NEW C, SP \in C, NL \in C, NEW c \in Conf(Seq(C)), c # LoadError
  PROVE  decode(Encode(c)) = c <=> \A i \in DOMAIN c : Clean(c[i])
<1>0. /\ Len(c) \in Nat /\ DOMAIN c = 1 .. Len(c)
      /\ \A i \in DOMAIN c : /\ c[i] = Param(c[i].key, c[i].value)
                             /\ c[i].key \in Seq(C) /\ c[i].value \in Seq(C)
  BY ConfElements
<1>1. ASSUME \A i \in DOMAIN c : Clean(c[i])
      PROVE  decode(Encode(c)) = c
  <2>1. \A i \in DOMAIN c : /\ CleanKey(c[i].key) /\ Short(c[i].value)
                            /\ SavedValue(c[i].value) = c[i].value
    BY <1>0, <1>1, CleanIsSaved DEF Clean
  <2>2. decode(Encode(c)) = Saved(c)
    BY <1>0, <2>1, SavedAndLoaded
  <2>3. Saved(c) = [i \in DOMAIN c |-> c[i]]
    BY <1>0, <2>1 DEF Saved
  <2>4. c = [i \in DOMAIN c |-> c[i]]
    BY DEF Conf
  <2>. QED  BY <2>2, <2>3, <2>4
<1>2. ASSUME decode(Encode(c)) = c, NEW i \in DOMAIN c
      PROVE  Clean(c[i])
  <2>1. Encode(c) \in Seq(C)
    BY EncodeEnds
  <2>2. \A j \in DOMAIN c : CleanKey(c[j].key) /\ ~Contains(c[j].value, NL)
    BY <1>2, <2>1, DecodeShape
  <2>3. \A j \in DOMAIN c : Short(c[j].value)
    <3>. SUFFICES ASSUME NEW j \in DOMAIN c PROVE Short(c[j].value)
      OBVIOUS
    <3>. DEFINE v == c[j].value
    <3>1. v \in Seq(C) /\ ~Contains(v, NL)
      BY <1>0, <2>2
    <3>. HIDE DEF v
    <3>2. Len(v) \in Nat
      BY <3>1, LenProperties
    <3>3. Short(v)
      BY <3>1, <3>2, Containing DEF Short
    <3>. QED  BY <3>3 DEF v
  <2>4. c = Saved(c)
    BY <1>0, <1>2, <2>2, <2>3, SavedAndLoaded
  <2>5. c[i].value = SavedValue(c[i].value)
    BY <2>4 DEF Saved, Param
  <2>. DEFINE v == c[i].value
  <2>6. v = dropCR(v) /\ v \in Seq(C) /\ ~Contains(v, NL)
    BY <1>0, <2>2, <2>5 DEF SavedValue, Before, Index
  <2>. HIDE DEF v
  <2>7. v = <<>> \/ Last(v) # CR
    <3>. SUFFICES ASSUME v # <<>>, v = Front(v) PROVE FALSE
      BY <2>6 DEF dropCR
    <3>1. v = Append(Front(v), Last(v)) /\ Last(v) \in C
      BY <2>6, SnocOf
    <3>2. Len(Append(v, Last(v))) = Len(v) + 1 /\ Len(v) \in Nat
      BY <2>6, <3>1, AppendProperties, LenProperties
    <3>. QED  BY <3>1, <3>2
  <2>8. CleanValue(v)
    BY <2>6, <2>7 DEF CleanValue
  <2>. QED  BY <2>2, <2>8 DEF Clean, v
<1>. QED  BY <1>1, <1>2

(* ---------- The line that gives a value for a key ----------------------- *)

\* The line l gives a value for the key k, and that value.
Begins(k, l) == IsPrefix(k \o <<SP>>, l)
Rest(k, l) == SubSeq(l, Len(k) + 2, Len(l))

\* Begins, by positions.
LEMMA BeginsIs ==
  ASSUME NEW C, SP \in C, NEW k \in Seq(C), NEW l \in Seq(C)
  PROVE  Begins(k, l) <=> /\ Len(k) + 1 <= Len(l) /\ l[Len(k) + 1] = SP
                          /\ \A i \in 1 .. Len(k) : l[i] = k[i]
<1>. DEFINE p == k \o <<SP>>
            q == SubSeq(l, 1, Len(p))
<1>1. /\ p \in Seq(C) /\ Len(p) = Len(k) + 1 /\ p[Len(k) + 1] = SP
      /\ \A i \in 1 .. Len(k) : p[i] = k[i]
  OBVIOUS
<1>2. Len(k) \in Nat /\ Len(l) \in Nat
  BY LenProperties
<1>3. Begins(k, l) <=> Len(p) <= Len(l) /\ q = p
  BY DEF Begins, IsPrefix
<1>4. ASSUME Len(p) <= Len(l)
      PROVE  q \in Seq(C) /\ Len(q) = Len(p) /\ \A i \in 1 .. Len(p) : q[i] = l[i]
  <2>. HIDE DEF p
  <2>. QED  BY <1>1, <1>2, <1>4
<1>. HIDE DEF p, q
<1>5. ASSUME Begins(k, l)
      PROVE  /\ Len(k) + 1 <= Len(l) /\ l[Len(k) + 1] = SP
             /\ \A i \in 1 .. Len(k) : l[i] = k[i]
  BY <1>1, <1>2, <1>3, <1>4, <1>5
<1>6. ASSUME Len(k) + 1 <= Len(l), l[Len(k) + 1] = SP, \A i \in 1 .. Len(k) : l[i] = k[i]
      PROVE  Begins(k, l)
  <2>1. Len(q) = Len(p) /\ q \in Seq(C) /\ \A i \in 1 .. Len(p) : q[i] = p[i]
    BY <1>1, <1>2, <1>4, <1>6
  <2>2. q = p
    BY <1>1, <2>1, SeqEqual
  <2>. QED  BY <1>1, <1>3, <1>6, <2>2
<1>. QED  BY <1>5, <1>6

\* Such a line is the line of the key and the value.
LEMMA BeginsJoined ==
  ASSUME NEW C, SP \in C, NEW k \in Seq(C), NEW l \in Seq(C), Begins(k, l)
  PROVE  Rest(k, l) \in Seq(C) /\ l = Joined(k, Rest(k, l))
<1>. DEFINE z == Rest(k, l)
            m == Joined(k, z)
<1>1. /\ Len(k) + 1 <= Len(l) /\ l[Len(k) + 1] = SP
      /\ \A i \in 1 .. Len(k) : l[i] = k[i]
      /\ Len(k) \in Nat /\ Len(l) \in Nat
  BY BeginsIs, LenProperties
<1>2. /\ z \in Seq(C) /\ Len(z) = Len(l) - (Len(k) + 1)
      /\ \A i \in 1 .. Len(z) : z[i] = l[Len(k) + 1 + i]
  BY <1>1 DEF Rest
<1>. HIDE DEF z
<1>3. /\ m \in Seq(C) /\ Len(m) = Len(k) + 1 + Len(z) /\ m[Len(k) + 1] = SP
      /\ \A i \in 1 .. Len(k) : m[i] = k[i]
      /\ \A i \in 1 .. Len(z) : m[Len(k) + 1 + i] = z[i]
  <2>1. z \in Seq(C)
    BY <1>2
  <2>. QED  BY <2>1 DEF Joined
<1>. HIDE DEF m
<1>4. ASSUME NEW i \in 1 .. Len(l) PROVE m[i] = l[i]
  <2>1. CASE i > Len(k) + 1
    <3>. DEFINE x == i - (Len(k) + 1)
    <3>1. x \in 1 .. Len(z) /\ i = Len(k) + 1 + x
      BY <1>1, <1>2, <2>1
    <3>. HIDE DEF x
    <3>. QED  BY <1>2, <1>3, <3>1
  <2>2. CASE i \in 1 .. Len(k)
    BY <1>1, <1>3, <2>2
  <2>. QED  BY <1>1, <1>3, <2>1, <2>2
<1>5. Len(m) = Len(l)
  BY <1>1, <1>2, <1>3
<1>6. m = l
  BY <1>3, <1>4, <1>5, SeqEqual
<1>. QED  BY <1>2, <1>6 DEF z, m

\* The line of a key and a value gives that value for the key.
LEMMA JoinedBegins ==
  ASSUME NEW C, SP \in C, NEW k \in Seq(C), NEW z \in Seq(C)
  PROVE  Begins(k, Joined(k, z))
<1>1. /\ Joined(k, z) \in Seq(C) /\ Len(Joined(k, z)) = Len(k) + 1 + Len(z)
      /\ Joined(k, z)[Len(k) + 1] = SP
      /\ \A i \in 1 .. Len(k) : Joined(k, z)[i] = k[i]
  BY DEF Joined
<1>2. Len(k) \in Nat /\ Len(z) \in Nat
  BY LenProperties
<1>. QED  BY <1>1, <1>2, BeginsIs

\* A carriage return at its end makes no difference.
LEMMA BeginsDrop ==
  ASSUME NEW C, SP \in C, NEW k \in Seq(C), NEW l \in Seq(C)
  PROVE  Begins(k, dropCR(l)) <=> Begins(k, l)
<1>0. dropCR(l) \in Seq(C)
  BY dropCRSeq
<1>1. ASSUME Begins(k, l) PROVE Begins(k, dropCR(l))
  <2>. DEFINE z == Rest(k, l)
  <2>1. z \in Seq(C) /\ l = Joined(k, z)
    BY <1>1, BeginsJoined
  <2>. HIDE DEF z
  <2>2. dropCR(l) = Joined(k, dropCR(z)) /\ dropCR(z) \in Seq(C)
    BY <2>1, JoinDrops, dropCRSeq
  <2>. QED  BY <2>2, JoinedBegins
<1>2. ASSUME Begins(k, dropCR(l)) PROVE Begins(k, l)
  <2>1. CASE l # <<>> /\ Last(l) = CR
    <3>1. /\ Front(l) \in Seq(C) /\ l = Append(Front(l), Last(l)) /\ Last(l) \in C
          /\ Begins(k, Front(l))
      BY <1>2, <2>1, SnocOf DEF dropCR
    <3>. DEFINE f == Front(l)
                x == Last(l)
    <3>. HIDE DEF f, x
    <3>2. f \in Seq(C) /\ x \in C /\ l = Append(f, x) /\ Begins(k, f)
      BY <3>1 DEF f, x
    <3>3. Len(l) = Len(f) + 1 /\ Len(f) \in Nat /\ \A i \in 1 .. Len(f) : l[i] = f[i]
      BY <3>2, AppendProperties, LenProperties
    <3>4. /\ Len(k) + 1 <= Len(f) /\ f[Len(k) + 1] = SP
          /\ \A i \in 1 .. Len(k) : f[i] = k[i]
      BY <3>2, BeginsIs
    <3>5. /\ Len(k) + 1 <= Len(l) /\ l[Len(k) + 1] = SP
          /\ \A i \in 1 .. Len(k) : l[i] = k[i]
      BY <3>3, <3>4, LenProperties
    <3>. QED  BY <3>5, BeginsIs
  <2>. QED  BY <1>2, <2>1 DEF dropCR
<1>. QED  BY <1>1, <1>2

\* parseParam reads the key of such a line, and of no other.
LEMMA BeginsParsed ==
  ASSUME NEW C, SP \in C, NEW k \in Seq(C), ~Contains(k, SP), NEW l \in Seq(C), Contains(l, SP)
  PROVE  /\ Begins(k, l) <=> parseParam(l).key = k
         /\ Begins(k, l) => parseParam(l).value = Rest(k, l)
<1>1. ASSUME Begins(k, l) PROVE parseParam(l).key = k /\ parseParam(l).value = Rest(k, l)
  <2>. DEFINE z == Rest(k, l)
  <2>1. z \in Seq(C) /\ l = Joined(k, z)
    BY <1>1, BeginsJoined
  <2>. HIDE DEF z
  <2>2. parseParam(l) = Param(k, z)
    BY <2>1, JoinSplits
  <2>. QED  BY <2>2 DEF Param, z
<1>2. ASSUME parseParam(l).key = k PROVE Begins(k, l)
  <2>. DEFINE i == Index(l, SP)
  <2>1. i \in 1 .. Len(l) /\ l[i] = SP /\ Len(l) \in Nat
    BY IndexFound, LenProperties
  <2>2. k = SubSeq(l, 1, i - 1)
    BY <1>2, <2>1 DEF parseParam, Param, Before
  <2>. HIDE DEF i
  <2>3. Len(k) = i - 1 /\ \A j \in 1 .. Len(k) : l[j] = k[j]
    BY <2>1, <2>2
  <2>. QED  BY <2>1, <2>3, BeginsIs
<1>. QED  BY <1>1, <1>2

\* No line of s gives a value for k; l is the first that does.
NoHit(k, s) == \A j \in 1 .. Len(s) : ~Begins(k, s[j])
Hit(k, s, l) == \E j \in 1 .. Len(s) : /\ s[j] = l /\ Begins(k, l)
                                       /\ \A i \in 1 .. j - 1 : ~Begins(k, s[i])

\* One line more changes the first line that gives a value only when there
\* was none.
LEMMA HitAppend ==
  ASSUME NEW T, NEW s \in Seq(T), NEW x \in T, NEW k
  PROVE  /\ NoHit(k, Append(s, x)) <=> NoHit(k, s) /\ ~Begins(k, x)
         /\ \A l : Hit(k, Append(s, x), l) <=> Hit(k, s, l) \/ (NoHit(k, s) /\ Begins(k, x) /\ l = x)
<1>. DEFINE a == Append(s, x)
            N == Len(s)
<1>1. N \in Nat /\ Len(a) = N + 1 /\ a[N + 1] = x /\ \A i \in 1 .. N : a[i] = s[i]
  BY AppendProperties, LenProperties
<1>. HIDE DEF a
<1>2. NoHit(k, a) <=> NoHit(k, s) /\ ~Begins(k, x)
  BY <1>1 DEF NoHit
<1>3. ASSUME NEW l, Hit(k, a, l)
      PROVE  Hit(k, s, l) \/ (NoHit(k, s) /\ Begins(k, x) /\ l = x)
  <2>1. PICK j \in 1 .. Len(a) : /\ a[j] = l /\ Begins(k, l)
                                 /\ \A i \in 1 .. j - 1 : ~Begins(k, a[i])
    BY <1>3 DEF Hit
  <2>2. CASE j = N + 1
    BY <1>1, <2>1, <2>2 DEF NoHit
  <2>3. CASE j \in 1 .. N
    <3>1. s[j] = l /\ \A i \in 1 .. j - 1 : ~Begins(k, s[i])
      BY <1>1, <2>1, <2>3
    <3>. QED  BY <2>1, <2>3, <3>1 DEF Hit
  <2>. QED  BY <1>1, <2>2, <2>3
<1>4. ASSUME NEW l, Hit(k, s, l) PROVE Hit(k, a, l)
  <2>1. PICK j \in 1 .. N : /\ s[j] = l /\ Begins(k, l)
                            /\ \A i \in 1 .. j - 1 : ~Begins(k, s[i])
    BY <1>4 DEF Hit
  <2>2. j \in 1 .. Len(a) /\ a[j] = l /\ \A i \in 1 .. j - 1 : ~Begins(k, a[i])
    BY <1>1, <2>1
  <2>. QED  BY <2>1, <2>2 DEF Hit
<1>5. ASSUME NoHit(k, s), Begins(k, x) PROVE Hit(k, a, x)
  <2>1. N + 1 \in 1 .. Len(a) /\ \A i \in 1 .. (N + 1) - 1 : ~Begins(k, a[i])
    BY <1>1, <1>5 DEF NoHit
  <2>. QED  BY <1>1, <1>5, <2>1 DEF Hit
<1>. QED  BY <1>2, <1>3, <1>4, <1>5 DEF a

\* decode skips no line that gives a value for a clean key.
LEMMA KeptHit ==
  ASSUME NEW C, SP \in C, NEW s \in Seq(Seq(C)), NEW k \in Seq(C), CleanKey(k)
  PROVE  /\ NoHit(k, s) => NoHit(k, Kept(s))
         /\ \A l : Hit(k, s, l) => Hit(k, Kept(s), l)
<1>. DEFINE T == Seq(C)
            Q(n) == LET p == SubSeq(s, 1, n)
                    IN  /\ NoHit(k, p) => NoHit(k, Kept(p))
                        /\ \A l : Hit(k, p, l) => Hit(k, Kept(p), l)
            S == {n \in 0 .. Len(s) : Q(n)}
<1>1. Len(s) \in Nat /\ \A i \in 1 .. Len(s) : s[i] \in T
  BY LenProperties, ElementOfSeq
<1>2. ASSUME NEW l \in T, Begins(k, l) PROVE ~Skipped(l)
  <2>1. Rest(k, l) \in T /\ l = Joined(k, Rest(k, l))
    BY <1>2, BeginsJoined
  <2>. QED  BY <2>1, JoinKept
<1>3. Q(0)
  <2>1. SubSeq(s, 1, 0) = <<>> /\ Kept(<<>>) = <<>>
    BY <1>1, KeptFolds
  <2>. QED  BY <2>1
<1>4. ASSUME NEW n \in 0 .. Len(s) - 1, Q(n) PROVE Q(n + 1)
  <2>. DEFINE p == SubSeq(s, 1, n)
              x == s[n + 1]
  <2>1. p \in Seq(T) /\ x \in T /\ SubSeq(s, 1, n + 1) = Append(p, x)
    BY <1>1
  <2>2. /\ NoHit(k, p) => NoHit(k, Kept(p))
        /\ \A l : Hit(k, p, l) => Hit(k, Kept(p), l)
    BY <1>4
  <2>. HIDE DEF p, x, T
  <2>3. Kept(Append(p, x)) = KeepLine(Kept(p), x)
    BY <2>1, KeptFolds
  <2>4. Kept(p) \in Seq(T)
    <3>1. Kept(p) \in Seq({l \in T : ~Skipped(l)})
      BY <2>1, KeptFolds
    <3>. QED  BY <3>1, SeqMonotonic
  <2>5. /\ NoHit(k, Append(p, x)) => NoHit(k, Kept(Append(p, x)))
        /\ \A l : Hit(k, Append(p, x), l) => Hit(k, Kept(Append(p, x)), l)
    <3>1. /\ NoHit(k, Append(p, x)) <=> NoHit(k, p) /\ ~Begins(k, x)
          /\ \A l : Hit(k, Append(p, x), l) <=> Hit(k, p, l) \/ (NoHit(k, p) /\ Begins(k, x) /\ l = x)
      BY <2>1, HitAppend
    <3>2. CASE Skipped(x)
      <4>1. Kept(Append(p, x)) = Kept(p) /\ ~Begins(k, x)
        BY <1>2, <2>1, <2>3, <3>2 DEF KeepLine
      <4>. QED  BY <2>2, <3>1, <4>1, Zenon
    <3>3. CASE ~Skipped(x)
      <4>1. Kept(Append(p, x)) = Append(Kept(p), x)
        BY <2>3, <3>3 DEF KeepLine
      <4>2. /\ NoHit(k, Append(Kept(p), x)) <=> NoHit(k, Kept(p)) /\ ~Begins(k, x)
            /\ \A l : Hit(k, Append(Kept(p), x), l)
                        <=> Hit(k, Kept(p), l) \/ (NoHit(k, Kept(p)) /\ Begins(k, x) /\ l = x)
        BY <2>1, <2>4, HitAppend
      <4>. QED  BY <2>2, <3>1, <4>1, <4>2, Zenon
    <3>. QED  BY <3>2, <3>3
  <2>. QED  BY <2>1, <2>5
<1>5. Q(Len(s))
  <2>. HIDE DEF Q
  <2>1. 0 \in S /\ \A n \in 0 .. Len(s) - 1 : n \in S => n + 1 \in S
    BY <1>1, <1>3, <1>4
  <2>. HIDE DEF S
  <2>2. 0 .. Len(s) \subseteq S
    BY <1>1, <2>1, UpTo
  <2>. QED  BY <1>1, <2>2 DEF S
<1>6. SubSeq(s, 1, Len(s)) = s
  BY SubSeqFull
<1>. QED  BY <1>5, <1>6

\* Get returns the value of the first line that gives one.
LEMMA GetDecoded ==
  ASSUME NEW C, SP \in C, NEW t \in Seq(C), decode(t) # LoadError,
         NEW k \in Seq(C), CleanKey(k)
  PROVE  /\ NoHit(k, ScanLines(t)) => Get(decode(t), k) = <<>>
         /\ \A l : Hit(k, ScanLines(t), l) => Get(decode(t), k) = Rest(k, l)
<1>. DEFINE d == decode(t)
            lines == Kept(ScanLines(t))
<1>1. ScanLines(t) \in Seq(Seq(C))
  <2>1. \A l \in Seq(C \ {NL}) : l \in Seq(C)
    BY SeqMonotonic
  <2>. QED  BY <2>1, ScanLinesSeq, SeqMonotonic
<1>2. lines \in Seq(Seq(C))
  <2>1. lines \in Seq({l \in Seq(C) : ~Skipped(l)})
    BY <1>1, KeptFolds
  <2>. QED  BY <2>1, SeqMonotonic
<1>3. /\ Len(lines) \in Nat /\ DOMAIN lines = 1 .. Len(lines)
      /\ \A n \in 1 .. Len(lines) : lines[n] \in Seq(C)
  <2>. HIDE DEF lines
  <2>. QED  BY <1>2, LenProperties, ElementOfSeq
<1>4. /\ \A n \in 1 .. Len(lines) : Contains(lines[n], SP)
      /\ d = [n \in 1 .. Len(lines) |-> parseParam(lines[n])]
  BY <1>3 DEF decode, Kept
<1>5. /\ NoHit(k, ScanLines(t)) => NoHit(k, lines)
      /\ \A l : Hit(k, ScanLines(t), l) => Hit(k, lines, l)
  BY <1>1, KeptHit
<1>. HIDE DEF lines, d
<1>6. \A n \in 1 .. Len(lines) : /\ Begins(k, lines[n]) <=> d[n].key = k
                                 /\ Begins(k, lines[n]) => d[n].value = Rest(k, lines[n])
  BY <1>3, <1>4, BeginsParsed DEF CleanKey
<1>7. DOMAIN d = 1 .. Len(lines)
  BY <1>4
<1>8. ASSUME NoHit(k, lines) PROVE Get(d, k) = <<>>
  BY <1>6, <1>7, <1>8 DEF NoHit, Get, HasKey
<1>9. ASSUME NEW l, Hit(k, lines, l) PROVE Get(d, k) = Rest(k, l)
  <2>1. PICK j \in 1 .. Len(lines) : /\ lines[j] = l /\ Begins(k, l)
                                     /\ \A i \in 1 .. j - 1 : ~Begins(k, lines[i])
    BY <1>9 DEF Hit
  <2>2. d[j].key = k /\ d[j].value = Rest(k, l) /\ \A i \in 1 .. j - 1 : d[i].key # k
    BY <1>3, <1>6, <2>1
  <2>3. First(d, k) = j
    <3>1. \A m \in DOMAIN d : d[m].key = k /\ (\A i \in 1 .. m - 1 : d[i].key # k) => m = j
      BY <1>3, <1>7, <2>2
    <3>. QED  BY <1>7, <2>2, <3>1 DEF First
  <2>. QED  BY <1>7, <2>2, <2>3 DEF Get, HasKey
<1>. QED  BY <1>5, <1>8, <1>9 DEF d
=============================================================================

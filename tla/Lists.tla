------------------------------- MODULE Lists -------------------------------
(***************************************************************************)
(* The operators on sequences that the specifications share, over the      *)
(* community modules for sets and folds.  They are those of SequencesExt,  *)
(* which cannot be extended itself by a module that is proved about: it    *)
(* extends Bags, and with it tlapm carries hundreds of library theorems    *)
(* through every obligation and gives up on the larger ones.               *)
(***************************************************************************)
EXTENDS Integers, Sequences, FiniteSetsExt, TLC

Last(s) == s[Len(s)]
Front(s) == SubSeq(s, 1, Len(s) - 1)
Reverse(s) == [i \in 1 .. Len(s) |-> s[Len(s) - i + 1]]

Contains(s, e) == e \in Range(s)
IsPrefix(s, t) == Len(s) <= Len(t) /\ SubSeq(t, 1, Len(s)) = s

\* The first position of e, 0 when there is none
Index(s, e) == IF Contains(s, e) THEN Min({i \in DOMAIN s : s[i] = e}) ELSE 0

\* op(...op(op(base, s[1]), s[2])..., Last(s))
FoldLeft(op(_, _), base, s) ==
  LET f[n \in 0 .. Len(s)] == IF n = 0 THEN base ELSE op(f[n - 1], s[n])
  IN  f[Len(s)]

FlattenSeq(seqs) == FoldLeft(\o, <<>>, seqs)

\* m[k] = v, for a map m
Put(m, k, v) == [x \in DOMAIN m \cup {k} |-> IF x = k THEN v ELSE m[x]]
=============================================================================

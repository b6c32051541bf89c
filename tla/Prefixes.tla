------------------------------- MODULE Prefixes -------------------------------
(***************************************************************************)
(* The ends and the prefixes of sequences: four operators of SequencesExt, *)
(* whose other operators and the bags under them every proof about a path  *)
(* would have to carry along.                                              *)
(***************************************************************************)
EXTENDS Integers, Sequences

Last(s) == s[Len(s)]
Front(s) == SubSeq(s, 1, Len(s) - 1)

IsPrefix(s, t) == Len(s) <= Len(t) /\ s = SubSeq(t, 1, Len(s))
IsStrictPrefix(s, t) == IsPrefix(s, t) /\ s # t
=============================================================================

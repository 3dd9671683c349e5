---------------------------- MODULE SequenceEnds ----------------------------
(***************************************************************************)
(* The last element of a sequence, the others, and the removal of an       *)
(* element.  SequencesExt has these operators as well, but it extends Bags *)
(* and TLC, and every obligation of a proof carries the definitions of all *)
(* modules below it: with this module the proofs about listeners take a    *)
(* fifth of the time.                                                      *)
(***************************************************************************)
EXTENDS Integers, Sequences

Last(s) == s[Len(s)]

Front(s) == SubSeq(s, 1, Len(s) - 1)

WithoutIndexed(s, i) == SubSeq(s, 1, i - 1) \o SubSeq(s, i + 1, Len(s))

\* the sequence itself when x does not occur in it
RemoveFirst(s, x) ==
  IF \E i \in DOMAIN s : s[i] = x
    THEN WithoutIndexed(s, CHOOSE i \in DOMAIN s : s[i] = x /\ \A j \in 1..(i - 1) : s[j] # x)
    ELSE s
=============================================================================

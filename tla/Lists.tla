------------------------------- MODULE Lists -------------------------------
(***************************************************************************)
(* Operators on sequences, with the names and meanings that they have in   *)
(* SequencesExt.  That module extends Bags, whose definitions would make   *)
(* every proof about a module that extends it several times as long to     *)
(* check.                                                                  *)
(***************************************************************************)
EXTENDS Integers, Sequences, FiniteSetsExt, Functions

Last(seq) == seq[Len(seq)]

Front(seq) == SubSeq(seq, 1, Len(seq) - 1)

Reverse(seq) == [i \in 1 .. Len(seq) |-> seq[Len(seq) + 1 - i]]

\* The position of the first element for which Test holds, or 0.
SelectInSeq(seq, Test(_)) ==
    LET at == {i \in 1 .. Len(seq) : Test(seq[i])} IN IF at = {} THEN 0 ELSE Min(at)

\* The sequences in seqs, end to end.
FlattenSeq(seqs) ==
    LET upto[n \in 0 .. Len(seqs)] == IF n = 0 THEN <<>> ELSE upto[n - 1] \o seqs[n]
    IN  upto[Len(seqs)]

=============================================================================

------------------------------- MODULE Filter -------------------------------
(***************************************************************************)
(* The loop by which the code drops elements of a list: those that stay    *)
(* are appended, in their order, to a list that starts out empty.  It is a *)
(* recursive function and not SelectSeq, of which the provers know nothing. *)
(***************************************************************************)
EXTENDS Naturals, Sequences

\* The elements of seq that are in S.
Keep(seq, S) ==
  LET kept[n \in 0..Len(seq)] ==
        IF n = 0 THEN << >>
        ELSE IF seq[n] \in S THEN Append(kept[n - 1], seq[n]) ELSE kept[n - 1]
  IN  kept[Len(seq)]
=============================================================================

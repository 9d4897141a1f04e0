-------------------------------- MODULE Folding --------------------------------
(***************************************************************************)
(* FoldLeft by halves: the result is that of SequencesExt, and the nesting  *)
(* of its evaluation grows with the logarithm of the length, since the left *)
(* half is a value (the IF asks for it) before the right half starts.       *)
(***************************************************************************)
EXTENDS Integers, Sequences

FoldByHalves(op(_, _), base, seq) ==
  LET RECURSIVE Between(_, _, _)
      Between(acc, i, j) ==
        LET m == (i + j) \div 2
            left == Between(acc, i, m)
        IN IF i > j THEN acc
           ELSE IF i = j THEN op(acc, seq[i])
           ELSE IF <<left>> = <<>> THEN left ELSE Between(left, m + 1, j)
  IN Between(base, 1, Len(seq))
===============================================================================

-------------------------------- MODULE Sums --------------------------------
(***************************************************************************)
(* What is added up, or doubled, in a loop: by recursion on numbers.       *)
(***************************************************************************)
EXTENDS Integers, Sequences

\* The sum of a sequence of integers.
SumOf(seq) ==
    LET sum[k \in 0 .. Len(seq)] == IF k = 0 THEN 0 ELSE sum[k - 1] + seq[k]
    IN sum[Len(seq)]

\* 2 ^ n times x.
Doubled(x, n) ==
    LET doubled[k \in 0 .. n] == IF k = 0 THEN x ELSE 2 * doubled[k - 1]
    IN doubled[n]
=============================================================================

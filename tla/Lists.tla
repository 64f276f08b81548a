--------------------------------- MODULE Lists ---------------------------------
(***************************************************************************)
(* What the services do with lists over and over: adding up a figure of    *)
(* all elements (sum) and keeping some elements in their order (list       *)
(* comprehensions with a condition, loops that skip with continue).        *)
(***************************************************************************)
EXTENDS Integers, Sequences

\* The sum of a list of numbers.
SumOf(seq) ==
  LET sum[n \in 0 .. Len(seq)] == IF n = 0 THEN 0 ELSE sum[n - 1] + seq[n]
  IN sum[Len(seq)]

\* The elements at the indices in kept.
Picked(seq, kept) ==
  LET upTo[n \in 0 .. Len(seq)] ==
        IF n = 0 THEN << >>
        ELSE IF n \in kept THEN Append(upTo[n - 1], seq[n])
        ELSE upTo[n - 1]
  IN upTo[Len(seq)]
=============================================================================

-------------------------------- MODULE Lists --------------------------------
(***************************************************************************)
(* Lists that the modules take apart: the entries a loop keeps, the bytes  *)
(* it counts.  (The community modules have operators for this; here they   *)
(* are recursive functions, so that Lists_proofs can say what they do.)    *)
(***************************************************************************)
EXTENDS Integers, Sequences

\* The entries of s that are in S, in their order.
Filtered(s, S) ==
    LET kept[n \in 0 .. Len(s)] ==
          IF n = 0 THEN <<>>
          ELSE IF s[n] \in S THEN Append(kept[n - 1], s[n]) ELSE kept[n - 1]
    IN kept[Len(s)]

\* The sum of a list of numbers.
Summed(s) ==
    LET sum[n \in 0 .. Len(s)] == IF n = 0 THEN 0 ELSE sum[n - 1] + s[n]
    IN sum[Len(s)]

\* The lists of a list, one after the other.
Chained(s) ==
    LET all[n \in 0 .. Len(s)] == IF n = 0 THEN <<>> ELSE all[n - 1] \o s[n]
    IN all[Len(s)]

=============================================================================

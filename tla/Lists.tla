------------------------------- MODULE Lists --------------------------------
(***************************************************************************)
(* The loop that goes over a list and keeps some of its items, in order.   *)
(***************************************************************************)
EXTENDS Naturals, Sequences

(* The items of s at the positions in at.                                  *)
Picked(s, at) ==
    LET out[k \in 0..Len(s)] ==
          IF k = 0 THEN << >>
          ELSE IF k \in at THEN Append(out[k - 1], s[k])
          ELSE out[k - 1]
    IN  out[Len(s)]
=============================================================================

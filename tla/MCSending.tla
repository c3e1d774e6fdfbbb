----------------------------- MODULE MCSending -----------------------------
(***************************************************************************)
(* Sending with a small attachment, two large ones, and a file that cannot *)
(* be read.                                                                *)
(***************************************************************************)
EXTENDS Sending

CONSTANTS small, missing, large, larger

SmallOnes == {small, missing}
LargeOnes == {large, larger}
MissingOne == {missing}
AllSizes == SmallOnes \cup LargeOnes

\* In chunks of two, one ends in a short chunk and one in a full one.
Sizes == [a \in LargeOnes |-> IF a = large THEN 3 ELSE 4]

=============================================================================

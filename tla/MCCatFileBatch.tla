--------------------------- MODULE MCCatFileBatch ---------------------------
(* Instances of CatFileBatch for TLC. *)
EXTENDS CatFileBatch, TLC

CONSTANTS q1, q2, q3

\* One revision of each kind that the helper treats differently.
MCAnswer == (q1 :> "object") @@ (q2 :> "missing") @@ (q3 :> "huge")

MCAnswer2 == (q1 :> "object") @@ (q2 :> "object")
=============================================================================

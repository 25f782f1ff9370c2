----------------------------- MODULE MCLruRing ------------------------------
(***************************************************************************)
(* An instance of LruRing for TLC.                                         *)
(***************************************************************************)
EXTENDS LruRing, TLC

CONSTANTS k1, k2, k3, v0, v1, v2, v4

\* Values of no size, of the size of a part, and of more than the whole cache.
MCEntrySize ==
  LET size == (v0 :> 0) @@ (v1 :> 1) @@ (v2 :> 2) @@ (v4 :> 4) IN
  [kv \in Keys \X Values |-> size[kv[2]]]

=============================================================================

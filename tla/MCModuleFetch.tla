--------------------------- MODULE MCModuleFetch ----------------------------
(* Instances of ModuleFetch for TLC. *)
EXTENDS ModuleFetch, TLC

CONSTANTS p1, p2

OneProxy == <<p1>>
TwoProxies == <<p1, p2>>

MCSymmetry == Permutations(Callers)
=============================================================================

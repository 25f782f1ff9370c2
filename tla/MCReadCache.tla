---------------------------- MODULE MCReadCache -----------------------------
(* Instances of ReadCache for TLC. *)
EXTENDS ReadCache, TLC

CONSTANTS h1, h2, h3, b1, b2, b3, b4

\* Two files share a blob and a third is empty; the status file may have any
\* contents, among them a blob that is larger than the whole cache.
MCContents == (h1 :> b1) @@ (h2 :> b1) @@ (h3 :> b2)
MCSize == (b1 :> 2) @@ (b2 :> 0) @@ (b3 :> 4) @@ (b4 :> 1)

=============================================================================

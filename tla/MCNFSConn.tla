----------------------------- MODULE MCNFSConn ------------------------------
(* Instances of NFSConn for TLC. *)
EXTENDS NFSConn, TLC

CONSTANTS r1, r2, r3, r4, r5, r6

\* A request in one fragment and three in two, a record that is too large with
\* its second fragment, and one that is too short for a header.
MCFragments ==
  (r1 :> <<2>>) @@ (r2 :> <<1, 1>>) @@ (r3 :> <<1, 1>>) @@ (r4 :> <<1, 2>>) @@ (r5 :> <<1>>)
  @@ (r6 :> <<1, 1>>)

=============================================================================

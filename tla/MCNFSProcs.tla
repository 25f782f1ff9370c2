----------------------------- MODULE MCNFSProcs -----------------------------
(* A directory "mod" of a module with three files, in a root with an open set. *)
EXTENDS NFSProcs, TLC

CONSTANTS modDir, fa, fb, fc, openSet

MCNames == {modDir, fa, fb, fc, openSet}
MCDirs == <<>> :> <<openSet, modDir>> @@ <<modDir>> :> <<fa, fb, fc>>

\* Names long enough that a READDIRPLUS of 512 bytes takes one or two of them.
MCNameLen == (modDir :> 3) @@ (fa :> 250) @@ (fb :> 200) @@ (fc :> 250) @@ (openSet :> 16)
MCFileSizes == <<modDir, fa>> :> 0 @@ <<modDir, fb>> :> 3 @@ <<modDir, fc>> :> 1
MCInZip == {<<modDir>>}
MCNoRoom == {}
MCRoom == {<<modDir>>}
MCMasks == {{}, {"READ", "MODIFY", "DELETE"}}
=============================================================================

---------------------------- MODULE MCRemoteStore ----------------------------
(* Two modules: one with files two directories deep, in directories that hold *)
(* no file themselves, and one with no files at all.                          *)
EXTENDS RemoteStore, TLC

CONSTANTS m1, m2

MCMods == {m1, m2}
MCToolchains == {m2}
MCTree ==
  m1 :> (<<>> :> [d |-> "dir", f |-> "file"] @@ <<"d">> :> [e |-> "dir"]
         @@ <<"d", "e">> :> [f |-> "file"])
  @@ m2 :> (<<>> :> <<>>)
=============================================================================

----------------------------- MODULE MCFileTree -----------------------------
(* Three module versions: one with an upper-case letter in its path, one with *)
(* one in its version, and a toolchain.  Each has a file of the same name, and *)
(* two have a dot file; one file is larger than the cache by path.             *)
EXTENDS FileTree, TLC

MCPiece == STRING
f == <<"f">>
d == <<"d">>
x == <<".", "x">>
m1 == [mod |-> <<<<"a">>, <<"B">>>>, ver |-> <<"v1">>]
m2 == [mod |-> <<<<"a">>>>, ver |-> <<"v1-R">>]
tsgo == [mod |-> TailscaleGo, ver |-> TSGoVersion("linux", "amd64", "h")]

MCFiles == m1 :> {<<f>>, <<d, x>>} @@ m2 :> {<<f>>} @@ tsgo :> {<<f>>, <<x>>}
MCSize(p) == IF p = <<f>> THEN 1 ELSE 1 + Len(p)
MCUnescaped == ("!b" :> "B" @@ "v1-!r" :> "v1-R")
MCPlatforms == {<<"linux", "amd64">>}
MCNames ==
  {cache, download, atV, statusFile, hello, f, d, x, <<"a">>, <<"!b">>, <<"B">>,
   <<"a", "@", "v1-!r">>, <<"a", "@", "v1">>, <<"!b", "@", "v1">>, <<"B", "@", "v1">>,
   <<"v1", ".", "mod">>, <<"v1-!r", ".", "info">>, <<"v1", ".", "tmp">>, <<"v1", ".", "lock">>,
   <<"v1", ".", "info1", ".", "tmp">>, <<"v1", ".", "partial">>,
   <<"tsgo-", "linux", "-", "amd64">>, <<"tsgo-", "linux", "-", "none">>, <<"tsgo-", "linux">>,
   <<"h">>, <<"h", ".", "extracted">>, <<"g">>, <<"g", ".", "extracted">>,
   <<"H">>, <<"H", ".", "extracted">>, <<"v1-R", ".", "mod">>,
   <<"github.com">>, <<"tailscale">>, <<"go", "@", "tsgo-", "linux", "-", "amd64", "-", "h">>}
=============================================================================

----------------------------- MODULE RemoteStore -----------------------------
(***************************************************************************)
(* The remote store: a read-only gomodfs (remotestore.Store) that gets its *)
(* modules from another gomodfs over HTTP (remotestore.Handler).  The      *)
(* client keeps the file map of every module and every metadata file that  *)
(* it was sent, and shares one request between the callers that want the   *)
(* same (singleflight); the server keeps the compressed file maps that it  *)
(* sent last.  Requests fail at any time, with the network, the server or  *)
(* the context of the caller that made them.                               *)
(*                                                                         *)
(* A path is a sequence of names.  The contents of a file are its path.    *)
(***************************************************************************)
EXTENDS Naturals, Sequences, FiniteSets, Recency

CONSTANTS
  Callers,           \* goroutines of the client
  Mods,              \* module versions
  Toolchains,        \* those of them that are releases of the Tailscale Go toolchain
  Exts,              \* the extensions of metadata files
  Tree,              \* Tree[m][d][n]: "file" or "dir", the entry n of directory d of module m
  MaxCachedModMaps,
  NoMap, NoCaller

Root == <<>>
Keys == ({"modmap"} \cup Exts) \X Mods
Nodes(m) == DOMAIN Tree[m] \cup
            UNION {{Append(d, n) : n \in DOMAIN Tree[m][d]} : d \in DOMAIN Tree[m]}
Paths == UNION {Nodes(m) : m \in Mods}
Names == UNION {UNION {DOMAIN Tree[m][d] : d \in DOMAIN Tree[m]} : m \in Mods}

ASSUME RemoteStoreAssumption ==
  /\ MaxCachedModMaps \in Nat \ {0}
  /\ Exts \cap {"modmap", "file", "none"} = {}
  /\ NoCaller \notin Callers

VARIABLES
  readOnly, \* FS.ReadOnly of the server
  have,     \* the keys in the store of the server
  modmapLZ, \* handler.modmapLZ: modules, the one used last first
  modmaps,  \* modmaps[m]: Store.modmaps, the paths of the files or NoMap
  meta,     \* the keys in Store.meta
  flight,   \* flight[k]: the caller that leads the flight of key k in Store.sf
  call      \* call[c]: the call of goroutine c

vars == <<readOnly, have, modmapLZ, modmaps, meta, flight, call>>

\* A result: how it went and, of a file, its contents.
Is(status) == [status |-> status, data |-> Root]
Data(p) == [status |-> "ok", data |-> p]

Init ==
  /\ readOnly \in BOOLEAN
  /\ have \in SUBSET Keys
  /\ modmapLZ = <<>>
  /\ modmaps = [m \in Mods |-> NoMap]
  /\ meta = {}
  /\ flight = [k \in Keys |-> NoCaller]
  /\ call = [c \in Callers |-> [at |-> "done", key |-> <<"none", "none">>, path |-> Root, result |-> Is("none")]]

At(c) == call[c].at
Mod(c) == call[c].key[2]
Kind(c) == call[c].key[1]
Moved(c, at, result) == [at |-> at, key |-> call[c].key, path |-> call[c].path, result |-> result]
Goto(c, at) == call' = [call EXCEPT ![c] = Moved(c, at, call[c].result)]
Replied(c, result) == call' = [call EXCEPT ![c] = Moved(c, "replied", result)]

-----------------------------------------------------------------------------
(* What the store of the server answers; gitstore, in CatFileBatch and ModuleFetch. *)

StoreStat(m, p) ==
  IF p \in DOMAIN Tree[m] THEN "dir" ELSE IF p \in Nodes(m) THEN "file" ELSE "notexist"

\* The entries, in a set that is empty if the directory does not exist.
StoreReaddir(m, d) == IF d \in DOMAIN Tree[m] THEN {Tree[m][d]} ELSE {}

StoreGetFile(m, p) ==
  CASE StoreStat(m, p) = "file" -> Data(p)
    [] StoreStat(m, p) = "dir" -> Is("isdir")
    [] OTHER -> Is("notexist")

-----------------------------------------------------------------------------
(* The file map and what the client makes of it *)

\* walkFiles: the files, in all the directories.  Directories are implicit.
WalkFiles(m) == {p \in Nodes(m) : StoreStat(m, p) = "file"}

\* p is in directory d, or further down.
Below(p, d) == Len(p) > Len(d) /\ SubSeq(p, 1, Len(d)) = d

\* The store builds a tree from the files of a zip: a directory is there because of a
\* file below it, except for the root, and a node is an entry of its parent.
ASSUME TreeAssumption ==
  \A m \in Mods :
    /\ Root \in DOMAIN Tree[m]
    /\ \A d \in DOMAIN Tree[m] :
         /\ Tree[m][d] = [n \in DOMAIN Tree[m][d] |->
                            IF Append(d, n) \in DOMAIN Tree[m] THEN "dir" ELSE "file"]
         /\ d = Root \/ \E p \in WalkFiles(m) : Below(p, d)
    /\ \A p \in Nodes(m) :
         /\ p \in Seq(Names)
         /\ \A i \in 0..(Len(p) - 1) : /\ SubSeq(p, 1, i) \in DOMAIN Tree[m]
                                       /\ p[i + 1] \in DOMAIN Tree[m][SubSeq(p, 1, i)]
    /\ WalkFiles(m) # NoMap

\* Mutant: only the directories that files are in are entered, not their parents.
ParentsOnly(files) ==
  [d \in {SubSeq(p, 1, Len(p) - 1) : p \in files} |->
     [n \in {p[Len(p)] : p \in {q \in files : SubSeq(q, 1, Len(q) - 1) = d}} |-> "file"]]

\* buildDirMap: the directories of the files and the entries of each.
BuildDirMap(files) ==
  LET dirs == UNION {{SubSeq(p, 1, i) : i \in 0..(Len(p) - 1)} : p \in files}
      names(d) == {p[Len(d) + 1] : p \in {q \in files : Below(q, d)}}
  IN [d \in dirs |-> [n \in names(d) |-> IF Append(d, n) \in files THEN "file" ELSE "dir"]]

Stat(m, p) ==
  IF p = Root THEN "dir"
  ELSE IF p \in modmaps[m] THEN "file"
  ELSE IF p \in DOMAIN BuildDirMap(modmaps[m]) THEN "dir" ELSE "notexist"

Readdir(m, d) ==
  LET dirs == BuildDirMap(modmaps[m]) IN
  IF d \in DOMAIN dirs THEN {dirs[d]} ELSE IF d = Root THEN {<<>>} ELSE {}

-----------------------------------------------------------------------------
(* The calls of the client *)

\* GetZipRoot: what was sent before is returned at once.
GetZipRoot(c, m) ==
  /\ At(c) = "done"
  /\ call' = [call EXCEPT ![c] =
       [at |-> IF modmaps[m] # NoMap THEN "done" ELSE "do", key |-> <<"modmap", m>>, path |-> Root,
        result |-> Is(IF modmaps[m] # NoMap THEN "ok" ELSE "none")]]
  /\ UNCHANGED <<have, modmapLZ, modmaps, meta, flight>>

\* getMetaFile, of GetInfoFile, GetModFile and GetZipHash.
GetMetaFile(c, m, ext) ==
  LET hit == <<ext, m>> \in meta IN
  /\ At(c) = "done"
  /\ call' = [call EXCEPT ![c] =
       [at |-> IF hit THEN "done" ELSE "do", key |-> <<ext, m>>, path |-> Root,
        result |-> Is(IF hit THEN "ok" ELSE "none")]]
  /\ UNCHANGED <<have, modmapLZ, modmaps, meta, flight>>

\* Mutant: the server is asked for every path.
GetFileUnchecked(c, m, p) ==
  /\ At(c) = "done"
  /\ modmaps[m] # NoMap
  /\ call' = [call EXCEPT ![c] = [at |-> "send", key |-> <<"file", m>>, path |-> p, result |-> Is("none")]]
  /\ UNCHANGED <<have, modmapLZ, modmaps, meta, flight>>

\* GetFile, with the handle of a module: the server is asked for files only, and
\* nothing is kept.  No front end reads the root of a module as a file.
GetFile(c, m, p) ==
  /\ At(c) = "done"
  /\ modmaps[m] # NoMap
  /\ call' = [call EXCEPT ![c] =
       [at |-> IF p \in modmaps[m] THEN "send" ELSE "done", key |-> <<"file", m>>, path |-> p,
        result |-> Is(CASE p \in modmaps[m] -> "none"
                        [] p \in DOMAIN BuildDirMap(modmaps[m]) -> "isdir"
                        [] OTHER -> "notexist")]]
  /\ UNCHANGED <<have, modmapLZ, modmaps, meta, flight>>

\* singleflight: the first caller leads the flight of its key, the others wait for it.
\* The leader of a file map looks for it once more.
Do(c) ==
  LET k == call[c].key IN
  /\ At(c) = "do"
  /\ IF flight[k] = NoCaller
       THEN /\ flight' = [flight EXCEPT ![k] = c]
            /\ Goto(c, IF Kind(c) = "modmap" THEN "recheck" ELSE "send")
       ELSE Goto(c, "wait") /\ UNCHANGED flight
  /\ UNCHANGED <<have, modmapLZ, modmaps, meta>>

Recheck(c) ==
  /\ At(c) = "recheck"
  /\ IF modmaps[Mod(c)] # NoMap
       THEN call' = [call EXCEPT ![c] = Moved(c, "land", Is("ok"))]
       ELSE Goto(c, "send")
  /\ UNCHANGED <<have, modmapLZ, modmaps, meta, flight>>

\* The request is made, with the context of the caller.
Send(c) ==
  /\ At(c) = "send"
  /\ Goto(c, "sent")
  /\ UNCHANGED <<have, modmapLZ, modmaps, meta, flight>>

\* What was sent is kept; a miss and a failure are not.
Keep(c) ==
  /\ At(c) = "replied"
  /\ modmaps' = IF Kind(c) = "modmap" /\ call[c].result.status = "ok"
                  THEN [modmaps EXCEPT ![Mod(c)] = WalkFiles(Mod(c))] ELSE modmaps
  /\ meta' = IF Kind(c) \in Exts /\ call[c].result.status = "ok" THEN meta \cup {call[c].key} ELSE meta
  /\ Goto(c, IF Kind(c) = "file" THEN "done" ELSE "land")
  /\ UNCHANGED <<have, modmapLZ, flight>>

\* Mutant: the flight is left in the group.
LandAlone(c) ==
  /\ At(c) = "land"
  /\ Goto(c, "done")
  /\ UNCHANGED <<have, modmapLZ, modmaps, meta, flight>>

\* The flight ends, for all who wait for it and with the same result.
Land(c) ==
  LET k == call[c].key
      waits(d) == At(d) = "wait" /\ call[d].key = k
  IN /\ At(c) = "land"
     /\ flight' = [flight EXCEPT ![k] = NoCaller]
     /\ call' = [d \in Callers |->
          IF d = c \/ waits(d) THEN Moved(d, "done", call[c].result) ELSE call[d]]
     /\ UNCHANGED <<have, modmapLZ, modmaps, meta>>

-----------------------------------------------------------------------------
(* The server *)

\* Mutant: the cache of compressed file maps is not limited.
NoLimit(m) == ToFront(modmapLZ, m)

\* modmapLZ with m used last, without the module used longest ago if there are too many.
Used(m) ==
  LET s == ToFront(modmapLZ, m)
  IN IF Len(s) > MaxCachedModMaps THEN ButOldest(s) ELSE s

\* What is not in the store is downloaded, unless the server is read-only; releases of
\* the toolchain (getTailscaleGoRoot) are downloaded even then.
Downloads(k) == ~readOnly \/ (k[1] \in {"modmap", "ziphash"} /\ k[2] \in Toolchains)

\* GetZipRootOrDownload and GetMetaFileByExt: the results, with the store after it.  Either
\* may fail.  GetInfoFile looks in two places and hides an error of the first, so that an
\* info file that is there may be taken for missing, or be downloaded again.
Backend(k) ==
  {[status |-> "failed", have |-> have]} \cup
  (IF k \in have \/ Downloads(k) THEN {[status |-> "ok", have |-> have \cup {k}]} ELSE {}) \cup
  (IF ~Downloads(k) /\ (k \notin have \/ k[1] = "info")
     THEN {[status |-> "miss", have |-> have]} ELSE {})

\* handleModMap, up to its cache.
ServeModMapLZ(c) ==
  /\ At(c) = "sent" /\ Kind(c) = "modmap"
  /\ IF Listed(modmapLZ, Mod(c))
       THEN modmapLZ' = Used(Mod(c)) /\ Replied(c, Is("ok"))
       ELSE Goto(c, "walk") /\ UNCHANGED modmapLZ
  /\ UNCHANGED <<have, modmaps, meta, flight>>

\* The rest of handleModMap: the module, its files, and their map into the cache.
ServeModMap(c) ==
  /\ At(c) = "walk"
  /\ \E b \in Backend(call[c].key) :
       /\ have' = b.have
       /\ Replied(c, Is(b.status))
       /\ modmapLZ' = IF b.status = "ok" THEN Used(Mod(c)) ELSE modmapLZ
  /\ UNCHANGED <<modmaps, meta, flight>>

\* handleMeta.
ServeMeta(c) ==
  /\ At(c) = "sent" /\ Kind(c) \in Exts
  /\ \E b \in Backend(call[c].key) : have' = b.have /\ Replied(c, Is(b.status))
  /\ UNCHANGED <<modmapLZ, modmaps, meta, flight>>

\* handleFile: that the module or the file is not there is a 404, which the client takes
\* for the file, and that the file is a directory a 500.
ServeFile(c) ==
  LET data == StoreGetFile(Mod(c), call[c].path) IN
  /\ At(c) = "sent" /\ Kind(c) = "file"
  /\ \E b \in Backend(<<"modmap", Mod(c)>>) :
       /\ have' = b.have
       /\ Replied(c, CASE b.status = "miss" -> Is("notexist")
                       [] b.status = "failed" -> Is("failed")
                       [] OTHER -> IF data = Is("isdir") THEN Is("refused") ELSE data)
  /\ UNCHANGED <<modmapLZ, modmaps, meta, flight>>

\* The request of another client uses the cache of file maps.
ServeOther(m) ==
  /\ <<"modmap", m>> \in have
  /\ modmapLZ' = Used(m)
  /\ UNCHANGED <<have, modmaps, meta, flight, call>>

\* The connection breaks, or the context of the caller is cancelled.
RequestFails(c) ==
  /\ At(c) \in {"sent", "walk"}
  /\ Replied(c, Is("failed"))
  /\ UNCHANGED <<have, modmapLZ, modmaps, meta, flight>>

\* The server starts again: its store is there, its cache and its requests are not.
Restart ==
  /\ modmapLZ' = <<>>
  /\ call' = [c \in Callers |->
       IF At(c) \in {"sent", "walk"} THEN Moved(c, "replied", Is("failed")) ELSE call[c]]
  /\ UNCHANGED <<have, modmaps, meta, flight>>

-----------------------------------------------------------------------------
ClientStep(c) == Do(c) \/ Recheck(c) \/ Send(c) \/ Keep(c) \/ Land(c)
ServerStep(c) ==
  ServeModMapLZ(c) \/ ServeModMap(c) \/ ServeMeta(c) \/ ServeFile(c) \/ RequestFails(c)

Next ==
  /\ \/ \E c \in Callers :
          \/ \E m \in Mods : GetZipRoot(c, m)
          \/ \E m \in Mods, ext \in Exts : GetMetaFile(c, m, ext)
          \/ \E m \in Mods, p \in Paths \ {Root} : GetFile(c, m, p)
          \/ ClientStep(c) \/ ServerStep(c)
     \/ \E m \in Mods : ServeOther(m)
     \/ Restart
  /\ UNCHANGED readOnly

\* Goroutines run on, and a request is answered or fails: the handlers end, and the
\* connection is taken to break if it does not answer (the client has no timeout).
Spec ==
  /\ Init /\ [][Next]_vars
  /\ \A c \in Callers : /\ WF_vars(ClientStep(c) /\ UNCHANGED readOnly)
                        /\ WF_vars(ServerStep(c) /\ UNCHANGED readOnly)

-----------------------------------------------------------------------------
(* Properties *)

\* The state has its shape: a flight has the leader that runs it and is the only one to
\* ask for its key, and the server keeps no more file maps than it may, each once.
TypeOK ==
  /\ have \subseteq Keys /\ meta \subseteq Keys
  /\ Len(modmapLZ) <= MaxCachedModMaps
  /\ NoDuplicates(modmapLZ)
  /\ \A k \in Keys :
       flight[k] # NoCaller => call[flight[k]].key = k /\ At(flight[k]) \notin {"do", "wait", "done"}
  /\ \A c \in Callers :
       /\ At(c) = "wait" => flight[call[c].key] # NoCaller
       /\ Kind(c) # "file" /\ At(c) \notin {"do", "wait", "done"} => flight[call[c].key] = c

\* Of a module that the client has the file map of, it says what the server's store
\* says: the same entries in the same directories, also in those that the map only
\* implies (buildDirMap after walkFiles).
ClientSeesTheTree ==
  \A m \in Mods : modmaps[m] # NoMap =>
    \A p \in Paths : Stat(m, p) = StoreStat(m, p) /\ Readdir(m, p) = StoreReaddir(m, p)

\* A call is answered as the store of the server would answer it, or it fails, or the
\* module is missing on a server that may not download it.  In particular a file that
\* is listed is never said not to exist, though the 404 of handleFile also stands for
\* a module that is not there.
Answered(c) ==
  LET status == call[c].result.status IN
  CASE Kind(c) = "none" -> TRUE
    [] Kind(c) = "file" -> call[c].result \in {Is("failed"), StoreGetFile(Mod(c), call[c].path)}
    [] Kind(c) = "modmap" -> \/ status = "failed"
                             \/ status = "ok" /\ modmaps[Mod(c)] # NoMap
                             \/ status = "miss" /\ readOnly
    [] OTHER -> \/ status = "failed"
                \/ status = "ok" /\ call[c].key \in meta
                \/ status = "miss" /\ readOnly
AnswersAreTheStores == \A c \in Callers : At(c) = "done" => Answered(c)

\* Every call returns, those that wait for the request of another too.
CallsReturn == \A c \in Callers : At(c) # "done" ~> At(c) = "done"

=============================================================================

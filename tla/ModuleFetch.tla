---------------------------- MODULE ModuleFetch -----------------------------
(***************************************************************************)
(* How a module version gets into the store and from there to the file     *)
(* systems: FS.getZipRoot and FS.getMetaFile (gomodfs.go) with their       *)
(* singleflight groups and proxy fallback, getTailscaleGoRoot (tsgo.go),   *)
(* the refs that store/gitstore keeps for it, and the maps that take an    *)
(* NFS handle back to a module version after the server was restarted.     *)
(*                                                                         *)
(* A file is identified with the server it was downloaded from: that is    *)
(* all the properties tell apart.  A module version is stored as a tree    *)
(* with its zip, info and mod files, as a lone mod file, as a lone info    *)
(* file, or as any of these together.                                      *)
(***************************************************************************)
EXTENDS Naturals, Sequences, FiniteSets

CONSTANTS
  Callers,     \* goroutines of file system requests
  Mods,        \* module versions
  TSGo,        \* those of the Tailscale Go toolchain
  Toolchains,  \* those of golang.org/toolchain
  Proxies,     \* moduleProxyURLs
  GitHub,      \* where tsgo tarballs come from
  Stale,       \* where a toolchain stored without go.mod copies came from
  NoSrc,       \* no file
  Modes,       \* the values FS.ReadOnly may have when the server is started
  Kinds,       \* the calls that are made: see Start
  Nameable,    \* the handles that are asked for by name: see ToHandleUnfetched
  NoCaller

AllKinds == {"zip", "mod", "info", "tsgo"}
Sources == {Proxies[i] : i \in 1..Len(Proxies)} \cup {GitHub, Stale}

ASSUME ModuleFetchAssumption ==
  /\ TSGo \subseteq Mods
  /\ Toolchains \subseteq Mods \ TSGo
  /\ Len(Proxies) \in Nat \ {0}
  /\ NoSrc \notin Sources
  /\ GitHub # Stale
  /\ \A i \in 1..Len(Proxies) : Proxies[i] \notin {GitHub, Stale}
  /\ Modes \subseteq BOOLEAN
  /\ Kinds \subseteq AllKinds
  /\ Nameable \subseteq {"dir", "extracted"}
  /\ NoCaller \notin Callers

\* The files of a module version, with the source of each.
Trees == [zip : Sources \cup {NoSrc}, info : Sources \cup {NoSrc},
          mod : Sources \cup {NoSrc}]
NoTree == [zip |-> NoSrc, info |-> NoSrc, mod |-> NoSrc]
TreeFrom(src) == [zip |-> src, info |-> src, mod |-> src]

VARIABLES
  readOnly,      \* FS.ReadOnly
  pc,            \* pc[c]: where the call is
  call,          \* call[c]: its kind and module version
  proxy,         \* proxy[c]: index of the proxy it downloads from
  hand,          \* hand[c]: the files it has
  flight,        \* flight[k]: the leader of singleflight key k
  zipRootCache,  \* zipRootCache[m]
  mapsReady,     \* whether modVerHash and pathHashTarget are not nil
  modVerHash,    \* the module versions in modVerHash
  handle,        \* FS.handle: handles with a known target
  objects,       \* objects[m]: the trees of m in the git object database
  treeRef,       \* treeRef[m]: refs/gomod/m
  modRef,        \* modRef[m]: refs/gomod/m(mod)
  infoRef,       \* infoRef[m]: refs/gomod/m(info)
  handed         \* handles that NFS clients hold: see Hand

callVars   == <<pc, call, proxy, hand, flight>>
memoryVars == <<readOnly, zipRootCache, mapsReady, modVerHash, handle>>
storeVars  == <<objects, treeRef, modRef, infoRef>>
vars == <<readOnly, pc, call, proxy, hand, flight, zipRootCache, mapsReady,
          modVerHash, handle, objects, treeRef, modRef, infoRef, handed>>

Kind(c) == call[c].kind
Mod(c) == call[c].mod
Key(c) == <<Kind(c), Mod(c)>>

Keys == AllKinds \X Mods

\* NFS handles: of files of a module version, in its tree or beside it, of a directory
\* above the paths of m and of no other, and of the .extracted marker of a toolchain.
FileKinds == {"zip", "mod", "info"}
Handles == (FileKinds \cup {"dir", "extracted"}) \X Mods

\* A server that starts: nothing in memory, and a store that an earlier
\* version may have left with toolchains that lack the go.mod copies.
Init ==
  /\ readOnly \in Modes
  /\ pc = [c \in Callers |-> "idle"]
  /\ call \in [Callers -> [kind : Kinds, mod : Mods]]
  /\ \A c \in Callers : call[c] = CHOOSE x \in [kind : Kinds, mod : Mods] : TRUE
  /\ proxy = [c \in Callers |-> 1]
  /\ hand = [c \in Callers |-> NoTree]
  /\ flight = [k \in Keys |-> NoCaller]
  /\ zipRootCache = [m \in Mods |-> NoTree]
  /\ mapsReady = FALSE
  /\ modVerHash = {}
  /\ handle = {}
  /\ treeRef \in [Mods -> {NoTree, TreeFrom(Stale)}]
  /\ \A m \in Mods \ Toolchains : treeRef[m] = NoTree
  /\ objects = [m \in Mods |-> {treeRef[m]} \ {NoTree}]
  /\ modRef = [m \in Mods |-> NoSrc]
  /\ infoRef = [m \in Mods |-> NoSrc]
  /\ handed = {}

-----------------------------------------------------------------------------
(* The calls of the file systems *)

AtRest == {"idle", "done", "failed"}

\* Where each kind of call starts: getZipRoot, getModFile, getInfoFile, and the
\* getTailscaleGoRoot that the FUSE node tsgoRoot calls itself.
Entry == [zip |-> "cached", mod |-> "ref", info |-> "tree", tsgo |-> "root"]

Start(c) ==
  /\ pc[c] \in AtRest
  /\ \E k \in Kinds, m \in Mods :
       /\ k = "tsgo" => m \in TSGo
       /\ call' = [call EXCEPT ![c] = [kind |-> k, mod |-> m]]
       /\ pc' = [pc EXCEPT ![c] = Entry[k]]
  /\ proxy' = [proxy EXCEPT ![c] = 1]
  /\ hand' = [hand EXCEPT ![c] = NoTree]
  /\ UNCHANGED <<flight, memoryVars, storeVars, handed>>

\* Whether the result of c is also that of d: c leads the flight d waits for.
Shares(c, d) == flight[Key(c)] = c /\ pc[d] = "wait" /\ Key(d) = Key(c)

\* Mutant: the calls that wait for the leader are not told the result.
ReturnLeaderOnly(c, st, t) ==
  /\ pc' = [pc EXCEPT ![c] = st]
  /\ hand' = [hand EXCEPT ![c] = t]
  /\ flight' = [flight EXCEPT ![Key(c)] = IF @ = c THEN NoCaller ELSE @]
  /\ UNCHANGED <<call, proxy>>

\* The call returns; singleflight hands the result to the calls that wait.
Return(c, st, t) ==
  /\ pc' = [d \in Callers |-> IF d = c \/ Shares(c, d) THEN st ELSE pc[d]]
  /\ hand' = [d \in Callers |-> IF d = c \/ Shares(c, d) THEN t ELSE hand[d]]
  /\ flight' = [flight EXCEPT ![Key(c)] = IF @ = c THEN NoCaller ELSE @]
  /\ UNCHANGED <<call, proxy>>

Fail(c) == Return(c, "failed", NoTree) /\ UNCHANGED <<memoryVars, storeVars, handed>>

Goto(c, st) ==
  /\ pc' = [pc EXCEPT ![c] = st]
  /\ UNCHANGED <<call, proxy>>

\* getZipRootCached before the singleflight.
CachedHit(c) ==
  /\ pc[c] = "cached"
  /\ zipRootCache[Mod(c)] # NoTree
  /\ Return(c, "done", zipRootCache[Mod(c)])
  /\ UNCHANGED <<memoryVars, storeVars, handed>>

CachedMiss(c) ==
  /\ pc[c] = "cached"
  /\ zipRootCache[Mod(c)] = NoTree
  /\ Goto(c, "join")
  /\ UNCHANGED <<hand, flight, memoryVars, storeVars, handed>>

\* fs.sf.Do: the first call leads and runs the function, the others wait.
Lead(c) ==
  /\ pc[c] = "join"
  /\ flight[Key(c)] = NoCaller
  /\ flight' = [flight EXCEPT ![Key(c)] = c]
  /\ Goto(c, IF Kind(c) = "zip" THEN "recheck" ELSE "slurp")
  /\ UNCHANGED <<hand, memoryVars, storeVars, handed>>

Follow(c) ==
  /\ pc[c] = "join"
  /\ flight[Key(c)] # NoCaller
  /\ Goto(c, "wait")
  /\ UNCHANGED <<hand, flight, memoryVars, storeVars, handed>>

\* getZipRootCached inside the singleflight function.
RecheckHit(c) ==
  /\ pc[c] = "recheck"
  /\ zipRootCache[Mod(c)] # NoTree
  /\ Return(c, "done", zipRootCache[Mod(c)])
  /\ UNCHANGED <<memoryVars, storeVars, handed>>

\* Mutant: the cache is not looked at again inside the singleflight.
RecheckMissAlways(c) ==
  /\ pc[c] = "recheck"
  /\ Goto(c, "root")
  /\ UNCHANGED <<hand, flight, memoryVars, storeVars, handed>>

RecheckMiss(c) ==
  /\ pc[c] = "recheck"
  /\ zipRootCache[Mod(c)] = NoTree
  /\ Goto(c, "root")
  /\ UNCHANGED <<hand, flight, memoryVars, storeVars, handed>>

-----------------------------------------------------------------------------
(* Store.GetZipRoot, in getZipRoot and in getTailscaleGoRoot *)

\* Mutant: a toolchain that is stored is always taken as it is.
NeedsGoModsNever(m) == FALSE

\* A stored toolchain without src/go.mod is downloaded again.
NeedsGoMods(m) ==
  m \in Toolchains /\ ~readOnly /\ treeRef[m].zip = Stale

RootHit(c) ==
  /\ pc[c] = "root"
  /\ treeRef[Mod(c)] # NoTree
  /\ ~NeedsGoMods(Mod(c))
  /\ hand' = [hand EXCEPT ![c] = treeRef[Mod(c)]]
  /\ Goto(c, "publish")
  /\ UNCHANGED <<flight, memoryVars, storeVars, handed>>

RootMiss(c) ==
  /\ pc[c] = "root"
  /\ treeRef[Mod(c)] = NoTree \/ NeedsGoMods(Mod(c))

\* ErrCacheMiss and a read-only server; a tsgo version never gets here, its
\* special case comes before the test of ReadOnly.
RootMissReadOnly(c) ==
  /\ RootMiss(c)
  /\ readOnly
  /\ Mod(c) \notin TSGo
  /\ Fail(c)

RootMissDownload(c) ==
  /\ RootMiss(c)
  /\ ~readOnly \/ Mod(c) \in TSGo
  /\ Goto(c, "slurp")
  /\ UNCHANGED <<hand, flight, memoryVars, storeVars, handed>>

\* Any other error of the store.
RootError(c) == pc[c] = "root" /\ Fail(c)

-----------------------------------------------------------------------------
(* GetModFile and GetInfoFile of gitstore, at the start of getMetaFile *)

\* The info file in the tree of the module version.
TreeInfoHit(c) ==
  /\ pc[c] = "tree"
  /\ treeRef[Mod(c)].info # NoSrc
  /\ Return(c, "done", [NoTree EXCEPT !.info = treeRef[Mod(c)].info])
  /\ UNCHANGED <<memoryVars, storeVars, handed>>

\* After any error, not only errMissing, GetInfoFile tries the lone info file.
TreeInfoMiss(c) ==
  /\ pc[c] = "tree"
  /\ Goto(c, "ref")
  /\ UNCHANGED <<hand, flight, memoryVars, storeVars, handed>>

MetaRef(c) == IF Kind(c) = "mod" THEN modRef[Mod(c)] ELSE infoRef[Mod(c)]

RefHit(c) ==
  /\ pc[c] = "ref"
  /\ MetaRef(c) # NoSrc
  /\ Return(c, "done", [NoTree EXCEPT ![Kind(c)] = MetaRef(c)])
  /\ UNCHANGED <<memoryVars, storeVars, handed>>

RefMissReadOnly(c) ==
  /\ pc[c] = "ref"
  /\ MetaRef(c) = NoSrc
  /\ readOnly
  /\ Fail(c)

RefMissDownload(c) ==
  /\ pc[c] = "ref"
  /\ MetaRef(c) = NoSrc
  /\ ~readOnly
  /\ Goto(c, "join")
  /\ UNCHANGED <<hand, flight, memoryVars, storeVars, handed>>

RefError(c) == pc[c] = "ref" /\ Fail(c)

-----------------------------------------------------------------------------
(* Downloads: downloadZipSet, downloadMetaFile and the tsgo tarball *)

FromGitHub(c) == Kind(c) \in {"zip", "tsgo"} /\ Mod(c) \in TSGo
Source(c) == IF FromGitHub(c) THEN GitHub ELSE Proxies[proxy[c]]

\* The files that the call downloads, in this order.
Wanted(c) ==
  IF FromGitHub(c) THEN <<"zip">>
  ELSE IF Kind(c) = "zip" THEN <<"zip", "info", "mod">>
  ELSE <<Kind(c)>>

\* The first of them that it does not have.
NextWanted(c) ==
  CHOOSE i \in 1..Len(Wanted(c)) :
    /\ hand[c][Wanted(c)[i]] = NoSrc
    /\ \A j \in 1..(i - 1) : hand[c][Wanted(c)[j]] # NoSrc

\* netSlurp succeeds.
SlurpOK(c) ==
  /\ pc[c] = "slurp"
  /\ LET i == NextWanted(c) IN
       /\ hand' = [hand EXCEPT ![c][Wanted(c)[i]] = Source(c)]
       /\ Goto(c, IF i = Len(Wanted(c)) THEN "put" ELSE "slurp")
  /\ UNCHANGED <<flight, memoryVars, storeVars, handed>>

\* Mutant: the last proxy is not recognised as the last one.
SlurpNextProxyOffByOne(c) ==
  /\ pc[c] = "slurp"
  /\ ~FromGitHub(c)
  /\ proxy[c] <= Len(Proxies)
  /\ proxy' = [proxy EXCEPT ![c] = @ + 1]
  /\ hand' = [hand EXCEPT ![c] = NoTree]
  /\ UNCHANGED <<pc, call, flight, memoryVars, storeVars, handed>>

\* Mutant: only the file that failed is taken from the next proxy.
SlurpNextProxyKeepsSet(c) ==
  /\ pc[c] = "slurp"
  /\ ~FromGitHub(c)
  /\ proxy[c] < Len(Proxies)
  /\ proxy' = [proxy EXCEPT ![c] = @ + 1]
  /\ UNCHANGED <<pc, call, hand, flight, memoryVars, storeVars, handed>>

\* It fails, and the whole set is tried from the next proxy.
SlurpNextProxy(c) ==
  /\ pc[c] = "slurp"
  /\ ~FromGitHub(c)
  /\ proxy[c] < Len(Proxies)
  /\ proxy' = [proxy EXCEPT ![c] = @ + 1]
  /\ hand' = [hand EXCEPT ![c] = NoTree]
  /\ UNCHANGED <<pc, call, flight, memoryVars, storeVars, handed>>

\* It fails, and there is no other server to try.
SlurpGivesUp(c) ==
  /\ pc[c] = "slurp"
  /\ FromGitHub(c) \/ proxy[c] = Len(Proxies)
  /\ Fail(c)

-----------------------------------------------------------------------------
(* PutModule, PutModFile and PutInfoFile of gitstore *)

IsTree(c) == Kind(c) \in {"zip", "tsgo"}

\* The zip or tarball cannot be read, or the tree cannot be built.
BadArchive(c) == pc[c] = "put" /\ IsTree(c) /\ Fail(c)

\* sendToGit: all objects of the tree are stored.
SendToGit(c) ==
  /\ pc[c] = "put"
  /\ IsTree(c)
  /\ objects' = [objects EXCEPT ![Mod(c)] = @ \cup {hand[c]}]
  /\ Goto(c, "update-ref")
  /\ UNCHANGED <<hand, flight, memoryVars, treeRef, modRef, infoRef, handed>>

\* Its error is logged and PutModule goes on.
SendToGitFails(c) ==
  /\ pc[c] = "put"
  /\ IsTree(c)
  /\ Goto(c, "update-ref")
  /\ UNCHANGED <<hand, flight, memoryVars, storeVars, handed>>

\* git update-ref refuses an object that is not in the database.
UpdateRef(c) ==
  /\ pc[c] = "update-ref"
  /\ hand[c] \in objects[Mod(c)]
  /\ treeRef' = [treeRef EXCEPT ![Mod(c)] = hand[c]]
  /\ Goto(c, "ls-tree")
  /\ UNCHANGED <<hand, flight, memoryVars, objects, modRef, infoRef, handed>>

\* Mutant: the error of update-ref is logged, as that of sendToGit is.
UpdateRefFailsLogged(c) ==
  /\ pc[c] = "update-ref"
  /\ Goto(c, "ls-tree")
  /\ UNCHANGED <<hand, flight, memoryVars, storeVars, handed>>

UpdateRefFails(c) == pc[c] = "update-ref" /\ Fail(c)

\* newModHandle lists the tree.
LsTree(c) ==
  /\ pc[c] = "ls-tree"
  /\ hand[c] \in objects[Mod(c)]
  /\ Goto(c, "publish")
  /\ UNCHANGED <<hand, flight, memoryVars, storeVars, handed>>

LsTreeFails(c) == pc[c] = "ls-tree" /\ Fail(c)

\* PutModFile or PutInfoFile: the object is written, then the ref.
PutMeta(c) ==
  /\ pc[c] = "put"
  /\ ~IsTree(c)
  /\ IF Kind(c) = "mod"
       THEN modRef' = [modRef EXCEPT ![Mod(c)] = hand[c].mod] /\ UNCHANGED infoRef
       ELSE infoRef' = [infoRef EXCEPT ![Mod(c)] = hand[c].info] /\ UNCHANGED modRef
  /\ Return(c, "done", hand[c])
  /\ UNCHANGED <<memoryVars, objects, treeRef, handed>>

PutMetaFails(c) == pc[c] = "put" /\ ~IsTree(c) /\ Fail(c)

-----------------------------------------------------------------------------
(* The end of getZipRoot *)

\* setZipRootCache, and the singleflight function returns.
Publish(c) ==
  /\ pc[c] = "publish"
  /\ Kind(c) = "zip"
  /\ zipRootCache' = [zipRootCache EXCEPT ![Mod(c)] = hand[c]]
  /\ modVerHash' = IF mapsReady THEN modVerHash \cup {Mod(c)} ELSE modVerHash
  /\ Return(c, "done", hand[c])
  /\ UNCHANGED <<readOnly, mapsReady, handle, storeVars, handed>>

\* tsgoRoot.Lookup uses the root of getTailscaleGoRoot without caching it.
ReturnTSGo(c) ==
  /\ pc[c] = "publish"
  /\ Kind(c) = "tsgo"
  /\ Return(c, "done", hand[c])
  /\ UNCHANGED <<memoryVars, storeVars, handed>>

-----------------------------------------------------------------------------
(* NFS handles, and a restart of the server *)

\* Mutant: refs with a "(mod)" or "(info)" suffix are skipped.
CachedModulesTreesOnly == {m \in Mods : treeRef[m] # NoTree}

\* CachedModules lists refs/gomod/ and drops the suffixes of the lone files.
CachedModules ==
  {m \in Mods : treeRef[m] # NoTree \/ modRef[m] # NoSrc \/ infoRef[m] # NoSrc}

\* ToHandle enters the target in FS.handle and the client is answered.  With the handle
\* the model keeps whether the store had anything of the module version then.
Hand(h) ==
  /\ handle' = handle \cup {h}
  /\ handed' = handed \cup {<<h, IF h[2] \in CachedModules THEN "stored" ELSE "absent">>}
  /\ UNCHANGED <<readOnly, zipRootCache, mapsReady, modVerHash, storeVars>>

\* A LOOKUP that found the file answers with its handle.
ToHandle(c) ==
  /\ pc[c] = "done"
  /\ Kind(c) # "tsgo"
  /\ pc' = [pc EXCEPT ![c] = "idle"]
  /\ Hand(Key(c))
  /\ UNCHANGED <<call, proxy, hand, flight>>

\* A LOOKUP of a directory outside a zip, or of the marker of a toolchain: Lstat knows
\* what it is from the name alone, and ToHandle needs nothing of the store.
ToHandleUnfetched(k, m) ==
  /\ k = "extracted" => m \in TSGo
  /\ Hand(<<k, m>>)
  /\ UNCHANGED callVars

\* initHandleMapsLocked, on the first handle that is not in FS.handle.
InitHandleMaps ==
  /\ ~mapsReady
  /\ mapsReady' = TRUE
  /\ modVerHash' = CachedModules
  /\ UNCHANGED <<callVars, readOnly, zipRootCache, handle, storeVars, handed>>

\* What fromHandle finds for a handle that is not in FS.handle: the module version, or
\* the directory among the paths of the module versions, which the maps have together;
\* and for a file in the zip also its tree.  Otherwise the handle is stale.
Found(h, known) == h[2] \in known /\ (h[1] = "zip" => treeRef[h[2]] # NoTree)

FromHandle(h) ==
  /\ h \notin handle
  /\ mapsReady
  /\ Found(h, modVerHash)
  /\ handle' = handle \cup {h}
  /\ UNCHANGED <<callVars, readOnly, zipRootCache, mapsReady, modVerHash, storeVars,
                 handed>>

\* The server stops, at any point, and is started again.
Restart ==
  /\ readOnly' \in Modes
  /\ pc' = [c \in Callers |-> "idle"]
  /\ hand' = [c \in Callers |-> NoTree]
  /\ proxy' = [c \in Callers |-> 1]
  /\ flight' = [k \in Keys |-> NoCaller]
  /\ zipRootCache' = [m \in Mods |-> NoTree]
  /\ mapsReady' = FALSE
  /\ modVerHash' = {}
  /\ handle' = {}
  /\ UNCHANGED <<call, storeVars, handed>>

-----------------------------------------------------------------------------
GetZipRoot(c) ==
  \/ CachedHit(c) \/ CachedMiss(c) \/ RecheckHit(c) \/ RecheckMiss(c)
  \/ RootHit(c) \/ RootMissReadOnly(c) \/ RootMissDownload(c) \/ RootError(c)
  \/ Publish(c) \/ ReturnTSGo(c)

GetMetaFile(c) ==
  \/ TreeInfoHit(c) \/ TreeInfoMiss(c)
  \/ RefHit(c) \/ RefMissReadOnly(c) \/ RefMissDownload(c) \/ RefError(c)

Download(c) ==
  \/ Lead(c) \/ Follow(c)
  \/ SlurpOK(c) \/ SlurpNextProxy(c) \/ SlurpGivesUp(c)

Put(c) ==
  \/ BadArchive(c) \/ SendToGit(c) \/ SendToGitFails(c)
  \/ UpdateRef(c) \/ UpdateRefFails(c) \/ LsTree(c) \/ LsTreeFails(c)
  \/ PutMeta(c) \/ PutMetaFails(c)

Step(c) == GetZipRoot(c) \/ GetMetaFile(c) \/ Download(c) \/ Put(c)

Next ==
  \/ \E c \in Callers : Start(c) \/ Step(c) \/ ToHandle(c)
  \/ InitHandleMaps
  \/ \E k \in Nameable, m \in Mods : ToHandleUnfetched(k, m)
  \/ \E g \in handed : FromHandle(g[1])
  \/ Restart

Spec == Init /\ [][Next]_vars

\* A goroutine is scheduled and every netSlurp ends, after 30 seconds if need
\* be; a git command ends.  Nothing forces requests or restarts.
FairSpec == Spec /\ \A c \in Callers : WF_vars(Step(c))

-----------------------------------------------------------------------------
(* Properties *)

PCs == AtRest \cup
  {"cached", "join", "wait", "recheck", "root", "tree", "ref", "slurp", "put",
   "update-ref", "ls-tree", "publish"}

\* The type invariant; in particular every download is from a server that is
\* configured.
TypeOK ==
  /\ readOnly \in Modes
  /\ pc \in [Callers -> PCs]
  /\ call \in [Callers -> [kind : Kinds, mod : Mods]]
  /\ proxy \in [Callers -> 1..Len(Proxies)]
  /\ hand \in [Callers -> Trees]
  /\ flight \in [Keys -> Callers \cup {NoCaller}]
  /\ zipRootCache \in [Mods -> Trees]
  /\ mapsReady \in BOOLEAN
  /\ modVerHash \subseteq Mods
  /\ handle \subseteq Handles
  /\ objects \in [Mods -> SUBSET Trees]
  /\ treeRef \in [Mods -> Trees]
  /\ modRef \in [Mods -> Sources \cup {NoSrc}]
  /\ infoRef \in [Mods -> Sources \cup {NoSrc}]
  /\ handed \subseteq Handles \X {"stored", "absent"}

\* "A module version's zip, info, and mod files must all come from the same
\* proxy": no tree that downloadZip stores mixes sources, whichever of its
\* downloads failed.
OneProxyPerTree ==
  \A m \in Mods \ TSGo : \A t \in objects[m] : t = TreeFrom(t.zip)

\* A root that getZipRoot has returned is in the store under its ref, although
\* the error of sendToGit is only logged: no later call replaces it, and a
\* restarted server has it without downloading it again.
RootsAreStored ==
  \A m \in Mods : zipRootCache[m] # NoTree =>
    zipRootCache[m] = treeRef[m] /\ treeRef[m] \in objects[m]

Fetching == {"root", "slurp", "put", "update-ref", "ls-tree", "publish"}

\* The second look at zipRootCache inside the singleflight: whatever happened
\* between the first look and the flight, a module version that is cached is
\* not fetched again, and no two calls fetch the same one.
NoRedundantFetch ==
  \A c \in Callers : Kind(c) = "zip" /\ pc[c] \in Fetching =>
    /\ zipRootCache[Mod(c)] = NoTree
    /\ \A d \in Callers \ {c} : Key(d) = Key(c) => pc[d] \notin Fetching

\* Whether a handle can be taken back to its file or directory at this moment.
Resolves(h) == h \in handle \/ Found(h, IF mapsReady THEN modVerHash ELSE CachedModules)

\* The handles that are to last: those of files, and those that were given out when the
\* store had something of the module version.
Lasting(g) == g[1][1] \in FileKinds \/ g[2] = "stored"

\* A file's handle can be taken back to the file, by the server that issued it or by one
\* that was restarted, at any time.  So can the handle of a directory or of a toolchain's
\* marker, if anything of the module version was stored when it was given out; else it
\* lasts no longer than the server, although the comment on FS.handle (gomodfs.go:101) has it
\* that all handles can be mapped back.  And once the handle maps are in use they know every
\* module version with a cached root, whether it was listed by CachedModules or added
\* later.
HandlesResolve ==
  /\ \A g \in handed : Lasting(g) => Resolves(g[1])
  /\ mapsReady => \A m \in Mods : zipRootCache[m] # NoTree => m \in modVerHash

\* The root of a toolchain has the go.mod copies that cmd/go needs, even if an
\* earlier version stored it without.
ToolchainsHaveGoMods ==
  ~readOnly => \A m \in Mods : zipRootCache[m].zip # Stale

\* Every call returns: no flight is left without a leader, no call waits for
\* one that is over.
CallsReturn == \A c \in Callers : pc[c] \notin AtRest ~> pc[c] \in AtRest

=============================================================================

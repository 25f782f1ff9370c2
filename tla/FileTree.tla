------------------------------ MODULE FileTree ------------------------------
(***************************************************************************)
(* The names of the file system.  The GOMODCACHE layout places the files   *)
(* of a module under its escaped path, and its metadata under              *)
(* cache/download; toolchains are under tsgo-$GOOS-$GOARCH.  WebDAV,       *)
(* WinFsp and NFS parse a whole path (parsePath); FUSE is walked one name  *)
(* at a time, and each node knows what its parents were.  WinFsp reads     *)
(* through a cache by path (FS.getFileContents).                           *)
(*                                                                         *)
(* A path is a sequence of names, and a name the sequence of the pieces    *)
(* that the code cuts it into: <<"b", "@", "v1">>, <<"v1", ".", "mod">>,   *)
(* <<"tsgo-", "linux", "-", "amd64">>.                                     *)
(***************************************************************************)
EXTENDS Naturals, Sequences, SequencesExt, FiniteSetsExt

CONSTANTS
  Piece,       \* the strings that names are made of
  Files,       \* Files[mv]: the paths of the files of a module version
  Size(_),     \* the size of a file, by its path
  Unescaped,   \* Unescaped[s]: of the pieces with an escape, what they stand for
  Invalid,     \* pieces with upper-case letters, which are not an escape of anything
  Platforms,   \* the <<goos, goarch>> of validTSGoOSARCH
  Hashes,      \* git hashes: 40 hexadecimal digits
  LowerHashes, \* those without upper-case letters, which git writes
  Names,       \* the names that are looked up
  Handles,     \* WinFsp file handles
  MaxSize,     \* GetFileCacheSize
  MaxOffset    \* bound on the offset of a read

cache == <<"cache">>
download == <<"download">>
atV == <<"@", "v">>
statusFile == <<".", "gomodfs-status">>
openSetFile == <<".", "vfs-openset-dir">>
hello == <<"gomodfs hello.txt">>
Exts == {"mod", "ziphash", "info"}
InfoTmps == {"info1", "info2"}  \* info and a number
TailscaleGo == <<<<"github.com">>, <<"tailscale">>, <<"go">>>>

\* The versions that getZipRoot gets from the releases of the toolchain.
TSGoVersion(goos, goarch, hash) == <<"tsgo-", goos, "-", goarch, "-", hash>>
Toolchains == {mv \in DOMAIN Files : mv.mod = TailscaleGo /\ mv.ver[1] = "tsgo-"}
None == [mod |-> <<>>, ver |-> <<>>]

\* What is found at a path: a file or directory with the module version and the path in
\* it, a metadata file (its extension for the path), or an errno.
Obj(kind, mv, path) == [kind |-> kind, mv |-> mv, path |-> path]
Is(kind) == Obj(kind, None, <<>>)

VARIABLES
  frontend,     \* the front end that serves
  at,           \* the path that was asked for last, or walked to
  node,         \* the FUSE node there
  answer,       \* the answer to the last request, and whether the store failed it
  file,         \* file[h]: an open winFSPRegularFile
  pathContents  \* FS.pathContents: keys and values, the one used last first

vars == <<frontend, at, node, answer, file, pathContents>>

Closed == [pc |-> "closed", obj |-> Is("none"), contents |-> Is("none"), off |-> 0]

NoAnswer == [op |-> "none", what |-> Is("none"), ok |-> TRUE, ents |-> {}, range |-> <<>>]
RootNode == [t |-> "moduleName", segs |-> <<>>, obj |-> Is("dir"), have |-> FALSE]

Init ==
  /\ frontend \in {"fuse", "webdav", "winfsp", "nfs"}
  /\ at = <<>>
  /\ node = RootNode
  /\ answer = NoAnswer
  /\ file = [h \in Handles |-> Closed]
  /\ pathContents = <<>>

-----------------------------------------------------------------------------
(* The layout: where GOMODCACHE and ~/.cache/tsgo have the files *)

Escape(s) == IF \E e \in DOMAIN Unescaped : Unescaped[e] = s
               THEN CHOOSE e \in DOMAIN Unescaped : Unescaped[e] = s ELSE s
EscapeAll(ss) == [i \in DOMAIN ss |-> Escape(ss[i])]
EscapePath(mod) == [i \in DOMAIN mod |-> EscapeAll(mod[i])]

ModuleDir(mv) ==
  LET p == EscapePath(mv.mod) IN Front(p) \o <<Last(p) \o <<"@">> \o EscapeAll(mv.ver)>>
MetaFile(mv, ext) ==
  <<cache, download>> \o EscapePath(mv.mod) \o <<atV, EscapeAll(mv.ver) \o <<".", ext>>>>
ToolchainDir(mv) == <<<<"tsgo-", mv.ver[2], "-", mv.ver[4]>>, <<mv.ver[6]>>>>
Extracted(mv) == <<<<"tsgo-", mv.ver[2], "-", mv.ver[4]>>, <<mv.ver[6], ".", "extracted">>>>
RootOf(mv) == IF mv \in Toolchains THEN ToolchainDir(mv) ELSE ModuleDir(mv)

Dirs(mv) == {p \in UNION {Prefixes(f) : f \in Files[mv]} : p \notin Files[mv]}

\* What there is at a path, in a set: nothing or one thing.
Placed ==
  (UNION {{<<RootOf(mv) \o f, Obj("file", mv, f)>> : f \in Files[mv]} : mv \in DOMAIN Files})
  \cup (UNION {{<<RootOf(mv) \o d, Obj("zipdir", mv, d)>> : d \in Dirs(mv)} : mv \in DOMAIN Files})
  \cup {<<MetaFile(mv, ext), Obj("meta", mv, <<<<ext>>>>)>> : mv \in DOMAIN Files \ Toolchains, ext \in Exts}
  \cup {<<Extracted(mv), Obj("extracted", mv, <<>>)>> : mv \in Toolchains}
  \cup {<<<<statusFile>>, Is("status")>>}
At(p) == {y[2] : y \in {z \in Placed : z[1] = p}}

\* The paths that are asked for: all that lead to something placed, or to a toolchain as
\* a module, and one name aside, in what is not a file.
Ways == (UNION {Prefixes(y[1]) : y \in Placed})
        \cup (UNION {UNION {Prefixes(ModuleDir(mv) \o f) : f \in Files[mv]} : mv \in Toolchains})
IsDir(p) == \A o \in At(p) : o.kind = "zipdir"
Paths == Ways \cup {Append(p, n) : p \in {q \in Ways : IsDir(q)}, n \in Names}

-----------------------------------------------------------------------------
(* The store and what the fs does to get a module; ModuleFetch has the detail *)

StoreStat(mv, p) ==
  IF p \in Files[mv] THEN Obj("file", mv, p)
  ELSE IF p \in Dirs(mv) THEN Obj("zipdir", mv, p) ELSE Is("ENOENT")

\* The names in a directory, and whether each is a directory.
StoreReaddir(mv, d) ==
  {<<p[Len(p)], StoreStat(mv, p).kind>> :
     p \in {q \in Files[mv] \cup Dirs(mv) : q # <<>> /\ Front(q) = d}}

\* getZipRoot and getMetaFileByExt find a module that exists, unless they fail.  A
\* toolchain has no metadata.
Found(mv, ok) == ok /\ mv \in DOMAIN Files
FoundMeta(mv, ok) == ok /\ mv \in DOMAIN Files \ Toolchains

-----------------------------------------------------------------------------
(* parsePath, of a part of the path *)

\* strings.Cut.
CutAt(s, sep) ==
  LET is == {i \in DOMAIN s : s[i] = sep} IN
  IF is = {} THEN <<s>> ELSE <<SubSeq(s, 1, Min(is) - 1), SubSeq(s, Min(is) + 1, Len(s))>>

IsDotFile(p) == p # <<>> /\ Last(p)[1] = "."
Ext(n) == IF Len(n) > 2 /\ n[Len(n) - 1] = "." THEN Last(n) ELSE ""
TrimExt(n) == SubSeq(n, 1, Len(n) - 2)

Unescape(s) == IF s \in DOMAIN Unescaped THEN Unescaped[s] ELSE s
UnescapeAll(ss) == [i \in DOMAIN ss |-> Unescape(ss[i])]
ValidVersion(v) == v # <<>> /\ Range(v) \cap Invalid = {}
ValidPath(m) ==
  m # <<>> /\ \A i \in DOMAIN m : ValidVersion(m[i]) /\ m[i][1] # "." /\ ~Contains(m[i], "@")
UnescapePath(m) == [i \in DOMAIN m |-> UnescapeAll(m[i])]

\* Mutant: the path of the module is taken as it is written.
ParseModVersionRaw(escMod, escVer) == [mod |-> escMod, ver |-> UnescapeAll(escVer)]

ParseModVersion(escMod, escVer) ==
  IF ValidPath(escMod) /\ ValidVersion(escVer)
    THEN [mod |-> UnescapePath(escMod), ver |-> UnescapeAll(escVer)] ELSE None

\* validTSGoOSARCH, of what a name is cut into.
IsPlatform(platform) == \E o \in Platforms : platform = <<<<o[1]>>, <<o[2]>>>>

IsTSGo(p) == p # <<>> /\ p[1][1] = "tsgo-"

\* What is under the .extracted file is taken for that file.  isHexChar admits upper case.
ParseTSGoPath(p) ==
  LET platform == CutAt(Tail(p[1]), "-")
      extracted == Ext(p[2]) = "extracted"
      hash == IF extracted THEN TrimExt(p[2]) ELSE p[2]
      mv == [mod |-> TailscaleGo, ver |-> TSGoVersion(platform[1][1], platform[2][1], hash[1])]
  IN IF Len(p) = 1 \/ Len(platform) = 1 THEN Is("dir")
     ELSE IF ~IsPlatform(platform) THEN Is("ENOENT")
     ELSE IF Len(hash) # 1 \/ hash[1] \notin Hashes THEN Is("ENOENT")
     ELSE IF extracted THEN Obj("extracted", mv, <<>>)
     ELSE Obj("zip", mv, SubSeq(p, 3, Len(p)))

\* A path under cache/download/, after the first /@v/ in it.
ParseDownload(p) ==
  LET is == {i \in 4..(Len(p) - 1) : p[i] = atV}
      i == Min(is)
      mv == ParseModVersion(SubSeq(p, 3, i - 1), TrimExt(Last(p)))
  IN IF IsDotFile(p) THEN Is("ENOENT")
     ELSE IF is = {} \/ Ext(Last(p)) = "" THEN Is("dir")
     ELSE IF Ext(Last(p)) \notin Exts \/ Len(p) > i + 1 \/ mv = None THEN Is("ENOENT")
     ELSE Obj("meta", mv, <<<<Ext(Last(p))>>>>)

\* A path with an @ is cut there, and at the end of that name.
ParseZip(p) ==
  LET i == Min({j \in DOMAIN p : Contains(p[j], "@")})
      cut == CutAt(p[i], "@")
      mv == ParseModVersion(SubSeq(p, 1, i - 1) \o <<cut[1]>>, cut[2])
  IN IF mv = None THEN Is("ENOENT") ELSE Obj("zip", mv, SubSeq(p, i + 1, Len(p)))

-----------------------------------------------------------------------------
(* What the names are, and what module versions and toolchains there are *)

Name == Seq(Piece) \ {<<>>}
ASSUME NamesAssumption ==
  /\ {"@", ".", "-", "tsgo-", "cache", "download", "v", "gomodfs-status",
      "vfs-openset-dir", "extracted"} \cup Exts \subseteq Piece
  /\ TailscaleGo \in Seq(Name) /\ Names \subseteq Name

\* Pieces with upper-case letters have one escape each.
ASSUME EscapesAssumption ==
  /\ IsInjective(Unescaped)
  /\ \A e \in DOMAIN Unescaped : e \in Piece /\ Unescaped[e] \in Invalid \cap Piece

\* A module version has files, none of them also a directory.
ASSUME FilesAssumption ==
  \A mv \in DOMAIN Files :
    /\ mv \in [mod : Seq(Name), ver : Name]
    /\ Files[mv] # {} /\ Files[mv] \subseteq Seq(Name) \ {<<>>}
    /\ \A f \in Files[mv] : Size(f) \in Nat
    /\ \A f, g \in Files[mv] : IsPrefix(f, g) => f = g

\* Only versions that can be escaped are downloaded (modURLBases).  The code keeps some
\* names at the top for itself: cache, which no module proxy has since the first name of
\* a module has a dot; that of a test file, which has a space; and what begins with
\* tsgo-, which parsePath and LookupTop take for a toolchain and which a module could
\* be called.
ASSUME ModulesAssumption ==
  \A mv \in DOMAIN Files \ Toolchains :
    /\ \A n \in Range(mv.mod) \cup {mv.ver} : Range(n) \cap DOMAIN Unescaped = {}
    /\ ValidPath(EscapePath(mv.mod)) /\ ValidVersion(EscapeAll(mv.ver))
    /\ EscapePath(mv.mod)[1] \notin {cache, hello} /\ EscapePath(mv.mod)[1][1] # "tsgo-"
    /\ mv.ver[1] # "." /\ EscapeAll(mv.ver)[1] # "."

\* Releases of the toolchain are for the platforms of validTSGoOSARCH, and called by
\* their hash as git writes it.
ASSUME ToolchainsAssumption ==
  /\ Platforms \subseteq (Piece \ {"-"}) \X Piece
  /\ LowerHashes \subseteq Hashes /\ Hashes \subseteq Piece
  /\ \A mv \in Toolchains : \E o \in Platforms, h \in LowerHashes : mv.ver = TSGoVersion(o[1], o[2], h)

\* GetFileCacheSize is never zero, which would be no limit.
ASSUME BoundsAssumption == MaxSize \in Nat \ {0} /\ MaxOffset \in Nat

-----------------------------------------------------------------------------
(* parsePath, of the whole path *)

\* Mutant: dot files are not there in modules either.
ParsePathNoDotFiles(p) ==
  IF p = <<statusFile>> THEN Is("status")
  ELSE IF IsDotFile(p) THEN Is("ENOENT")
  ELSE IF IsTSGo(p) THEN ParseTSGoPath(p)
  ELSE IF Len(p) > 2 /\ SubSeq(p, 1, 2) = <<cache, download>> THEN ParseDownload(p)
  ELSE IF \E i \in DOMAIN p : Contains(p[i], "@") THEN ParseZip(p)
  ELSE Is("dir")

ParsePath(p) ==
  IF p = <<statusFile>> THEN Is("status")
  ELSE IF IsTSGo(p) THEN (IF IsDotFile(p) THEN Is("ENOENT") ELSE ParseTSGoPath(p))
  ELSE IF Len(p) > 2 /\ SubSeq(p, 1, 2) = <<cache, download>> THEN ParseDownload(p)
  ELSE IF \E i \in DOMAIN p : Contains(p[i], "@") THEN ParseZip(p)
  ELSE Is(IF IsDotFile(p) THEN "ENOENT" ELSE "dir")

-----------------------------------------------------------------------------
(* The front ends that parse paths.  ok: the store does not fail.  An error other than *)
(* that the file does not exist is EIO.                                                *)

Describe(gm, ok) ==
  CASE gm.kind = "meta" -> IF FoundMeta(gm.mv, ok) THEN gm ELSE Is("EIO")
    [] gm.kind = "zip" -> IF Found(gm.mv, ok) THEN StoreStat(gm.mv, gm.path) ELSE Is("EIO")
    [] OTHER -> gm

WebdavStat(p, ok) == Describe(ParsePath(p), ok)
Lstat(p, ok) == Describe(ParsePath(p), ok)
FspStat(p, ok) ==
  IF p = <<>> THEN Is("dir") ELSE IF p = <<hello>> THEN Is("hello") ELSE Describe(ParsePath(p), ok)

\* The answer to a request is seen before the next one is answered.
Seen == answer.op = "none"

Ask(op, p, what, ok) ==
  /\ Seen
  /\ at' = p
  /\ answer' = [op |-> op, what |-> what, ok |-> ok, ents |-> {}, range |-> <<>>]

Stat(p, ok) ==
  /\ \/ frontend = "webdav" /\ Ask("stat", p, WebdavStat(p, ok), ok)
     \/ frontend = "winfsp" /\ Ask("stat", p, FspStat(p, ok), ok)
     \/ frontend = "nfs" /\ Ask("stat", p, Lstat(p, ok), ok)
  /\ UNCHANGED <<frontend, node, file, pathContents>>

\* Those that parse paths forget the path with the request.
See ==
  /\ ~Seen /\ frontend # "fuse"
  /\ at' = <<>>
  /\ answer' = NoAnswer
  /\ UNCHANGED <<frontend, node, file, pathContents>>

\* Nothing is opened to be written.
OpenToWrite(p) ==
  /\ frontend \in {"webdav", "winfsp"}
  /\ Ask("write", p, Is("EPERM"), TRUE)
  /\ UNCHANGED <<frontend, node, file, pathContents>>

\* webdavFS.OpenFile gets a file at once, and the names in a directory.
WebdavOpenFile(p, ok) ==
  LET o == WebdavStat(p, ok) IN
  /\ frontend = "webdav" /\ Seen
  /\ at' = p
  /\ answer' = [op |-> "open", what |-> o, ok |-> ok, range |-> <<>>,
                ents |-> IF o.kind = "zipdir" THEN StoreReaddir(o.mv, o.path) ELSE {}]
  /\ UNCHANGED <<frontend, node, file, pathContents>>

\* What billyFS.ReadDir lists of what is not in a module.
OutsideZip(p) ==
  {<<openSetFile, "file">>}
  \cup (IF p = <<>> THEN {<<statusFile, "status">>, <<cache, "dir">>} ELSE {})
  \cup (IF p = <<cache>> THEN {<<download, "dir">>} ELSE {})

\* billyFS.ReadDir.  The error of getZipRoot is returned (found), that of Readdir dropped.
ReadDir(p, found, ok) ==
  LET gm == ParsePath(p)
      zip == gm.kind = "zip"
      there == zip /\ Found(gm.mv, found)
  IN /\ frontend = "nfs" /\ Seen
     /\ at' = p
     /\ answer' = [op |-> "readdir", ok |-> found /\ ok, range |-> <<>>,
                   what |-> IF zip /\ ~there THEN Is("EIO") ELSE gm,
                   ents |-> IF there /\ ok THEN StoreReaddir(gm.mv, gm.path)
                            ELSE IF zip \/ gm.kind = "ENOENT" THEN {} ELSE OutsideZip(p)]
     /\ UNCHANGED <<frontend, node, file, pathContents>>

\* fspFS.OpenFile gets the names in a directory, but not the contents of a module's file.
FspOpenFile(h, p, ok) ==
  LET o == FspStat(p, ok) IN
  /\ frontend = "winfsp" /\ Seen
  /\ file[h].pc \in {"closed", "open"}
  /\ at' = p
  /\ answer' = [op |-> "open", what |-> o, ok |-> ok, range |-> <<>>,
                ents |-> IF o.kind = "zipdir" THEN StoreReaddir(o.mv, o.path) ELSE {}]
  /\ file' = [file EXCEPT ![h] =
       IF o.kind = "file" THEN [pc |-> "open", obj |-> o, contents |-> Is("none"), off |-> 0] ELSE Closed]
  /\ UNCHANGED <<frontend, node, pathContents>>

-----------------------------------------------------------------------------
(* Reads through the cache by path *)

\* Mutant: the module version is left out of the key.
PathContentsKeyOfPath(mv, path) == [mv |-> None, path |-> path]

PathContentsKey(mv, path) == [mv |-> mv, path |-> path]
Key(h) == PathContentsKey(file[h].obj.mv, file[h].obj.path)
Places(key) == {i \in DOMAIN pathContents : pathContents[i].key = key}
Others(key) ==
  IF Places(key) = {} THEN pathContents
  ELSE SubSeq(pathContents, 1, Min(Places(key)) - 1)
       \o SubSeq(pathContents, Min(Places(key)) + 1, Len(pathContents))
Used(e) == <<e>> \o Others(e.key)
SizeOf(o) == IF o.kind = "file" THEN Size(o.path) ELSE 1

\* The size of the entries, whose keys differ: that of the set of their bytes.
TotalSize(s) == Cardinality(UNION {{s[i].key} \X (1..SizeOf(s[i].val)) : i \in DOMAIN s})

\* Mutant: the entries are counted, not their sizes.
FitsByNumber(s) == SubSeq(s, 1, IF Len(s) > MaxSize THEN MaxSize ELSE Len(s))

\* The entries that are kept: those used longest ago go until the rest fits.
Fits(s) == SubSeq(s, 1, Max({n \in 0..Len(s) : TotalSize(SubSeq(s, 1, n)) <= MaxSize}))

\* One byte at off, or none at the end.
Bytes(o, off) == IF off < SizeOf(o) THEN <<off, off + 1>> ELSE <<>>
Answer(op, what, range, ok) ==
  answer' = [op |-> op, what |-> what, ok |-> ok, ents |-> {}, range |-> range]

\* winFSPRegularFile.ReadAt: the data that the file has, or that the cache has.  If
\* neither, the file stays locked until ReadMiss.
ReadAt(h, off) ==
  LET hit == Places(Key(h))
      has == file[h].contents # Is("none")
      data == IF has THEN file[h].contents ELSE pathContents[Min(hit)].val
  IN /\ frontend = "winfsp" /\ Seen /\ file[h].pc = "open"
     /\ IF has \/ hit # {}
          THEN /\ file' = [file EXCEPT ![h].contents = data]
               /\ at' = RootOf(file[h].obj.mv) \o file[h].obj.path
               /\ pathContents' = IF has THEN pathContents ELSE Used(pathContents[Min(hit)])
               /\ Answer("read", data, Bytes(data, off), TRUE)
          ELSE /\ file' = [file EXCEPT ![h].pc = "miss", ![h].off = off]
               /\ UNCHANGED <<at, answer, pathContents>>
     /\ UNCHANGED <<frontend, node>>

\* getFileContents after a miss: the file of the store goes into the cache, which
\* another read of it may have done by now.  A failure is not kept.
ReadMiss(h, ok) ==
  LET data == StoreStat(file[h].obj.mv, file[h].obj.path) IN
  /\ file[h].pc = "miss" /\ Seen
  /\ at' = RootOf(file[h].obj.mv) \o file[h].obj.path
  /\ file' = [file EXCEPT ![h].pc = "open", ![h].off = 0, ![h].contents = IF ok THEN data ELSE @]
  /\ pathContents' = IF ok THEN Fits(Used([key |-> Key(h), val |-> data])) ELSE pathContents
  /\ IF ok THEN Answer("read", data, Bytes(data, file[h].off), ok) ELSE Answer("read", Is("EIO"), <<>>, ok)
  /\ UNCHANGED <<frontend, node>>

-----------------------------------------------------------------------------
(* FUSE *)

Node(t, segs) == [t |-> t, segs |-> segs, obj |-> Is("dir"), have |-> FALSE]
NodeOf(t, o) == [t |-> t, segs |-> <<>>, obj |-> o, have |-> t = "memFile"]
Errno(e) == NodeOf("errno", Is(e))

\* moduleNameNode.Lookup, in the root directory.
LookupTop(n) ==
  LET platform == CutAt(Tail(n), "-") IN
  IF n = cache THEN Node("cacheRoot", <<>>)
  ELSE IF n = statusFile THEN NodeOf("statusFile", Is("status"))
  ELSE IF IsPlatform(platform) THEN Node("tsgoRoot", <<platform[1][1], platform[2][1]>>)
  ELSE Errno("ENOENT")

\* moduleNameNode.Lookup: a name with an @ ends the path of the module.
LookupModuleName(segs, n, ok) ==
  LET cut == CutAt(n, "@")
      mv == ParseModVersion(segs \o <<cut[1]>>, cut[2])
  IN IF segs = <<>> /\ (n \in {cache, statusFile} \/ n[1] = "tsgo-") THEN LookupTop(n)
     ELSE IF ~Contains(n, "@") THEN Node("moduleName", Append(segs, n))
     ELSE IF mv = None \/ ~Found(mv, ok) THEN Errno("EIO")
     ELSE NodeOf("underZipRoot", Obj("zipdir", mv, <<>>))

\* pathUnderZipRoot.Lookup, in the entries that the node has or gets.
LookupUnderZipRoot(o, n, ok) ==
  LET child == StoreStat(o.mv, Append(o.path, n)) IN
  IF o.kind # "zipdir" THEN Errno("ENOTDIR")
  ELSE IF ~ok THEN Errno("EIO")
  ELSE IF child.kind = "ENOENT" THEN Errno("ENOENT") ELSE NodeOf("underZipRoot", child)

LookupCacheRoot(n) == IF n = download THEN Node("download", <<>>) ELSE Errno("ENOENT")

\* Mutant: the path of a module under cache/download is one name.
LookupDownloadOneName(segs, n) ==
  IF n = atV THEN Node("atV", UnescapePath(segs))
  ELSE IF segs = <<>> THEN Node("download", <<n>>) ELSE Errno("ENOENT")

\* cacheDownloadNode.Lookup: @v ends the path of the module, which is unescaped.
LookupDownload(segs, n) ==
  IF n # atV THEN Node("download", Append(segs, n))
  ELSE IF ValidPath(segs) THEN Node("atV", UnescapePath(segs)) ELSE Errno("EIO")

\* infoTmpRx, of the temporary files that cmd/go makes of an info file.
IsInfoTmp(n) == Ext(n) = "tmp" /\ Ext(TrimExt(n)) \in InfoTmps

\* lookupUnderModule: the version is the name without its extension, as it is written.
LookupUnderModule(mod, n, ok) ==
  LET mv == [mod |-> mod, ver |-> TrimExt(n)] IN
  IF Ext(n) = "partial" \/ IsInfoTmp(n) THEN Errno("ENOENT")
  ELSE IF Ext(n) \in Exts /\ FoundMeta(mv, ok) THEN NodeOf("memFile", Obj("meta", mv, <<<<Ext(n)>>>>))
  ELSE Errno("EIO")

\* tsgoRoot.Lookup: the toolchain is got for the .extracted file too.
LookupTSGoRoot(platform, n, ok) ==
  LET extracted == Ext(n) = "extracted"
      hash == IF extracted THEN TrimExt(n) ELSE n
      mv == [mod |-> TailscaleGo, ver |-> TSGoVersion(platform[1], platform[2], hash[1])]
  IN IF Len(hash) # 1 \/ hash[1] \notin LowerHashes THEN Errno("ENOENT")
     ELSE IF ~Found(mv, ok) THEN Errno("EIO")
     ELSE IF extracted THEN NodeOf("memFile", Obj("extracted", mv, <<>>))
     ELSE NodeOf("underZipRoot", Obj("zipdir", mv, <<>>))

Child(d, n, ok) ==
  CASE d.t = "moduleName" -> LookupModuleName(d.segs, n, ok)
    [] d.t = "underZipRoot" -> LookupUnderZipRoot(d.obj, n, ok)
    [] d.t = "cacheRoot" -> LookupCacheRoot(n)
    [] d.t = "download" -> LookupDownload(d.segs, n)
    [] d.t = "atV" -> LookupUnderModule(d.segs, n, ok)
    [] d.t = "tsgoRoot" -> LookupTSGoRoot(d.segs, n, ok)
    [] OTHER -> Errno("ENOTDIR")

\* The kernel walks another path.
Walk ==
  /\ frontend = "fuse"
  /\ at' = <<>>
  /\ node' = RootNode
  /\ answer' = NoAnswer
  /\ UNCHANGED <<frontend, file, pathContents>>

\* The walk goes on from the node that was found; an error ends it.
Lookup(n, ok) ==
  LET child == Child(node, n, ok) IN
  /\ frontend = "fuse"
  /\ node.t # "errno"
  /\ Append(at, n) \in Paths
  /\ at' = Append(at, n)
  /\ node' = child
  /\ Answer("stat", child.obj, <<>>, ok)
  /\ UNCHANGED <<frontend, file, pathContents>>

\* pathUnderZipRoot.Readdir.
Readdir(ok) ==
  /\ frontend = "fuse"
  /\ node.t = "underZipRoot" /\ node.obj.kind = "zipdir"
  /\ answer' = [op |-> "readdir", what |-> IF ok THEN node.obj ELSE Is("EIO"), ok |-> ok, range |-> <<>>,
                ents |-> IF ok THEN StoreReaddir(node.obj.mv, node.obj.path) ELSE {}]
  /\ UNCHANGED <<frontend, at, node, file, pathContents>>

\* pathUnderZipRoot.Read and memFile.Read, of which the kernel asks for nothing after
\* the end.  The contents are got once.
Read(off, ok) ==
  /\ frontend = "fuse"
  /\ node.t = "memFile" \/ (node.t = "underZipRoot" /\ node.obj.kind = "file")
  /\ off <= SizeOf(node.obj)
  /\ node' = [node EXCEPT !.have = @ \/ ok]
  /\ IF node.have \/ ok THEN Answer("read", node.obj, Bytes(node.obj, off), ok)
                        ELSE Answer("read", Is("EIO"), <<>>, ok)
  /\ UNCHANGED <<frontend, at, file, pathContents>>

\* statusFileNode.Read: direct I/O, for which the kernel does not look at the size.
\* A slice that starts after its end is a panic.
ReadStatus(off) ==
  /\ frontend = "fuse"
  /\ node.t = "statusFile"
  /\ Answer("read", IF off > SizeOf(node.obj) THEN Is("panic") ELSE node.obj, Bytes(node.obj, off), TRUE)
  /\ UNCHANGED <<frontend, at, node, file, pathContents>>

-----------------------------------------------------------------------------
\* Bound: while WinFsp has files open, only files are asked for.  No answer depends on
\* the files that are open.
Asked == IF \A h \in Handles : file[h] = Closed THEN Paths
         ELSE {p \in Ways : \E o \in At(p) : o.kind = "file"}

Next ==
  \/ \E p \in Asked, ok \in BOOLEAN :
       \/ Stat(p, ok) \/ WebdavOpenFile(p, ok)
       \/ \E found \in BOOLEAN : ReadDir(p, found, ok)
       \/ \E h \in Handles : FspOpenFile(h, p, ok)
  \/ \E p \in Asked : OpenToWrite(p)
  \/ See
  \/ \E h \in Handles, off \in 0..MaxOffset : ReadAt(h, off)
  \/ \E h \in Handles, ok \in BOOLEAN : ReadMiss(h, ok)
  \/ \E n \in Names, ok \in BOOLEAN : Lookup(n, ok)
  \/ Walk
  \/ \E ok \in BOOLEAN : Readdir(ok)
  \/ \E off \in 0..MaxOffset, ok \in BOOLEAN : Read(off, ok)
  \/ \E off \in 0..MaxOffset : ReadStatus(off)

Spec == Init /\ [][Next]_vars

-----------------------------------------------------------------------------
(* Properties *)

\* Dot files of a toolchain are not there for those that parse paths (a TODO of parsePath).
HiddenDotFile(p) == frontend # "fuse" /\ IsTSGo(p) /\ IsDotFile(p)

\* The name that NFS lists in directories whose names it does not know.
IsOpenSet(n) == frontend = "nfs" /\ n = openSetFile

\* FUSE takes the version of a metadata file as it is written.
AsWritten(o) == o.kind = "meta" /\ EscapeAll(o.mv.ver) # o.mv.ver
WrittenVersion(o) == frontend = "fuse" /\ AsWritten(o)

\* Those that parse paths answer for an .extracted file of any hash.
OfAnyHash(o) == frontend # "fuse" /\ o.kind = "extracted"

\* getZipRoot also finds a toolchain by the path of its module and its version.
ByModulePath(o) == o.kind \in {"file", "zipdir"} /\ o.mv \in Toolchains /\ at = ModuleDir(o.mv) \o o.path

\* What leads to something placed, and is not placed itself.
Above(p) == At(p) = {} /\ \E y \in Placed : IsPrefix(p, y[1])

\* The variables have their types, and what pathContents keeps is no larger than MaxSize.
TypeOK ==
  /\ frontend \in {"fuse", "webdav", "winfsp", "nfs"}
  /\ at \in Paths
  /\ node.t \in {"moduleName", "underZipRoot", "cacheRoot", "download", "atV", "tsgoRoot",
                 "statusFile", "memFile", "errno"}
  /\ \A h \in Handles : file[h].pc \in {"closed", "open", "miss"}
  /\ TotalSize(pathContents) <= MaxSize
  /\ \A i, j \in DOMAIN pathContents : pathContents[i].key = pathContents[j].key => i = j

\* Every front end finds at a path what the layout places there, and no file where the
\* layout has none: parsePath on the whole path, and FUSE with the nodes of its names.
LayoutIsServed ==
  answer.op \in {"stat", "open"} =>
    \/ answer.what \in At(at)
    \/ At(at) = {} /\ answer.what.kind \in {"dir", "ENOENT", "ENOTDIR", "EIO", "hello"}
    \/ At(at) = {} /\ (OfAnyHash(answer.what) \/ WrittenVersion(answer.what) \/ ByModulePath(answer.what))
    \/ answer.what.kind = "EIO" /\ (~answer.ok \/ \E o \in At(at) : WrittenVersion(o))
    \/ answer.what.kind = "ENOENT" /\ HiddenDotFile(at)

\* What leads to something that the layout places is a directory for every front end,
\* whatever the store does: no walk or path ends before it gets there.
DirectoriesAreServed == answer.op \in {"stat", "open"} /\ Above(at) => answer.what.kind = "dir"

\* Also the metadata of a version with upper-case letters.
EscapedVersionsAreServed ==
  answer.op = "stat" /\ answer.ok => \A o \in At(at) : o.kind = "meta" => answer.what = o

\* A name that is listed in a directory can be found there by the same front end, and is
\* then the kind of file that the list says.  There are two exceptions: the dot files of a
\* toolchain, which the store lists and parsePath hides, and the .vfs-openset-dir of NFS,
\* which stands for the files that cannot be listed and is never there.
ListedIsThere ==
  \A e \in answer.ents :
    LET p == Append(at, e[1])
        found == CASE frontend = "fuse" -> Child(node, e[1], TRUE).obj
                   [] frontend = "webdav" -> WebdavStat(p, TRUE)
                   [] frontend = "winfsp" -> FspStat(p, TRUE)
                   [] OTHER -> Lstat(p, TRUE)
    IN found.kind = e[2] \/ HiddenDotFile(p) \/ IsOpenSet(e[1])

\* What is read at a path is the contents of the file that the layout places there, as
\* far as they go, also from the cache and after a read that failed.
ReadsTheFile ==
  answer.op = "read" /\ answer.what.kind \notin {"EIO", "panic"} =>
    /\ answer.what \in At(at) \/ WrittenVersion(answer.what) \/ ByModulePath(answer.what)
    /\ answer.range # <<>> => answer.range[2] <= SizeOf(answer.what)

-----------------------------------------------------------------------------
(* The inductive invariant *)

\* What parsePath makes of a path, if dot files of toolchains are not hidden.
Parsed(p) == IF IsTSGo(p) THEN ParseTSGoPath(p) ELSE ParsePath(p)

IsFile(o) == o.mv \in DOMAIN Files /\ o.path \in Files[o.mv] /\ o = Obj("file", o.mv, o.path)

\* The files that WinFsp has open are files of modules, and have no contents but theirs.
FilesInv ==
  /\ file = [h \in Handles |-> [pc |-> file[h].pc, obj |-> file[h].obj,
                               contents |-> file[h].contents, off |-> file[h].off]]
  /\ \A h \in Handles :
       /\ file[h].pc # "closed" => frontend = "winfsp" /\ IsFile(file[h].obj)
       /\ file[h].contents \in {Is("none"), file[h].obj}
       /\ file[h].off \in Nat

\* The cache by path has the file of its key.
Entry(mv, f) == [key |-> [mv |-> mv, path |-> f], val |-> Obj("file", mv, f)]
Entries == UNION {{Entry(mv, f) : f \in Files[mv]} : mv \in DOMAIN Files}
CacheInv == pathContents \in Seq(Entries)

\* A path to metadata.
UnderAtV(p) == Len(p) >= 5 /\ SubSeq(p, 1, 2) = <<cache, download>> /\ p[Len(p) - 1] = atV

\* A FUSE node is one for the path that was walked.
NodeAt(d, p) ==
  /\ d = [t |-> d.t, segs |-> d.segs, obj |-> d.obj, have |-> d.have]
  /\ d.t = "moduleName" =>
       /\ d.segs = p /\ \A i \in DOMAIN p : ~Contains(p[i], "@")
       /\ p # <<>> => p[1] \notin {cache, statusFile} /\ p[1][1] # "tsgo-"
  /\ d.t = "cacheRoot" => p = <<cache>>
  /\ d.t = "download" =>
       /\ d.segs \in Seq(Name) /\ p = <<cache, download>> \o d.segs
       /\ \A i \in DOMAIN d.segs : d.segs[i] # atV
  /\ d.t = "atV" =>
       \E segs \in {SubSeq(p, 3, Len(p) - 1)} \cap Seq(Name) :
         p = <<cache, download>> \o segs \o <<atV>> /\ ValidPath(segs) /\ d.segs = UnescapePath(segs)
  /\ d.t = "tsgoRoot" => d.segs \in Platforms /\ p = <<<<"tsgo-", d.segs[1], "-", d.segs[2]>>>>
  /\ d.t = "statusFile" => p = <<statusFile>> /\ d.obj = Is("status")
  /\ d.t = "memFile" =>
       /\ d.obj \in At(p) \/ AsWritten(d.obj)
       /\ \/ d.obj.kind = "meta" /\ UnderAtV(p)
          \/ d.obj.kind = "extracted" /\ d.obj.mv \in Toolchains /\ p = Extracted(d.obj.mv)
  /\ d.t = "underZipRoot" =>
       /\ d.obj.mv \in DOMAIN Files /\ d.obj.kind \in {"file", "zipdir"}
       /\ d.obj = StoreStat(d.obj.mv, d.obj.path)
       /\ Parsed(p) = Obj("zip", d.obj.mv, d.obj.path)

NodeInv == frontend = "fuse" => NodeAt(node, at)

IInv ==
  TypeOK /\ FilesInv /\ CacheInv /\ NodeInv /\ LayoutIsServed /\ ListedIsThere /\ ReadsTheFile
=============================================================================

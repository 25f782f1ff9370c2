-------------------------- MODULE RemoteStoreProofs --------------------------
(***************************************************************************)
(* Proofs about RemoteStore: for any number of callers, any modules and    *)
(* any trees that a store can hold.                                        *)
(***************************************************************************)
EXTENDS RemoteStore, SequenceTheorems, TLAPS

-----------------------------------------------------------------------------
(* What the file map says of a tree *)

\* A file is not a directory, and not the root.
LEMMA FilesAreNodes ==
  ASSUME NEW m \in Mods, NEW p
  PROVE  /\ p \in WalkFiles(m) <=> p \in Nodes(m) \ DOMAIN Tree[m]
         /\ p \in WalkFiles(m) => p \in Seq(Names) /\ p # Root /\ Len(p) \in Nat /\ Len(p) >= 1
<1>1. p \in WalkFiles(m) <=> p \in Nodes(m) \ DOMAIN Tree[m] BY DEF WalkFiles, StoreStat
<1>2. ASSUME p \in WalkFiles(m) PROVE p \in Seq(Names) /\ p # Root /\ Len(p) \in Nat /\ Len(p) >= 1
  <2>1. p \in Seq(Names) BY <1>1, <1>2, TreeAssumption
  <2>2. p # Root BY <1>1, <1>2, TreeAssumption
  <2>3. Len(p) \in Nat /\ Len(p) # 0 BY <2>1, <2>2, EmptySeq DEF Root
  <2>4. QED BY <2>1, <2>2, <2>3
<1>3. QED BY <1>1, <1>2

\* A directory is a sequence of names.
LEMMA DirsAreNodes ==
  ASSUME NEW m \in Mods, NEW d \in DOMAIN Tree[m]
  PROVE  d \in Nodes(m) /\ d \in Seq(Names) /\ Len(d) \in Nat
<1>1. d \in Nodes(m) BY DEF Nodes
<1>2. d \in Seq(Names) BY <1>1, TreeAssumption
<1>3. QED BY <1>1, <1>2

\* The directories that the file map implies: all but a root that has no files.
LEMMA ImpliedDirs ==
  ASSUME NEW m \in Mods, NEW d
  PROVE  d \in DOMAIN BuildDirMap(WalkFiles(m)) <=>
           d \in DOMAIN Tree[m] /\ (d = Root => WalkFiles(m) # {})
<1>. DEFINE files == WalkFiles(m)
            dirs == UNION {{SubSeq(p, 1, i) : i \in 0..(Len(p) - 1)} : p \in files}
<1>1. DOMAIN BuildDirMap(files) = dirs BY DEF BuildDirMap
<1>2. ASSUME d \in dirs PROVE d \in DOMAIN Tree[m] /\ files # {}
  <2>1. PICK p \in files : d \in {SubSeq(p, 1, i) : i \in 0..(Len(p) - 1)} BY <1>2
  <2>2. PICK i \in 0..(Len(p) - 1) : d = SubSeq(p, 1, i) BY <2>1
  <2>3. p \in Nodes(m) BY <2>1, FilesAreNodes
  <2>4. QED BY <2>1, <2>2, <2>3, TreeAssumption
<1>3. ASSUME d = Root, files # {} PROVE d \in dirs
  <2>1. PICK p \in files : TRUE BY <1>3
  <2>2. p \in Seq(Names) /\ Len(p) \in Nat /\ Len(p) >= 1 BY <2>1, FilesAreNodes
  <2>3. SubSeq(p, 1, 0) = <<>> BY <2>2, SubSeqEmpty
  <2>4. 0 \in 0..(Len(p) - 1) BY <2>2
  <2>5. QED BY <1>3, <2>1, <2>3, <2>4 DEF Root
<1>4. ASSUME d \in DOMAIN Tree[m], d # Root PROVE d \in dirs
  <2>1. PICK p \in files : Below(p, d) BY <1>4, TreeAssumption
  <2>2. Len(p) \in Nat /\ Len(d) \in Nat BY <1>4, <2>1, FilesAreNodes, DirsAreNodes
  <2>3. Len(d) \in 0..(Len(p) - 1) /\ SubSeq(p, 1, Len(d)) = d BY <2>1, <2>2 DEF Below
  <2>4. \E i \in 0..(Len(p) - 1) : d = SubSeq(p, 1, i) BY <2>3
  <2>5. d \in {SubSeq(p, 1, i) : i \in 0..(Len(p) - 1)} BY <2>4
  <2>6. QED BY <2>1, <2>5
<1>. HIDE DEF dirs
<1>5. QED BY <1>1, <1>2, <1>3, <1>4

\* The names of the entries of a directory are those of the next step to its files.
LEMMA ImpliedNames ==
  ASSUME NEW m \in Mods, NEW d \in DOMAIN Tree[m]
  PROVE  {p[Len(d) + 1] : p \in {q \in WalkFiles(m) : Below(q, d)}} = DOMAIN Tree[m][d]
<1>. DEFINE files == WalkFiles(m)
            names == {p[Len(d) + 1] : p \in {q \in files : Below(q, d)}}
<1>1. d \in Seq(Names) /\ Len(d) \in Nat BY DirsAreNodes
<1>2. ASSUME NEW n \in names PROVE n \in DOMAIN Tree[m][d]
  <2>1. PICK p \in files : Below(p, d) /\ n = p[Len(d) + 1] BY <1>2
  <2>2. p \in Nodes(m) /\ Len(p) \in Nat BY <2>1, FilesAreNodes
  <2>3. Len(d) \in 0..(Len(p) - 1) /\ SubSeq(p, 1, Len(d)) = d BY <1>1, <2>1, <2>2 DEF Below
  <2>4. p[Len(d) + 1] \in DOMAIN Tree[m][SubSeq(p, 1, Len(d))] BY <2>2, <2>3, TreeAssumption
  <2>5. QED BY <2>1, <2>3, <2>4
<1>3. ASSUME NEW n \in DOMAIN Tree[m][d] PROVE n \in names
  <2>. DEFINE e == Append(d, n)
  <2>1. e \in Nodes(m) BY DEF Nodes
  <2>2. n \in Names BY DEF Names
  <2>3. /\ e \in Seq(Names) /\ Len(e) = Len(d) + 1 /\ e[Len(d) + 1] = n
        /\ \A i \in 1..Len(d) : e[i] = d[i]
    BY <1>1, <2>2, AppendProperties
  <2>4. SubSeq(e, 1, Len(d)) = d BY <1>1, <2>2
  <2>. HIDE DEF e
  <2>5. CASE e \notin DOMAIN Tree[m]
    <3>1. e \in files BY <2>1, <2>5, FilesAreNodes
    <3>2. Below(e, d) BY <1>1, <2>3, <2>4 DEF Below
    <3>3. QED BY <2>3, <3>1, <3>2
  <2>6. CASE e \in DOMAIN Tree[m]
    <3>1. e # Root BY <1>1, <2>3, EmptySeq DEF Root
    <3>2. PICK p \in files : Below(p, e) BY <2>6, <3>1, TreeAssumption
    <3>3. p \in Seq(Names) /\ Len(p) \in Nat BY <3>2, FilesAreNodes
    <3>4. Len(p) > Len(e) /\ SubSeq(p, 1, Len(e)) = e BY <3>2 DEF Below
    <3>5. Len(p) > Len(d) + 1 /\ \A i \in 1..(Len(d) + 1) : p[i] = e[i]
      <4>1. \A i \in 1..(Len(d) + 1) : SubSeq(p, 1, Len(d) + 1)[i] = p[i] BY <1>1, <2>3, <3>3, <3>4
      <4>2. QED BY <1>1, <2>3, <3>4, <4>1
    <3>6. p[Len(d) + 1] = n BY <1>1, <2>3, <3>5
    <3>7. SubSeq(p, 1, Len(d)) = d
      <4>. DEFINE t == SubSeq(p, 1, Len(d))
      <4>1. t \in Seq(Names) /\ Len(t) = Len(d) /\ \A i \in 1..Len(d) : t[i] = p[i]
        BY <1>1, <3>3, <3>5
      <4>. HIDE DEF t
      <4>2. \A i \in 1..Len(d) : t[i] = d[i] BY <1>1, <2>3, <3>5, <4>1
      <4>3. t = d BY <1>1, <4>1, <4>2, SeqEqual
      <4>4. QED BY <4>3 DEF t
    <3>8. Below(p, d) BY <1>1, <3>3, <3>5, <3>7 DEF Below
    <3>9. QED BY <3>2, <3>6, <3>8
  <2>7. QED BY <2>5, <2>6
<1>. HIDE DEF names
<1>4. QED BY <1>2, <1>3 DEF names

\* An implied directory has the entries that it has in the tree, files and directories.
LEMMA ImpliedEntries ==
  ASSUME NEW m \in Mods, NEW d \in DOMAIN BuildDirMap(WalkFiles(m))
  PROVE  BuildDirMap(WalkFiles(m))[d] = Tree[m][d]
<1>. DEFINE files == WalkFiles(m)
            names == {p[Len(d) + 1] : p \in {q \in files : Below(q, d)}}
            entries == [n \in names |-> IF Append(d, n) \in files THEN "file" ELSE "dir"]
<1>1. BuildDirMap(files)[d] = entries BY DEF BuildDirMap
<1>2. d \in DOMAIN Tree[m] BY ImpliedDirs
<1>3. names = DOMAIN Tree[m][d] BY <1>2, ImpliedNames
<1>4. ASSUME NEW n \in DOMAIN Tree[m][d]
      PROVE  Append(d, n) \in files <=> Append(d, n) \notin DOMAIN Tree[m]
  <2>1. Append(d, n) \in Nodes(m) BY <1>2 DEF Nodes
  <2>2. QED BY <2>1, FilesAreNodes
<1>5. Tree[m][d] = [n \in DOMAIN Tree[m][d] |->
                      IF Append(d, n) \in DOMAIN Tree[m] THEN "dir" ELSE "file"]
  BY <1>2, TreeAssumption
<1>6. entries = [n \in DOMAIN Tree[m][d] |-> IF Append(d, n) \in files THEN "file" ELSE "dir"]
  BY <1>3
<1>. HIDE DEF entries, files
<1>7. entries = Tree[m][d] BY <1>4, <1>5, <1>6
<1>8. QED BY <1>1, <1>7 DEF files

\* A root that has no files has no entries.
LEMMA EmptyRoot ==
  ASSUME NEW m \in Mods, WalkFiles(m) = {} PROVE Tree[m][Root] = <<>>
<1>1. Root \in DOMAIN Tree[m] BY TreeAssumption
<1>2. DOMAIN Tree[m][Root] = {}
  <2>1. {p[Len(Root) + 1] : p \in {q \in WalkFiles(m) : Below(q, Root)}} = {} OBVIOUS
  <2>2. QED BY <1>1, <2>1, ImpliedNames
<1>3. Tree[m][Root] = [n \in DOMAIN Tree[m][Root] |->
                         IF Append(Root, n) \in DOMAIN Tree[m] THEN "dir" ELSE "file"]
  BY <1>1, TreeAssumption
<1>4. <<>> = [n \in {} |-> IF Append(Root, n) \in DOMAIN Tree[m] THEN "dir" ELSE "file"] OBVIOUS
<1>5. QED BY <1>2, <1>3, <1>4

\* Stat and Readdir over the whole file map are those of the store.
LEMMA MapIsTree ==
  ASSUME NEW m \in Mods, modmaps[m] = WalkFiles(m), NEW p
  PROVE  Stat(m, p) = StoreStat(m, p) /\ Readdir(m, p) = StoreReaddir(m, p)
<1>. DEFINE dirs == BuildDirMap(WalkFiles(m))
<1>1. Root \in DOMAIN Tree[m] BY TreeAssumption
<1>2. p \in DOMAIN dirs <=> p \in DOMAIN Tree[m] /\ (p = Root => WalkFiles(m) # {}) BY ImpliedDirs
<1>3. p \in DOMAIN dirs => dirs[p] = Tree[m][p] BY ImpliedEntries
<1>4. WalkFiles(m) = {} => Tree[m][Root] = <<>> BY EmptyRoot
<1>5. p \in WalkFiles(m) <=> p \in Nodes(m) \ DOMAIN Tree[m] BY FilesAreNodes
<1>6. p \in DOMAIN Tree[m] => p \in Nodes(m) BY DirsAreNodes
<1>. HIDE DEF dirs
<1>7. Stat(m, p) = StoreStat(m, p) BY <1>1, <1>2, <1>5, <1>6 DEF Stat, StoreStat, dirs
<1>8. Readdir(m, p) = StoreReaddir(m, p)
  BY <1>1, <1>2, <1>3, <1>4 DEF Readdir, StoreReaddir, dirs
<1>9. QED BY <1>7, <1>8

-----------------------------------------------------------------------------
(* The inductive invariant *)

\* Where a call is that leads a flight, or that has none because it is for a file.
Lead == {"recheck", "send", "sent", "walk", "replied", "land"}

\* What a call is for: a file only if the client has the file map with it.
Shape(c) ==
  LET x == call[c] IN
  /\ x = [at |-> x.at, key |-> x.key, path |-> x.path, result |-> x.result]
  /\ x.at \in Lead \cup {"do", "wait", "done"}
  /\ x.key \in Keys \cup ({"file"} \X Mods) \cup {<<"none", "none">>}
  /\ x.at \in {"do", "wait", "recheck", "walk", "land"} => x.key \in Keys
  /\ x.at \in {"recheck", "walk"} => Kind(c) = "modmap"
  /\ x.at \in {"send", "sent", "replied"} =>
       \/ x.key \in Keys
       \/ /\ x.key \in {"file"} \X Mods
          /\ x.path \in WalkFiles(Mod(c)) /\ modmaps[Mod(c)] # NoMap

\* What the server replies: what it has, that the file is there, or that it may not download.
Got(c) ==
  LET status == call[c].result.status IN
  IF Kind(c) = "file" THEN call[c].result \in {Is("failed"), Data(call[c].path)}
  ELSE \/ status = "failed"
       \/ status = "ok" /\ call[c].key \in have
       \/ status = "miss" /\ readOnly

CallOK(c) ==
  /\ Shape(c)
  /\ At(c) = "replied" => Got(c)
  /\ At(c) \in {"land", "done"} => Answered(c)

\* A flight has one leader, and those who wait have a flight.
FlightOK ==
  /\ \A k \in Keys :
       /\ flight[k] \in Callers \cup {NoCaller}
       /\ flight[k] # NoCaller => call[flight[k]].key = k /\ At(flight[k]) \in Lead
  /\ \A c \in Callers :
       /\ At(c) = "wait" => flight[call[c].key] # NoCaller
       /\ call[c].key \in Keys /\ At(c) \in Lead => flight[call[c].key] = c

\* The cache of the server.
CacheOK ==
  /\ modmapLZ \in Seq(Mods) /\ NoDuplicates(modmapLZ) /\ Len(modmapLZ) <= MaxCachedModMaps
  /\ \A m \in Mods : Listed(modmapLZ, m) => <<"modmap", m>> \in have

\* The file maps of the client: whole, and of modules that the server has.
MapsOK ==
  \A m \in Mods : /\ modmaps[m] \in {NoMap, WalkFiles(m)}
                  /\ modmaps[m] # NoMap => <<"modmap", m>> \in have

Domains ==
  /\ have \subseteq Keys /\ meta \subseteq Keys
  /\ DOMAIN flight = Keys /\ DOMAIN call = Callers /\ DOMAIN modmaps = Mods

IInv == Domains /\ CacheOK /\ MapsOK /\ FlightOK /\ \A c \in Callers : CallOK(c)

-----------------------------------------------------------------------------
(* What steps have in common *)

\* A key has a kind, which is neither that of a file nor that of no call, and a module.
LEMMA KeyKinds ==
  ASSUME NEW k \in Keys
  PROVE  /\ k = <<k[1], k[2]>> /\ k[2] \in Mods
         /\ k[1] = "modmap" \/ k[1] \in Exts
         /\ k[1] \notin {"file", "none"} /\ (k[1] \in Exts => k[1] # "modmap")
BY RemoteStoreAssumption DEF Keys

\* The answer to a call for a file map or a metadata file.
LEMMA AnsweredKey ==
  ASSUME NEW c, call[c].key \in Keys
  PROVE  Answered(c) <=>
           \/ call[c].result.status = "failed"
           \/ call[c].result.status = "ok" /\ (IF Kind(c) = "modmap" THEN modmaps[Mod(c)] # NoMap
                                                                     ELSE call[c].key \in meta)
           \/ call[c].result.status = "miss" /\ readOnly
<1>1. Kind(c) \notin {"file", "none"} BY KeyKinds DEF Kind
<1>2. CASE Kind(c) = "modmap" BY <1>1, <1>2 DEF Answered
<1>3. CASE Kind(c) # "modmap" BY <1>1, <1>3 DEF Answered
<1>4. QED BY <1>2, <1>3

\* The answer to a call for a file.
LEMMA AnsweredFile ==
  ASSUME NEW c, Kind(c) = "file"
  PROVE  Answered(c) <=> call[c].result \in {Is("failed"), StoreGetFile(Mod(c), call[c].path)}
BY DEF Answered

\* Nothing that a call relies on is taken away.
Grows ==
  /\ \A m \in Mods : modmaps[m] # NoMap => modmaps'[m] # NoMap
  /\ have \subseteq have' /\ meta \subseteq meta' /\ UNCHANGED readOnly

\* A call that makes no step stays right.
LEMMA OtherCall ==
  ASSUME NEW d, CallOK(d), call'[d] = call[d], Grows
  PROVE  CallOK(d)'
<1>1. Kind(d)' = Kind(d) /\ Mod(d)' = Mod(d) /\ At(d)' = At(d) BY DEF Kind, Mod, At
<1>2. Shape(d)'
  <2>1. CASE call[d].key \in {"file"} \X Mods
    <3>1. Mod(d) \in Mods BY <2>1 DEF Mod
    <3>2. QED BY <1>1, <3>1 DEF CallOK, Shape, Grows
  <2>2. CASE call[d].key \notin {"file"} \X Mods BY <1>1, <2>2 DEF CallOK, Shape
  <2>3. QED BY <2>1, <2>2
<1>3. At(d)' = "replied" => Got(d)' BY <1>1 DEF CallOK, Got, Grows
<1>4. At(d)' \in {"land", "done"} => Answered(d)'
  <2>1. SUFFICES ASSUME Answered(d) PROVE Answered(d)' BY <1>1 DEF CallOK
  <2>2. CASE Kind(d) = "none" BY <1>1, <2>2 DEF Answered
  <2>3. CASE Kind(d) = "file" BY <1>1, <2>1, <2>3 DEF Answered
  <2>4. CASE call[d].key \in Keys
    <3>1. Mod(d) \in Mods /\ Kind(d) \notin {"file", "none"} BY <2>4, KeyKinds DEF Mod, Kind
    <3>2. CASE Kind(d) = "modmap" BY <1>1, <2>1, <3>1, <3>2 DEF Answered, Grows
    <3>3. CASE Kind(d) # "modmap" BY <1>1, <2>1, <3>1, <3>3 DEF Answered, Grows
    <3>4. QED BY <3>2, <3>3
  <2>5. QED BY <2>2, <2>3, <2>4 DEF Kind, CallOK, Shape
<1>5. QED BY <1>2, <1>3, <1>4 DEF CallOK

\* A step of one call.
LEMMA OneCall ==
  ASSUME IInv, NEW c \in Callers, NEW x, call' = [call EXCEPT ![c] = x], Grows,
         have' \subseteq Keys, meta' \subseteq Keys, DOMAIN flight' = Keys, DOMAIN modmaps' = Mods,
         CacheOK', MapsOK', FlightOK', CallOK(c)'
  PROVE  IInv'
<1>1. DOMAIN call = Callers BY DEF IInv, Domains
<1>2. ASSUME NEW d \in Callers, d # c PROVE CallOK(d)'
  <2>1. call'[d] = call[d] BY <1>1, <1>2
  <2>2. QED BY <2>1, OtherCall DEF IInv
<1>3. QED BY <1>1, <1>2 DEF IInv, Domains

\* What is known of the caches is kept when the store of the server grows.
LEMMA MoreOnServer ==
  ASSUME IInv, have \subseteq have'
  PROVE  /\ UNCHANGED modmapLZ => CacheOK'
         /\ UNCHANGED modmaps => MapsOK'
BY DEF IInv, CacheOK, MapsOK

\* A step of a call that leads no other flight than before.
LEMMA SameFlights ==
  ASSUME IInv, NEW c \in Callers, NEW x, call' = [call EXCEPT ![c] = x], UNCHANGED flight,
         x.at # "wait",
         \A k \in Keys : flight[k] = c => x.key = k /\ x.at \in Lead,
         x.key \in Keys /\ x.at \in Lead => flight[x.key] = c
  PROVE  FlightOK'
<1>1. call'[c] = x /\ \A d \in Callers : d # c => call'[d] = call[d] BY DEF IInv, Domains
<1>2. QED BY <1>1 DEF IInv, FlightOK, At

\* A leader goes on.
LEMMA LeaderGoesOn ==
  ASSUME IInv, NEW c \in Callers, At(c) \in Lead, NEW at \in Lead, NEW result,
         call' = [call EXCEPT ![c] = Moved(c, at, result)], UNCHANGED flight
  PROVE  FlightOK'
<1>. DEFINE x == Moved(c, at, result)
<1>1. x.at = at /\ x.key = call[c].key BY DEF Moved
<1>2. \A k \in Keys : flight[k] = c => x.key = k
  <2>1. c # NoCaller BY RemoteStoreAssumption
  <2>2. QED BY <1>1, <2>1 DEF IInv, FlightOK
<1>3. x.key \in Keys => flight[x.key] = c BY <1>1 DEF IInv, FlightOK
<1>4. x.at # "wait" BY <1>1 DEF Lead
<1>. HIDE DEF x
<1>5. call' = [call EXCEPT ![c] = x] BY DEF x
<1>6. QED BY <1>1, <1>2, <1>3, <1>4, <1>5, SameFlights

\* A call that has returned leads nothing.
LEMMA NewCall ==
  ASSUME IInv, NEW c \in Callers, At(c) = "done", NEW x, call' = [call EXCEPT ![c] = x],
         UNCHANGED flight, x.at # "wait", x.key \in Keys => x.at \notin Lead
  PROVE  FlightOK'
<1>1. \A k \in Keys : flight[k] # c
  BY RemoteStoreAssumption DEF IInv, FlightOK, Lead
<1>2. QED BY <1>1, SameFlights

\* The fields of a call that has moved.
LEMMA MovedFields ==
  ASSUME IInv, NEW c \in Callers, NEW at, NEW result,
         call' = [call EXCEPT ![c] = Moved(c, at, result)]
  PROVE  /\ call'[c] = [at |-> at, key |-> call[c].key, path |-> call[c].path, result |-> result]
         /\ At(c)' = at /\ Kind(c)' = Kind(c) /\ Mod(c)' = Mod(c)
         /\ call'[c].key = call[c].key /\ call'[c].path = call[c].path
         /\ call'[c].result = result /\ call'[c].at = at
         /\ call'[c] = [at |-> call'[c].at, key |-> call'[c].key, path |-> call'[c].path,
                        result |-> call'[c].result]
<1>1. call'[c] = [at |-> at, key |-> call[c].key, path |-> call[c].path, result |-> result]
  BY DEF IInv, Domains, Moved
<1>2. QED BY <1>1 DEF At, Kind, Mod

\* The same of a call that goes on with the result it has.
LEMMA WentFields ==
  ASSUME IInv, NEW c \in Callers, NEW at, Goto(c, at)
  PROVE  /\ call'[c].at = at /\ call'[c].key = call[c].key /\ call'[c].path = call[c].path
         /\ Kind(c)' = Kind(c) /\ Mod(c)' = Mod(c)
         /\ call'[c] = [at |-> call'[c].at, key |-> call'[c].key, path |-> call'[c].path,
                        result |-> call'[c].result]
<1>. DEFINE res == call[c].result
<1>1. call' = [call EXCEPT ![c] = Moved(c, at, res)] BY DEF Goto
<1>. HIDE DEF res
<1>2. QED BY <1>1, MovedFields

-----------------------------------------------------------------------------
(* The client *)

\* A call for a file map or a metadata file that is not there waits for its flight.
LEMMA BeginIInv ==
  ASSUME IInv, NEW c \in Callers, NEW m \in Mods, UNCHANGED readOnly,
         GetZipRoot(c, m) \/ \E ext \in Exts : GetMetaFile(c, m, ext)
  PROVE  IInv'
<1>1. PICK k \in Keys, at \in {"done", "do"} :
        /\ At(c) = "done" /\ UNCHANGED <<have, modmapLZ, modmaps, meta, flight>>
        /\ call' = [call EXCEPT ![c] =
             [at |-> at, key |-> k, path |-> Root, result |-> Is(IF at = "done" THEN "ok" ELSE "none")]]
        /\ at = "done" => IF k[1] = "modmap" THEN modmaps[k[2]] # NoMap ELSE k \in meta
  <2>1. CASE GetZipRoot(c, m)
    <3>. DEFINE k == <<"modmap", m>>
    <3>1. k \in Keys BY DEF Keys
    <3>2. CASE modmaps[m] # NoMap BY <2>1, <3>1, <3>2 DEF GetZipRoot
    <3>3. CASE modmaps[m] = NoMap BY <2>1, <3>1, <3>3 DEF GetZipRoot
    <3>4. QED BY <3>2, <3>3
  <2>2. ASSUME NEW ext \in Exts, GetMetaFile(c, m, ext)
        PROVE  \E k \in Keys, at \in {"done", "do"} :
                 /\ At(c) = "done" /\ UNCHANGED <<have, modmapLZ, modmaps, meta, flight>>
                 /\ call' = [call EXCEPT ![c] = [at |-> at, key |-> k, path |-> Root,
                                                result |-> Is(IF at = "done" THEN "ok" ELSE "none")]]
                 /\ at = "done" => IF k[1] = "modmap" THEN modmaps[k[2]] # NoMap ELSE k \in meta
    <3>. DEFINE k == <<ext, m>>
    <3>1. k \in Keys /\ ext # "modmap" BY RemoteStoreAssumption DEF Keys
    <3>2. CASE k \in meta BY <2>2, <3>1, <3>2 DEF GetMetaFile
    <3>3. CASE k \notin meta BY <2>2, <3>1, <3>3 DEF GetMetaFile
    <3>4. QED BY <3>2, <3>3
  <2>3. QED BY <2>1, <2>2
<1>. DEFINE status == IF at = "done" THEN "ok" ELSE "none"
            x == [at |-> at, key |-> k, path |-> Root, result |-> Is(status)]
<1>2. /\ call'[c] = x /\ call'[c].key = k /\ call'[c].at = at /\ call'[c].result.status = status
      /\ call'[c] = [at |-> call'[c].at, key |-> call'[c].key, path |-> call'[c].path,
                     result |-> call'[c].result]
  <2>1. call'[c] = x BY <1>1 DEF IInv, Domains
  <2>2. QED BY <2>1 DEF Is
<1>3. CallOK(c)'
  <2>1. Shape(c)' BY <1>1, <1>2 DEF Shape
  <2>2. at = "done" => Answered(c)'
    <3>1. k[1] \notin {"file", "none"} BY KeyKinds
    <3>2. CASE k[1] = "modmap" BY <1>1, <1>2, <3>1, <3>2 DEF Answered, Kind, Mod
    <3>3. CASE k[1] # "modmap" BY <1>1, <1>2, <3>1, <3>3 DEF Answered, Kind, Mod
    <3>4. QED BY <3>2, <3>3
  <2>3. QED BY <1>1, <1>2, <2>1, <2>2 DEF CallOK, At
<1>4. FlightOK'
  <2>1. x.at = at /\ at \notin Lead \cup {"wait"} BY <1>1 DEF Lead
  <2>. HIDE DEF x
  <2>2. QED BY <1>1, <2>1, NewCall DEF x
<1>5. Grows BY <1>1 DEF Grows
<1>6. CacheOK' /\ MapsOK' BY <1>1, MoreOnServer
<1>. HIDE DEF x
<1>7. QED BY <1>1, <1>3, <1>4, <1>5, <1>6, OneCall DEF x, IInv, Domains

\* What is no file is answered from the file map, as the store would.
LEMMA GetFileIInv ==
  ASSUME IInv, NEW c \in Callers, NEW m \in Mods, NEW p \in Paths \ {Root}, UNCHANGED readOnly,
         GetFile(c, m, p)
  PROVE  IInv'
<1>. DEFINE isFile == p \in WalkFiles(m)
            result == Is(CASE p \in WalkFiles(m) -> "none"
                           [] p \in DOMAIN BuildDirMap(WalkFiles(m)) -> "isdir"
                           [] OTHER -> "notexist")
            x == [at |-> IF p \in WalkFiles(m) THEN "send" ELSE "done", key |-> <<"file", m>>,
                  path |-> p, result |-> result]
<1>1. modmaps[m] = WalkFiles(m) /\ modmaps[m] # NoMap BY DEF GetFile, IInv, MapsOK
<1>2. /\ At(c) = "done" /\ UNCHANGED <<have, modmapLZ, modmaps, meta, flight>>
      /\ call' = [call EXCEPT ![c] = x]
  BY <1>1 DEF GetFile
<1>3. p \notin WalkFiles(m) => result = StoreGetFile(m, p)
  <2>1. SUFFICES ASSUME p \notin WalkFiles(m) PROVE result = StoreGetFile(m, p) OBVIOUS
  <2>2. Stat(m, p) = StoreStat(m, p) BY <1>1, MapIsTree
  <2>3. CASE p \in DOMAIN BuildDirMap(WalkFiles(m))
    <3>1. StoreStat(m, p) = "dir" BY <1>1, <2>1, <2>2, <2>3 DEF Stat
    <3>2. QED BY <2>1, <2>3, <3>1 DEF StoreGetFile
  <2>4. CASE p \notin DOMAIN BuildDirMap(WalkFiles(m))
    <3>1. StoreStat(m, p) = "notexist" BY <1>1, <2>1, <2>2, <2>4 DEF Stat
    <3>2. QED BY <2>1, <2>4, <3>1 DEF StoreGetFile
  <2>5. QED BY <2>3, <2>4
<1>. HIDE DEF result
<1>4. /\ x.at = (IF p \in WalkFiles(m) THEN "send" ELSE "done") /\ x.key = <<"file", m>>
      /\ x.path = p /\ x.result = result
      /\ x = [at |-> x.at, key |-> x.key, path |-> x.path, result |-> x.result]
  OBVIOUS
<1>. HIDE DEF x
<1>5. call'[c] = x BY <1>2 DEF IInv, Domains
<1>6. /\ Kind(c)' = "file" /\ Mod(c)' = m /\ x.key \in {"file"} \X Mods
  BY <1>4, <1>5 DEF Kind, Mod
<1>7. x.key \notin Keys BY <1>4, KeyKinds
<1>8. CallOK(c)'
  <2>1. Shape(c)' BY <1>1, <1>2, <1>4, <1>5, <1>6 DEF Shape, Lead
  <2>2. x.at = "done" => Answered(c)' BY <1>3, <1>4, <1>5, <1>6 DEF Answered
  <2>3. QED BY <1>4, <1>5, <2>1, <2>2 DEF CallOK, At
<1>9. FlightOK' BY <1>2, <1>4, <1>7, NewCall
<1>10. Grows BY <1>2 DEF Grows
<1>11. CacheOK' /\ MapsOK' BY <1>2, MoreOnServer
<1>12. QED BY <1>2, <1>8, <1>9, <1>10, <1>11, OneCall DEF IInv, Domains

\* A call moves on to where nothing is said of its result yet.
LEMMA MoveIInv ==
  ASSUME IInv, NEW c \in Callers, NEW at, UNCHANGED <<readOnly, have, modmapLZ, modmaps, meta>>,
         Goto(c, at), Shape(c)', at \notin {"replied", "land", "done"},
         DOMAIN flight' = Keys, FlightOK'
  PROVE  IInv'
<1>1. call' = [call EXCEPT ![c] = Moved(c, at, call[c].result)] BY DEF Goto
<1>2. At(c)' = at BY <1>1, MovedFields
<1>3. CallOK(c)' BY <1>2 DEF CallOK
<1>4. Grows BY DEF Grows
<1>5. CacheOK' /\ MapsOK' BY MoreOnServer
<1>. DEFINE x == Moved(c, at, call[c].result)
<1>. HIDE DEF x
<1>6. call' = [call EXCEPT ![c] = x] BY <1>1 DEF x
<1>7. QED BY <1>3, <1>4, <1>5, <1>6, OneCall DEF IInv, Domains

\* singleflight.Group.Do.
LEMMA DoIInv ==
  ASSUME IInv, NEW c \in Callers, UNCHANGED readOnly, Do(c) PROVE IInv'
<1>. DEFINE k == call[c].key
<1>1. k \in Keys /\ At(c) = "do" /\ c # NoCaller
  BY RemoteStoreAssumption DEF Do, IInv, CallOK, Shape, At
<1>2. \A j \in Keys : flight[j] # c BY <1>1 DEF IInv, FlightOK, Lead
<1>3. CASE flight[k] = NoCaller
  <2>. DEFINE at == IF Kind(c) = "modmap" THEN "recheck" ELSE "send"
  <2>1. flight' = [flight EXCEPT ![k] = c] /\ Goto(c, at) /\ UNCHANGED <<have, modmapLZ, modmaps, meta>>
    BY <1>3 DEF Do
  <2>2. at \in {"recheck", "send"} /\ (at = "recheck" => Kind(c) = "modmap") OBVIOUS
  <2>. HIDE DEF at
  <2>3. call' = [call EXCEPT ![c] = Moved(c, at, call[c].result)] BY <2>1 DEF Goto
  <2>4. /\ call'[c].at = at /\ call'[c].key = k /\ Kind(c)' = Kind(c)
        /\ call'[c] = [at |-> call'[c].at, key |-> call'[c].key, path |-> call'[c].path,
                       result |-> call'[c].result]
    BY <2>1, WentFields
  <2>5. Shape(c)' BY <1>1, <2>2, <2>4 DEF Shape, Lead
  <2>6. \A d \in Callers : d # c => call'[d] = call[d] BY <2>3 DEF IInv, Domains
  <2>7. /\ DOMAIN flight' = Keys /\ flight'[k] = c
        /\ \A j \in Keys : j # k => flight'[j] = flight[j]
    BY <1>1, <2>1 DEF IInv, Domains
  <2>8. FlightOK'
    <3>1. at \in Lead /\ at # "wait" BY <2>2 DEF Lead
    <3>2. ASSUME NEW j \in Keys
          PROVE  /\ flight'[j] \in Callers \cup {NoCaller}
                 /\ flight'[j] # NoCaller => call'[flight'[j]].key = j /\ At(flight[j])' \in Lead
      <4>1. CASE j = k BY <2>4, <2>7, <3>1, <4>1 DEF At
      <4>2. CASE j # k
        <5>1. flight'[j] = flight[j] /\ flight[j] # c BY <1>2, <2>7, <4>2
        <5>2. QED BY <2>6, <5>1 DEF IInv, FlightOK, At
      <4>3. QED BY <4>1, <4>2
    <3>3. ASSUME NEW d \in Callers
          PROVE  /\ At(d)' = "wait" => flight'[call'[d].key] # NoCaller
                 /\ call'[d].key \in Keys /\ At(d)' \in Lead => flight'[call'[d].key] = d
      <4>1. CASE d = c BY <2>4, <2>7, <3>1, <4>1 DEF At
      <4>2. CASE d # c
        <5>1. call'[d] = call[d] BY <2>6, <4>2
        <5>2. At(d) = "wait" => call[d].key \in Keys BY DEF IInv, CallOK, Shape, At
        <5>3. d # NoCaller BY RemoteStoreAssumption
        <5>4. QED BY <1>1, <1>3, <2>7, <5>1, <5>2, <5>3 DEF IInv, FlightOK, At
      <4>3. QED BY <4>1, <4>2
    <3>4. QED BY <3>2, <3>3 DEF FlightOK
  <2>9. QED BY <2>1, <2>2, <2>5, <2>7, <2>8, MoveIInv
<1>4. CASE flight[k] # NoCaller
  <2>1. Goto(c, "wait") /\ UNCHANGED <<have, modmapLZ, modmaps, meta, flight>> BY <1>4 DEF Do
  <2>2. call' = [call EXCEPT ![c] = Moved(c, "wait", call[c].result)] BY <2>1 DEF Goto
  <2>3. /\ call'[c].at = "wait" /\ call'[c].key = k
        /\ call'[c] = [at |-> call'[c].at, key |-> call'[c].key, path |-> call'[c].path,
                       result |-> call'[c].result]
    BY <2>1, WentFields
  <2>4. Shape(c)' BY <1>1, <2>3 DEF Shape
  <2>5. \A d \in Callers : d # c => call'[d] = call[d] BY <2>2 DEF IInv, Domains
  <2>6. FlightOK' BY <1>1, <1>2, <1>4, <2>1, <2>3, <2>5 DEF IInv, FlightOK, At, Lead
  <2>7. QED BY <2>1, <2>4, <2>6, MoveIInv DEF IInv, Domains
<1>5. QED BY <1>3, <1>4

\* The leader of a file map looks for it once more, and what it finds is the answer.
LEMMA RecheckIInv ==
  ASSUME IInv, NEW c \in Callers, UNCHANGED readOnly, Recheck(c) PROVE IInv'
<1>1. /\ call[c].key \in Keys /\ At(c) = "recheck" /\ Kind(c) = "modmap"
      /\ UNCHANGED <<have, modmapLZ, modmaps, meta, flight>>
  BY DEF Recheck, IInv, CallOK, Shape, At
<1>2. CASE modmaps[Mod(c)] # NoMap
  <2>. DEFINE ok == Is("ok")
              x == Moved(c, "land", ok)
  <2>1. call' = [call EXCEPT ![c] = x] BY <1>2 DEF Recheck
  <2>2. ok.status = "ok" BY DEF Is
  <2>. HIDE DEF ok
  <2>3. /\ call'[c].at = "land" /\ call'[c].key = call[c].key /\ call'[c].result = ok
        /\ Kind(c)' = Kind(c) /\ Mod(c)' = Mod(c)
        /\ call'[c] = [at |-> call'[c].at, key |-> call'[c].key, path |-> call'[c].path,
                       result |-> call'[c].result]
    <3>1. call'[c] = [at |-> "land", key |-> call[c].key, path |-> call[c].path, result |-> ok]
      BY <2>1 DEF IInv, Domains, Moved
    <3>2. QED BY <3>1 DEF Kind, Mod
  <2>4. Shape(c)' BY <1>1, <2>3 DEF Shape, Lead
  <2>5. Answered(c)' BY <1>1, <1>2, <2>2, <2>3 DEF Answered
  <2>6. CallOK(c)' BY <2>3, <2>4, <2>5 DEF CallOK, At
  <2>7. FlightOK' BY <1>1, <2>1, LeaderGoesOn DEF Lead
  <2>8. Grows /\ CacheOK' /\ MapsOK' BY <1>1, MoreOnServer DEF Grows
  <2>. HIDE DEF x
  <2>9. QED BY <1>1, <2>1, <2>6, <2>7, <2>8, OneCall DEF IInv, Domains
<1>3. CASE modmaps[Mod(c)] = NoMap
  <2>1. Goto(c, "send") /\ call' = [call EXCEPT ![c] = Moved(c, "send", call[c].result)]
    BY <1>3 DEF Recheck, Goto
  <2>2. /\ call'[c].at = "send" /\ call'[c].key = call[c].key
        /\ call'[c] = [at |-> call'[c].at, key |-> call'[c].key, path |-> call'[c].path,
                       result |-> call'[c].result]
    BY <2>1, WentFields
  <2>3. Shape(c)' BY <1>1, <2>2 DEF Shape, Lead
  <2>4. FlightOK' BY <1>1, <2>1, LeaderGoesOn DEF Lead
  <2>5. QED BY <1>1, <2>1, <2>3, <2>4, MoveIInv DEF IInv, Domains
<1>4. QED BY <1>2, <1>3

\* A request is sent, for a key or for a file of a module that the client knows.
LEMMA SendIInv ==
  ASSUME IInv, NEW c \in Callers, UNCHANGED readOnly, Send(c) PROVE IInv'
<1>1. At(c) = "send" /\ Goto(c, "sent") /\ UNCHANGED <<have, modmapLZ, modmaps, meta, flight>>
  BY DEF Send
<1>2. call' = [call EXCEPT ![c] = Moved(c, "sent", call[c].result)] BY <1>1 DEF Goto
<1>3. /\ call'[c].at = "sent" /\ call'[c].key = call[c].key /\ call'[c].path = call[c].path
      /\ Kind(c)' = Kind(c) /\ Mod(c)' = Mod(c)
      /\ call'[c] = [at |-> call'[c].at, key |-> call'[c].key, path |-> call'[c].path,
                     result |-> call'[c].result]
  BY <1>1, WentFields
<1>4. Shape(c)' BY <1>1, <1>3 DEF IInv, CallOK, Shape, Lead, At
<1>5. FlightOK' BY <1>1, <1>2, LeaderGoesOn DEF Lead
<1>6. QED BY <1>1, <1>4, <1>5, MoveIInv DEF IInv, Domains

\* What was sent is kept for all who ask later.
LEMMA KeepIInv ==
  ASSUME IInv, NEW c \in Callers, UNCHANGED readOnly, Keep(c) PROVE IInv'
<1>. DEFINE at == IF Kind(c) = "file" THEN "done" ELSE "land"
            k == call[c].key
            ok == call[c].result.status = "ok"
<1>1. /\ At(c) = "replied" /\ Goto(c, at) /\ UNCHANGED <<have, modmapLZ, flight>>
      /\ modmaps' = IF Kind(c) = "modmap" /\ ok
                      THEN [modmaps EXCEPT ![Mod(c)] = WalkFiles(Mod(c))] ELSE modmaps
      /\ meta' = IF Kind(c) \in Exts /\ ok THEN meta \cup {k} ELSE meta
  BY DEF Keep
<1>2. Shape(c) /\ Got(c) BY <1>1 DEF IInv, CallOK
<1>3. \/ k \in Keys
      \/ k \in {"file"} \X Mods /\ call[c].path \in WalkFiles(Mod(c)) /\ modmaps[Mod(c)] # NoMap
  BY <1>1, <1>2 DEF Shape, At
<1>4. k \in {"file"} \X Mods => Kind(c) = "file" /\ k \notin Keys BY KeyKinds DEF Kind
<1>5. k \in Keys => Kind(c) \notin {"file", "none"} /\ Mod(c) \in Mods /\ (Kind(c) = "modmap" \/ Kind(c) \in Exts)
  BY KeyKinds DEF Kind, Mod
<1>6. at \in {"done", "land"} /\ (at = "done" => Kind(c) = "file") /\ (Kind(c) = "file" => at = "done")
  OBVIOUS
<1>. HIDE DEF at
<1>7. call' = [call EXCEPT ![c] = Moved(c, at, call[c].result)] BY <1>1 DEF Goto
<1>8. /\ call'[c].at = at /\ call'[c].key = k /\ call'[c].path = call[c].path
      /\ call'[c].result = call[c].result /\ Kind(c)' = Kind(c) /\ Mod(c)' = Mod(c)
      /\ call'[c] = [at |-> call'[c].at, key |-> call'[c].key, path |-> call'[c].path,
                     result |-> call'[c].result]
  <2>1. call'[c] = [at |-> at, key |-> k, path |-> call[c].path, result |-> call[c].result]
    BY <1>7 DEF IInv, Domains, Moved
  <2>2. QED BY <2>1 DEF Kind, Mod
<1>9. DOMAIN modmaps' = Mods /\ meta' \subseteq Keys /\ MapsOK'
  <2>1. DOMAIN modmaps = Mods /\ meta \subseteq Keys BY DEF IInv, Domains
  <2>2. CASE Kind(c) = "modmap" /\ ok
    <3>1. k \in Keys /\ Mod(c) \in Mods BY <1>3, <1>4, <1>5, <2>2
    <3>2. k \in have BY <1>2, <2>2 DEF Got
    <3>3. k = <<"modmap", Mod(c)>> BY <2>2, <3>1, KeyKinds DEF Kind, Mod
    <3>4. DOMAIN modmaps' = Mods /\ \A m \in Mods : modmaps'[m] = IF m = Mod(c) THEN WalkFiles(m) ELSE modmaps[m]
      BY <1>1, <2>1, <2>2
    <3>5. MapsOK' BY <1>1, <3>2, <3>3, <3>4 DEF IInv, MapsOK
    <3>6. meta' \subseteq Keys BY <1>1, <2>1, <3>1
    <3>7. QED BY <3>4, <3>5, <3>6
  <2>3. CASE ~(Kind(c) = "modmap" /\ ok)
    <3>1. UNCHANGED modmaps BY <1>1, <2>3
    <3>2. MapsOK' BY <1>1, <3>1, MoreOnServer
    <3>3. meta' \subseteq Keys
      <4>1. CASE Kind(c) \in Exts /\ ok
        <5>1. Kind(c) # "file" BY <4>1, RemoteStoreAssumption
        <5>2. k \in Keys BY <1>3, <1>4, <5>1
        <5>3. QED BY <1>1, <2>1, <5>2
      <4>2. CASE ~(Kind(c) \in Exts /\ ok) BY <1>1, <2>1, <4>2
      <4>3. QED BY <4>1, <4>2
    <3>4. QED BY <2>1, <3>1, <3>2, <3>3
  <2>4. QED BY <2>2, <2>3
<1>10. Grows
  <2>1. \A m \in Mods : modmaps[m] # NoMap => modmaps'[m] # NoMap
    <3>1. DOMAIN modmaps = Mods BY DEF IInv, Domains
    <3>2. \A m \in Mods : modmaps'[m] \in {modmaps[m], WalkFiles(m)} BY <1>1, <3>1
    <3>3. QED BY <3>2, TreeAssumption
  <2>2. QED BY <1>1, <2>1 DEF Grows
<1>11. Answered(c)'
  <2>1. CASE k \in Keys
    <3>1. CASE Kind(c) = "modmap"
      <4>1. ok => modmaps'[Mod(c)] # NoMap
        <5>1. DOMAIN modmaps = Mods BY DEF IInv, Domains
        <5>2. QED BY <1>1, <1>5, <2>1, <3>1, <5>1, TreeAssumption
      <4>2. QED BY <1>2, <1>8, <3>1, <4>1 DEF Got, Answered
    <3>2. CASE Kind(c) # "modmap"
      <4>1. ok => k \in meta' BY <1>1, <1>5, <2>1, <3>2
      <4>2. QED BY <1>2, <1>5, <1>8, <2>1, <3>2, <4>1 DEF Got, Answered
    <3>3. QED BY <3>1, <3>2
  <2>2. CASE k \in {"file"} \X Mods /\ call[c].path \in WalkFiles(Mod(c))
    <3>1. StoreGetFile(Mod(c), call[c].path) = Data(call[c].path)
      BY <2>2 DEF StoreGetFile, WalkFiles
    <3>2. QED BY <1>2, <1>4, <1>8, <2>2, <3>1 DEF Got, Answered
  <2>3. QED BY <1>3, <2>1, <2>2
<1>12. Shape(c)' BY <1>2, <1>3, <1>4, <1>6, <1>8 DEF Shape, Lead
<1>13. CallOK(c)' BY <1>6, <1>8, <1>11, <1>12 DEF CallOK, At
<1>14. FlightOK'
  <2>1. CASE at = "land" BY <1>1, <1>7, <2>1, LeaderGoesOn DEF Lead
  <2>2. CASE at = "done"
    <3>. DEFINE x == Moved(c, "done", call[c].result)
    <3>1. x.at = "done" /\ x.key = k BY DEF Moved
    <3>2. k \notin Keys BY <1>3, <1>4, <1>5, <1>6, <2>2
    <3>3. \A j \in Keys : flight[j] # c
      BY <3>2, RemoteStoreAssumption DEF IInv, FlightOK
    <3>4. call' = [call EXCEPT ![c] = x] BY <1>7, <2>2
    <3>. HIDE DEF x
    <3>5. QED BY <1>1, <3>1, <3>2, <3>3, <3>4, SameFlights
  <2>3. QED BY <1>6, <2>1, <2>2
<1>15. CacheOK' BY <1>1, MoreOnServer
<1>. DEFINE x == Moved(c, at, call[c].result)
<1>. HIDE DEF x
<1>16. call' = [call EXCEPT ![c] = x] BY <1>7 DEF x
<1>17. QED BY <1>1, <1>9, <1>10, <1>13, <1>14, <1>15, <1>16, OneCall DEF IInv, Domains

\* The flight ends, and its result is the answer to all who waited for it.
LEMMA LandIInv ==
  ASSUME IInv, NEW c \in Callers, UNCHANGED readOnly, Land(c) PROVE IInv'
<1>. DEFINE k == call[c].key
            r == call[c].result
            Lands(d) == d = c \/ (At(d) = "wait" /\ call[d].key = k)
<1>1. /\ At(c) = "land" /\ flight' = [flight EXCEPT ![k] = NoCaller]
      /\ UNCHANGED <<have, modmapLZ, modmaps, meta>>
      /\ call' = [d \in Callers |-> IF Lands(d) THEN Moved(d, "done", r) ELSE call[d]]
  BY DEF Land
<1>2. k \in Keys /\ Answered(c) /\ c # NoCaller
  BY <1>1, RemoteStoreAssumption DEF IInv, CallOK, Shape, At
<1>3. flight[k] = c BY <1>1, <1>2 DEF IInv, FlightOK, Lead
<1>4. /\ DOMAIN flight' = Keys /\ flight'[k] = NoCaller
      /\ \A j \in Keys : j # k => flight'[j] = flight[j]
  BY <1>1, <1>2 DEF IInv, Domains
<1>5. Grows BY <1>1 DEF Grows
<1>6. ASSUME NEW d \in Callers, Lands(d)
      PROVE  CallOK(d)' /\ At(d)' = "done"
  <2>1. call[d].key = k BY <1>6
  <2>2. call'[d] = [at |-> "done", key |-> k, path |-> call[d].path, result |-> r]
    BY <1>1, <1>6, <2>1 DEF Moved
  <2>3. /\ call'[d].at = "done" /\ call'[d].key = k /\ call'[d].result = r
        /\ call'[d] = [at |-> call'[d].at, key |-> call'[d].key, path |-> call'[d].path,
                       result |-> call'[d].result]
    BY <2>2
  <2>4. Kind(d)' = Kind(c) /\ Mod(d)' = Mod(c) BY <2>3 DEF Kind, Mod
  <2>5. Kind(c) \notin {"file", "none"} BY <1>2, KeyKinds DEF Kind
  <2>6. Answered(d)'
    <3>1. CASE Kind(c) = "modmap" BY <1>1, <1>2, <2>3, <2>4, <2>5, <3>1 DEF Answered
    <3>2. CASE Kind(c) # "modmap" BY <1>1, <1>2, <2>3, <2>4, <2>5, <3>2 DEF Answered
    <3>3. QED BY <3>1, <3>2
  <2>7. Shape(d)' BY <1>2, <2>3 DEF Shape
  <2>8. QED BY <2>3, <2>6, <2>7 DEF CallOK, At
<1>7. ASSUME NEW d \in Callers, ~Lands(d)
      PROVE  CallOK(d)' /\ call'[d] = call[d]
  <2>1. call'[d] = call[d] BY <1>1, <1>7
  <2>2. QED BY <1>5, <2>1, OtherCall DEF IInv
<1>8. FlightOK'
  <2>1. ASSUME NEW j \in Keys
        PROVE  /\ flight'[j] \in Callers \cup {NoCaller}
               /\ flight'[j] # NoCaller => call'[flight'[j]].key = j /\ At(flight[j])' \in Lead
    <3>1. CASE j = k BY <1>4, <3>1
    <3>2. CASE j # k /\ flight[j] = NoCaller BY <1>4, <3>2
    <3>3. CASE j # k /\ flight[j] # NoCaller
      <4>. DEFINE e == flight[j]
      <4>1. e \in Callers /\ call[e].key = j /\ At(e) \in Lead BY <3>3 DEF IInv, FlightOK
      <4>2. ~Lands(e) BY <3>3, <4>1 DEF Lead
      <4>3. call'[e] = call[e] BY <1>7, <4>1, <4>2
      <4>4. flight'[j] = e BY <1>4, <3>3
      <4>. HIDE DEF e
      <4>5. QED BY <4>1, <4>3, <4>4 DEF At
    <3>4. QED BY <3>1, <3>2, <3>3
  <2>2. ASSUME NEW d \in Callers
        PROVE  /\ At(d)' = "wait" => flight'[call'[d].key] # NoCaller
               /\ call'[d].key \in Keys /\ At(d)' \in Lead => flight'[call'[d].key] = d
    <3>1. CASE Lands(d) BY <1>6, <3>1 DEF Lead
    <3>2. CASE ~Lands(d)
      <4>1. call'[d] = call[d] /\ At(d)' = At(d) BY <1>7, <3>2 DEF At
      <4>2. ASSUME At(d) = "wait" PROVE flight'[call[d].key] # NoCaller
        <5>1. call[d].key \in Keys /\ call[d].key # k BY <3>2, <4>2 DEF IInv, CallOK, Shape, At
        <5>2. QED BY <1>4, <4>2, <5>1 DEF IInv, FlightOK
      <4>3. ASSUME call[d].key \in Keys, At(d) \in Lead PROVE flight'[call[d].key] = d
        <5>1. flight[call[d].key] = d BY <4>3 DEF IInv, FlightOK
        <5>2. call[d].key # k BY <1>3, <3>2, <5>1
        <5>3. QED BY <1>4, <4>3, <5>1, <5>2
      <4>4. QED BY <4>1, <4>2, <4>3
    <3>3. QED BY <3>1, <3>2
  <2>3. QED BY <2>1, <2>2 DEF FlightOK
<1>9. CacheOK' /\ MapsOK' BY <1>1, MoreOnServer
<1>10. DOMAIN call' = Callers BY <1>1
<1>. HIDE DEF Lands
<1>11. \A d \in Callers : CallOK(d)' BY <1>6, <1>7
<1>12. QED BY <1>1, <1>4, <1>8, <1>9, <1>10, <1>11 DEF IInv, Domains

-----------------------------------------------------------------------------
(* The server *)

\* The key that is touched, at place i or new, comes first; those that were before it (all,
\* if it is new) move back by one place.
MovedToFront(s, h, i, t) ==
  /\ \A k \in 1..Len(s) : s[k] = h <=> k = i
  /\ Len(t) = IF i <= Len(s) THEN Len(s) ELSE Len(s) + 1
  /\ \A k \in 1..Len(t) : t[k] = IF k = 1 THEN h ELSE IF k <= i THEN s[k - 1] ELSE s[k]

LEMMA ToFrontPlaces ==
  ASSUME NEW S, NEW s \in Seq(S), NEW h \in S, NoDuplicates(s)
  PROVE  ToFront(s, h) \in Seq(S) /\ \E i \in 1..(Len(s) + 1) : MovedToFront(s, h, i, ToFront(s, h))
<1>1. Len(s) \in Nat /\ \A k \in 1..Len(s) : s[k] \in S OBVIOUS
<1>2. CASE Listed(s, h)
  <2>. DEFINE i == CHOOSE i \in 1..Len(s) : s[i] = h
              t == [k \in 1..Len(s) |-> IF k = 1 THEN h ELSE IF k <= i THEN s[k - 1] ELSE s[k]]
  <2>1. i \in 1..Len(s) /\ s[i] = h BY <1>2 DEF Listed
  <2>2. ToFront(s, h) = t BY <1>2 DEF ToFront
  <2>. HIDE DEF i
  <2>3. t \in Seq(S) /\ Len(t) = Len(s) BY <1>1, <2>1
  <2>4. \A k \in 1..Len(s) : s[k] = h <=> k = i BY <2>1 DEF NoDuplicates
  <2>5. i \in 1..(Len(s) + 1) /\ i <= Len(s) BY <1>1, <2>1
  <2>6. \A k \in 1..Len(t) : t[k] = IF k = 1 THEN h ELSE IF k <= i THEN s[k - 1] ELSE s[k] BY <2>3
  <2>7. QED BY <2>2, <2>3, <2>4, <2>5, <2>6 DEF MovedToFront
<1>3. CASE ~Listed(s, h)
  <2>. DEFINE i == Len(s) + 1
              t == <<h>> \o s
  <2>1. ToFront(s, h) = t BY <1>3 DEF ToFront
  <2>2. t \in Seq(S) /\ Len(t) = i /\ \A k \in 1..i : t[k] = IF k = 1 THEN h ELSE s[k - 1]
    BY <1>1
  <2>3. \A k \in 1..Len(s) : s[k] = h <=> k = i BY <1>1, <1>3 DEF Listed
  <2>. HIDE DEF t
  <2>4. QED BY <1>1, <2>1, <2>2, <2>3 DEF MovedToFront
<1>4. QED BY <1>2, <1>3

\* moveToFront and newAtFront keep the ring free of duplicates, and what it
\* lists grows by at most the key that was touched.
LEMMA ToFrontLists ==
  ASSUME NEW S, NEW s \in Seq(S), NEW h \in S, NoDuplicates(s)
  PROVE  /\ ToFront(s, h) \in Seq(S)
         /\ Len(ToFront(s, h)) \in {Len(s), Len(s) + 1}
         /\ NoDuplicates(ToFront(s, h))
         /\ \A x : Listed(ToFront(s, h), x) => Listed(s, x) \/ x = h
<1>. DEFINE t == ToFront(s, h)
<1>1. t \in Seq(S) /\ \E i \in 1..(Len(s) + 1) : MovedToFront(s, h, i, t) BY ToFrontPlaces
<1>. HIDE DEF t
<1>2. PICK i \in 1..(Len(s) + 1) :
        /\ \A k \in 1..Len(s) : s[k] = h <=> k = i
        /\ t \in Seq(S)
        /\ Len(t) = IF i <= Len(s) THEN Len(s) ELSE Len(s) + 1
        /\ \A k \in 1..Len(t) : t[k] = IF k = 1 THEN h ELSE IF k <= i THEN s[k - 1] ELSE s[k]
  BY <1>1 DEF MovedToFront
<1>3. Len(s) \in Nat /\ Len(t) \in Nat /\ Len(t) > 0 /\ t[1] = h BY <1>2
<1>. DEFINE from(k) == IF k <= i THEN k - 1 ELSE k
<1>4. \A k \in 2..Len(t) : from(k) \in 1..Len(s) /\ t[k] = s[from(k)] /\ from(k) # i BY <1>2, <1>3
<1>5. \A j, k \in 2..Len(t) : from(j) = from(k) => j = k BY <1>2, <1>3
<1>. HIDE DEF from
<1>6. 1 \in 1..Len(t) /\ 1..Len(t) = {1} \cup 2..Len(t) BY <1>3
<1>7. NoDuplicates(t)
  <2>1. \A k \in 2..Len(t) : t[k] # h BY <1>2, <1>4
  <2>2. \A j, k \in 2..Len(t) : t[j] = t[k] => j = k BY <1>4, <1>5 DEF NoDuplicates
  <2>3. QED BY <1>3, <1>6, <2>1, <2>2 DEF NoDuplicates
<1>8. \A x : Listed(t, x) => Listed(s, x) \/ x = h BY <1>3, <1>4, <1>6 DEF Listed
<1>9. Len(t) \in {Len(s), Len(s) + 1} BY <1>2, <1>3
<1>10. QED BY <1>2, <1>3, <1>7, <1>8, <1>9 DEF t

\* DeleteOldest removes exactly the last element of the ring.
LEMMA ButOldestLists ==
  ASSUME NEW S, NEW s \in Seq(S), s # <<>>, NoDuplicates(s)
  PROVE  /\ Oldest(s) \in S
         /\ Listed(s, Oldest(s))
         /\ ButOldest(s) \in Seq(S) /\ Len(ButOldest(s)) = Len(s) - 1
         /\ NoDuplicates(ButOldest(s))
         /\ \A x : Listed(ButOldest(s), x) <=> (Listed(s, x) /\ x # Oldest(s))
<1>. DEFINE t == ButOldest(s)
<1>1. /\ Len(s) \in Nat /\ Len(s) > 0 /\ Len(s) \in 1..Len(s)
      /\ t \in Seq(S) /\ Len(t) = Len(s) - 1
      /\ \A k \in 1..Len(t) : t[k] = s[k]
      /\ Oldest(s) = s[Len(s)] /\ Oldest(s) \in S
  <2>1. Len(s) \in Nat /\ Len(s) > 0 /\ Len(s) \in 1..Len(s) OBVIOUS
  <2>2. Oldest(s) = s[Len(s)] /\ Oldest(s) \in S BY <2>1 DEF Oldest
  <2>3. /\ SubSeq(s, 1, Len(s) - 1) \in Seq(S)
        /\ Len(SubSeq(s, 1, Len(s) - 1)) = Len(s) - 1
        /\ \A k \in 1..(Len(s) - 1) : SubSeq(s, 1, Len(s) - 1)[k] = s[k]
    <3>1. \A i \in 1..(Len(s) - 1) : s[i] \in S BY <2>1
    <3>2. \A n \in Nat : n > 0 =>
            /\ n - 1 \in Int /\ (n - 1) - 1 + 1 = n - 1
            /\ (IF 1 <= n - 1 THEN n - 1 ELSE 0) = n - 1
      OBVIOUS
    <3>3. \A k \in Int : 1 + k - 1 = k OBVIOUS
    <3>. DEFINE n == Len(s) - 1
    <3>4. n \in Int /\ n - 1 + 1 = n /\ (IF 1 <= n THEN n ELSE 0) = n
      BY <2>1, <3>2
    <3>. HIDE DEF n
    <3>5. \A i \in 1..n : s[i] \in S BY <3>1 DEF n
    <3>6. /\ SubSeq(s, 1, n) \in Seq(S)
          /\ Len(SubSeq(s, 1, n)) = IF 1 <= n THEN n - 1 + 1 ELSE 0
          /\ \A i \in 1..(n - 1 + 1) : SubSeq(s, 1, n)[i] = s[1 + i - 1]
      BY <3>4, <3>5, SubSeqProperties
    <3>7. /\ SubSeq(s, 1, n) \in Seq(S)
          /\ Len(SubSeq(s, 1, n)) = n
          /\ \A i \in 1..n : SubSeq(s, 1, n)[i] = s[i]
      BY ONLY <3>3, <3>4, <3>6
    <3>8. QED BY <3>7 DEF n
  <2>4. QED BY <2>1, <2>2, <2>3 DEF ButOldest
<1>. HIDE DEF t
<1>2. Listed(s, Oldest(s)) BY <1>1 DEF Listed
<1>3. NoDuplicates(t) BY <1>1 DEF NoDuplicates
<1>4. ASSUME NEW x, Listed(t, x) PROVE Listed(s, x) /\ x # Oldest(s)
  <2>1. PICK k \in 1..Len(t) : t[k] = x BY <1>4 DEF Listed
  <2>2. k \in 1..Len(s) /\ s[k] = x /\ k # Len(s) BY <1>1, <2>1
  <2>3. QED BY <1>1, <2>2 DEF Listed, NoDuplicates
<1>5. ASSUME NEW x, Listed(s, x), x # Oldest(s) PROVE Listed(t, x)
  <2>1. PICK k \in 1..Len(s) : s[k] = x BY <1>5 DEF Listed
  <2>2. k \in 1..Len(t) BY <1>1, <1>5, <2>1
  <2>3. QED BY <1>1, <2>1, <2>2 DEF Listed
<1>6. QED BY <1>1, <1>2, <1>3, <1>4, <1>5 DEF t

\* The cache of the server is within its limit, each module once, and only those used.
LEMMA UsedIsCached ==
  ASSUME IInv, NEW m \in Mods, modmapLZ' = Used(m), <<"modmap", m>> \in have', have \subseteq have'
  PROVE  CacheOK'
<1>. DEFINE s == ToFront(modmapLZ, m)
            max == MaxCachedModMaps
<1>1. modmapLZ \in Seq(Mods) /\ NoDuplicates(modmapLZ) /\ Len(modmapLZ) <= max BY DEF IInv, CacheOK
<1>2. max \in Nat /\ max >= 1 /\ Len(modmapLZ) \in Nat BY <1>1, RemoteStoreAssumption
<1>3. /\ s \in Seq(Mods) /\ NoDuplicates(s) /\ Len(s) \in {Len(modmapLZ), Len(modmapLZ) + 1}
      /\ \A x : Listed(s, x) => Listed(modmapLZ, x) \/ x = m
  BY <1>1, ToFrontLists
<1>4. modmapLZ' = IF Len(s) > max THEN ButOldest(s) ELSE s BY DEF Used
<1>. HIDE DEF s
<1>5. /\ modmapLZ' \in Seq(Mods) /\ NoDuplicates(modmapLZ') /\ Len(modmapLZ') <= max
      /\ \A x : Listed(modmapLZ', x) => Listed(s, x)
  <2>1. CASE Len(s) > max
    <3>1. s # <<>> BY <1>2, <2>1
    <3>2. /\ ButOldest(s) \in Seq(Mods) /\ Len(ButOldest(s)) = Len(s) - 1
          /\ NoDuplicates(ButOldest(s))
          /\ \A x : Listed(ButOldest(s), x) => Listed(s, x)
      BY <1>3, <3>1, ButOldestLists
    <3>3. QED BY <1>1, <1>2, <1>3, <1>4, <2>1, <3>2
  <2>2. CASE ~(Len(s) > max) BY <1>2, <1>3, <1>4, <2>2
  <2>3. QED BY <2>1, <2>2
<1>6. \A x \in Mods : Listed(modmapLZ', x) => <<"modmap", x>> \in have'
  BY <1>3, <1>5 DEF IInv, CacheOK
<1>7. NoDuplicates(modmapLZ)' /\ \A x \in Mods : Listed(modmapLZ, x)' => Listed(modmapLZ', x)
  BY <1>5 DEF NoDuplicates, Listed
<1>8. QED BY <1>5, <1>6, <1>7 DEF CacheOK

\* A request is answered, or fails.
LEMMA ReplyIInv ==
  ASSUME IInv, NEW c \in Callers, At(c) \in {"sent", "walk"}, NEW result, Replied(c, result),
         UNCHANGED <<readOnly, modmaps, meta, flight>>,
         have \subseteq have', have' \subseteq Keys, CacheOK',
         IF Kind(c) = "file" THEN result \in {Is("failed"), Data(call[c].path)}
           ELSE \/ result.status = "failed"
                \/ result.status = "ok" /\ call[c].key \in have'
                \/ result.status = "miss" /\ readOnly
  PROVE  IInv'
<1>. DEFINE x == Moved(c, "replied", result)
<1>1. call' = [call EXCEPT ![c] = x] BY DEF Replied
<1>2. call'[c] = [at |-> "replied", key |-> call[c].key, path |-> call[c].path, result |-> result]
  BY <1>1 DEF IInv, Domains, Moved
<1>3. /\ call'[c].at = "replied" /\ call'[c].key = call[c].key /\ call'[c].path = call[c].path
      /\ call'[c].result = result /\ Kind(c)' = Kind(c) /\ Mod(c)' = Mod(c)
      /\ call'[c] = [at |-> call'[c].at, key |-> call'[c].key, path |-> call'[c].path,
                     result |-> call'[c].result]
  BY <1>2 DEF Kind, Mod
<1>4. Shape(c)' BY <1>3 DEF IInv, CallOK, Shape, Lead, At
<1>5. Got(c)' BY <1>3 DEF Got
<1>6. CallOK(c)' BY <1>3, <1>4, <1>5 DEF CallOK, At
<1>7. FlightOK' BY <1>1, LeaderGoesOn DEF Lead
<1>8. Grows /\ MapsOK' BY MoreOnServer DEF Grows
<1>. HIDE DEF x
<1>9. QED BY <1>1, <1>6, <1>7, <1>8, OneCall DEF IInv, Domains

\* What a request for a key may be answered by the store and its downloads.
LEMMA BackendAnswers ==
  ASSUME NEW k \in Keys, NEW b \in Backend(k), have \subseteq Keys
  PROVE  /\ have \subseteq b.have /\ b.have \subseteq Keys
         /\ b.status \in {"failed", "ok", "miss"}
         /\ b.status = "ok" => k \in b.have
         /\ b.status = "miss" => readOnly /\ (k \notin have \/ k[1] = "info")
<1>1. CASE b = [status |-> "failed", have |-> have] BY <1>1
<1>2. CASE b = [status |-> "ok", have |-> have \cup {k}] BY <1>2
<1>3. CASE /\ readOnly /\ (k \notin have \/ k[1] = "info")
           /\ b = [status |-> "miss", have |-> have]
  BY <1>3
<1>4. QED BY <1>1, <1>2, <1>3 DEF Backend, Downloads

\* handleModMap.
LEMMA ServeModMapIInv ==
  ASSUME IInv, NEW c \in Callers, UNCHANGED readOnly, ServeModMapLZ(c) \/ ServeModMap(c) PROVE IInv'
<1>. DEFINE k == call[c].key
<1>1. k \in Keys /\ Kind(c) = "modmap" /\ At(c) \in {"sent", "walk"}
  <2>1. At(c) \in {"sent", "walk"} /\ (At(c) = "sent" => Kind(c) = "modmap")
    BY DEF ServeModMapLZ, ServeModMap
  <2>2. Shape(c) BY DEF IInv, CallOK
  <2>3. Kind(c) = "modmap" BY <2>1, <2>2 DEF Shape, At
  <2>4. k \notin {"file"} \X Mods BY <2>3 DEF Kind
  <2>5. QED BY <2>1, <2>2, <2>3, <2>4 DEF Shape, At
<1>2. k = <<"modmap", Mod(c)>> /\ Mod(c) \in Mods BY <1>1, KeyKinds DEF Kind, Mod
<1>3. CASE ServeModMapLZ(c) /\ Listed(modmapLZ, Mod(c))
  <2>. DEFINE ok == Is("ok")
  <2>1. /\ modmapLZ' = Used(Mod(c)) /\ Replied(c, ok) /\ UNCHANGED <<have, modmaps, meta, flight>>
    BY <1>3 DEF ServeModMapLZ
  <2>2. k \in have BY <1>2, <1>3 DEF IInv, CacheOK
  <2>3. CacheOK' BY <1>2, <2>1, <2>2, UsedIsCached
  <2>4. ok.status = "ok" BY DEF Is
  <2>. HIDE DEF ok
  <2>5. QED BY <1>1, <2>1, <2>2, <2>3, <2>4, ReplyIInv DEF IInv, Domains
<1>4. CASE ServeModMapLZ(c) /\ ~Listed(modmapLZ, Mod(c))
  <2>1. At(c) = "sent" /\ Goto(c, "walk") /\ UNCHANGED <<have, modmapLZ, modmaps, meta, flight>>
    BY <1>4 DEF ServeModMapLZ
  <2>2. call' = [call EXCEPT ![c] = Moved(c, "walk", call[c].result)] BY <2>1 DEF Goto
  <2>3. /\ call'[c].at = "walk" /\ call'[c].key = k /\ Kind(c)' = Kind(c)
        /\ call'[c] = [at |-> call'[c].at, key |-> call'[c].key, path |-> call'[c].path,
                       result |-> call'[c].result]
    BY <2>1, WentFields
  <2>4. Shape(c)' BY <1>1, <2>3 DEF Shape, Lead
  <2>5. FlightOK' BY <2>1, <2>2, LeaderGoesOn DEF Lead
  <2>6. QED BY <2>1, <2>4, <2>5, MoveIInv DEF IInv, Domains
<1>5. CASE ServeModMap(c)
  <2>1. PICK b \in Backend(k) :
          /\ have' = b.have /\ Replied(c, Is(b.status))
          /\ modmapLZ' = IF b.status = "ok" THEN Used(Mod(c)) ELSE modmapLZ
    BY <1>5 DEF ServeModMap
  <2>2. UNCHANGED <<modmaps, meta, flight>> BY <1>5 DEF ServeModMap
  <2>3. /\ have \subseteq have' /\ have' \subseteq Keys /\ b.status \in {"failed", "ok", "miss"}
        /\ b.status = "ok" => k \in have'
        /\ b.status = "miss" => readOnly
    <3>1. have \subseteq Keys BY DEF IInv, Domains
    <3>2. QED BY <1>1, <2>1, <3>1, BackendAnswers
  <2>4. CacheOK' BY <1>2, <2>1, <2>3, UsedIsCached, MoreOnServer
  <2>. DEFINE r == Is(b.status)
  <2>5. r.status = b.status BY DEF Is
  <2>. HIDE DEF r
  <2>6. Replied(c, r) BY <2>1 DEF r
  <2>7. QED BY <1>1, <2>2, <2>3, <2>4, <2>5, <2>6, ReplyIInv
<1>6. QED BY <1>3, <1>4, <1>5

\* handleMeta.
LEMMA ServeMetaIInv ==
  ASSUME IInv, NEW c \in Callers, UNCHANGED readOnly, ServeMeta(c) PROVE IInv'
<1>. DEFINE k == call[c].key
<1>1. At(c) = "sent" /\ Kind(c) \in Exts /\ UNCHANGED <<modmapLZ, modmaps, meta, flight>> BY DEF ServeMeta
<1>2. Kind(c) # "file" BY <1>1, RemoteStoreAssumption
<1>3. k \in Keys
  <2>1. Shape(c) BY DEF IInv, CallOK
  <2>2. k \notin {"file"} \X Mods BY <1>2 DEF Kind
  <2>3. QED BY <1>1, <2>1, <2>2 DEF Shape, At
<1>4. PICK b \in Backend(k) : have' = b.have /\ Replied(c, Is(b.status)) BY DEF ServeMeta
<1>5. /\ have \subseteq have' /\ have' \subseteq Keys /\ b.status \in {"failed", "ok", "miss"}
      /\ b.status = "ok" => k \in have'
      /\ b.status = "miss" => readOnly
  <2>1. have \subseteq Keys BY DEF IInv, Domains
  <2>2. QED BY <1>3, <1>4, <2>1, BackendAnswers
<1>6. CacheOK' BY <1>1, <1>5, MoreOnServer
<1>. DEFINE r == Is(b.status)
<1>7. r.status = b.status BY DEF Is
<1>. HIDE DEF r
<1>8. Replied(c, r) BY <1>4 DEF r
<1>9. QED BY <1>1, <1>2, <1>5, <1>6, <1>7, <1>8, ReplyIInv

\* handleFile: the module is in the store, because the client has its file map, so that a
\* listed file is found.
LEMMA ServeFileIInv ==
  ASSUME IInv, NEW c \in Callers, UNCHANGED readOnly, ServeFile(c) PROVE IInv'
<1>. DEFINE k == <<"modmap", Mod(c)>>
            file == call[c].path
<1>1. At(c) = "sent" /\ Kind(c) = "file" /\ UNCHANGED <<modmapLZ, modmaps, meta, flight>> BY DEF ServeFile
<1>2. call[c].key \in {"file"} \X Mods /\ file \in WalkFiles(Mod(c)) /\ modmaps[Mod(c)] # NoMap
  <2>1. Shape(c) BY DEF IInv, CallOK
  <2>2. call[c].key \notin Keys BY <1>1, KeyKinds DEF Kind
  <2>3. QED BY <1>1, <2>1, <2>2 DEF Shape, At
<1>3. Mod(c) \in Mods BY <1>2 DEF Mod
<1>4. k \in Keys /\ k \in have BY <1>2, <1>3 DEF Keys, IInv, MapsOK
<1>5. StoreGetFile(Mod(c), file) = Data(file) BY <1>2 DEF StoreGetFile, WalkFiles
<1>6. Data(file) # Is("isdir") BY DEF Data, Is
<1>7. PICK b \in Backend(k) :
        /\ have' = b.have
        /\ Replied(c, CASE b.status = "miss" -> Is("notexist")
                        [] b.status = "failed" -> Is("failed")
                        [] OTHER -> IF Data(file) = Is("isdir") THEN Is("refused") ELSE Data(file))
  BY <1>5 DEF ServeFile
<1>8. /\ have \subseteq have' /\ have' \subseteq Keys /\ b.status \in {"failed", "ok"}
  <2>1. have \subseteq Keys BY DEF IInv, Domains
  <2>2. QED BY <1>4, <1>7, <2>1, BackendAnswers
<1>9. PICK r \in {Is("failed"), Data(file)} : Replied(c, r)
  <2>1. CASE b.status = "failed" BY <1>7, <2>1
  <2>2. CASE b.status = "ok" BY <1>6, <1>7, <2>2
  <2>3. QED BY <1>8, <2>1, <2>2
<1>10. CacheOK' BY <1>1, <1>8, MoreOnServer
<1>11. QED BY <1>1, <1>8, <1>9, <1>10, ReplyIInv

\* A request that fails is answered as failed.
LEMMA RequestFailsIInv ==
  ASSUME IInv, NEW c \in Callers, UNCHANGED readOnly, RequestFails(c) PROVE IInv'
<1>. DEFINE r == Is("failed")
<1>1. /\ At(c) \in {"sent", "walk"} /\ Replied(c, r)
      /\ UNCHANGED <<have, modmapLZ, modmaps, meta, flight>>
  BY DEF RequestFails
<1>2. r.status = "failed" BY DEF Is
<1>3. r = Is("failed") OBVIOUS
<1>. HIDE DEF r
<1>4. CacheOK' BY <1>1, MoreOnServer
<1>5. QED BY <1>1, <1>2, <1>3, <1>4, ReplyIInv DEF IInv, Domains

\* Another client uses the cache of the server.
LEMMA ServeOtherIInv ==
  ASSUME IInv, NEW m \in Mods, UNCHANGED readOnly, ServeOther(m) PROVE IInv'
<1>1. /\ <<"modmap", m>> \in have /\ modmapLZ' = Used(m)
      /\ UNCHANGED <<have, modmaps, meta, flight, call>>
  BY DEF ServeOther
<1>2. CacheOK' /\ MapsOK' BY <1>1, UsedIsCached, MoreOnServer
<1>3. FlightOK' BY <1>1 DEF IInv, FlightOK, At
<1>4. \A c \in Callers : CallOK(c)'
  <2>1. Grows BY <1>1 DEF Grows
  <2>2. QED BY <1>1, <2>1, OtherCall DEF IInv
<1>5. QED BY <1>1, <1>2, <1>3, <1>4 DEF IInv, Domains

\* The server starts again: the requests that it had fail.
LEMMA RestartIInv ==
  ASSUME IInv, UNCHANGED readOnly, Restart PROVE IInv'
<1>. DEFINE r == Is("failed")
            Fails(c) == At(c) \in {"sent", "walk"}
<1>1. /\ modmapLZ' = <<>> /\ UNCHANGED <<have, modmaps, meta, flight>>
      /\ call' = [c \in Callers |-> IF Fails(c) THEN Moved(c, "replied", r) ELSE call[c]]
  BY DEF Restart
<1>2. r.status = "failed" /\ r = Is("failed") BY DEF Is
<1>. HIDE DEF r
<1>3. Grows /\ MapsOK' BY <1>1, MoreOnServer DEF Grows
<1>4. CacheOK'
  <2>1. <<>> \in Seq(Mods) /\ Len(<<>>) = 0 BY EmptySeq
  <2>2. QED BY <1>1, <2>1, RemoteStoreAssumption DEF CacheOK, NoDuplicates, Listed
<1>5. ASSUME NEW c \in Callers, Fails(c)
      PROVE  CallOK(c)' /\ call'[c].key = call[c].key /\ At(c)' = "replied"
  <2>1. call'[c] = [at |-> "replied", key |-> call[c].key, path |-> call[c].path, result |-> r]
    BY <1>1, <1>5 DEF Moved
  <2>2. /\ call'[c].at = "replied" /\ call'[c].key = call[c].key /\ call'[c].path = call[c].path
        /\ call'[c].result = r /\ Kind(c)' = Kind(c) /\ Mod(c)' = Mod(c)
        /\ call'[c] = [at |-> call'[c].at, key |-> call'[c].key, path |-> call'[c].path,
                       result |-> call'[c].result]
    BY <2>1 DEF Kind, Mod
  <2>3. Shape(c)' BY <1>1, <1>5, <2>2 DEF IInv, CallOK, Shape, Lead, At
  <2>4. Got(c)' BY <1>2, <2>2 DEF Got
  <2>5. QED BY <2>2, <2>3, <2>4 DEF CallOK, At
<1>6. ASSUME NEW c \in Callers, ~Fails(c) PROVE CallOK(c)' /\ call'[c] = call[c]
  <2>1. call'[c] = call[c] BY <1>1, <1>6
  <2>2. QED BY <1>3, <2>1, OtherCall DEF IInv
<1>7. \A c \in Callers : /\ call'[c].key = call[c].key
                         /\ At(c)' \in Lead <=> At(c) \in Lead
                         /\ At(c)' = "wait" <=> At(c) = "wait"
  <2>1. ASSUME NEW c \in Callers, Fails(c)
        PROVE  /\ call'[c].key = call[c].key
               /\ At(c)' \in Lead <=> At(c) \in Lead
               /\ At(c)' = "wait" <=> At(c) = "wait"
    BY <1>5, <2>1 DEF Lead
  <2>2. ASSUME NEW c \in Callers, ~Fails(c)
        PROVE  /\ call'[c].key = call[c].key
               /\ At(c)' \in Lead <=> At(c) \in Lead
               /\ At(c)' = "wait" <=> At(c) = "wait"
    BY <1>6, <2>2 DEF At
  <2>. HIDE DEF Fails
  <2>3. QED BY <2>1, <2>2
<1>8. FlightOK'
  <2>1. ASSUME NEW j \in Keys
        PROVE  /\ flight'[j] \in Callers \cup {NoCaller}
               /\ flight'[j] # NoCaller => call'[flight'[j]].key = j /\ At(flight[j])' \in Lead
    <3>1. CASE flight[j] = NoCaller BY <1>1, <3>1
    <3>2. CASE flight[j] # NoCaller
      <4>1. PICK e \in Callers : e = flight[j] BY <3>2 DEF IInv, FlightOK
      <4>2. call[e].key = j /\ At(e) \in Lead BY <3>2, <4>1 DEF IInv, FlightOK
      <4>3. call'[e].key = j /\ At(e)' \in Lead BY <1>7, <4>2
      <4>4. flight'[j] = e BY <1>1, <4>1
      <4>5. QED BY <4>3, <4>4 DEF At
    <3>3. QED BY <3>1, <3>2
  <2>2. \A c \in Callers :
          /\ At(c)' = "wait" => flight'[call'[c].key] # NoCaller
          /\ call'[c].key \in Keys /\ At(c)' \in Lead => flight'[call'[c].key] = c
    BY <1>1, <1>7 DEF IInv, FlightOK
  <2>3. QED BY <2>1, <2>2 DEF FlightOK
<1>9. DOMAIN call' = Callers BY <1>1
<1>. HIDE DEF Fails
<1>10. \A c \in Callers : CallOK(c)' BY <1>5, <1>6
<1>11. QED BY <1>1, <1>3, <1>4, <1>8, <1>9, <1>10 DEF IInv, Domains

-----------------------------------------------------------------------------
(* The theorems *)

\* Nothing is cached and no call has begun at first.
LEMMA InitIInv == ASSUME Init PROVE IInv
<1>1. Domains BY DEF Init, Domains
<1>2. CacheOK
  <2>1. <<>> \in Seq(Mods) /\ Len(<<>>) = 0 BY EmptySeq
  <2>2. QED BY <2>1, RemoteStoreAssumption DEF Init, CacheOK, NoDuplicates, Listed
<1>3. MapsOK BY DEF Init, MapsOK
<1>4. ASSUME NEW c \in Callers PROVE CallOK(c) /\ At(c) = "done"
  <2>. DEFINE none == Is("none")
              k == <<"none", "none">>
  <2>. HIDE DEF none
  <2>1. call[c] = [at |-> "done", key |-> k, path |-> Root, result |-> none] BY DEF Init, none
  <2>2. call[c].at = "done" /\ call[c].key = k /\ Kind(c) = "none" BY <2>1 DEF Kind
  <2>3. call[c] = [at |-> call[c].at, key |-> call[c].key, path |-> call[c].path, result |-> call[c].result]
    BY <2>1
  <2>4. Answered(c) BY <2>2 DEF Answered
  <2>5. Shape(c) BY <2>2, <2>3 DEF Shape
  <2>6. QED BY <2>2, <2>4, <2>5 DEF CallOK, At
<1>5. FlightOK BY <1>4 DEF Init, FlightOK, Lead
<1>6. QED BY <1>1, <1>2, <1>3, <1>4, <1>5 DEF IInv

\* Every step keeps the invariant.
LEMMA NextIInv == ASSUME IInv, [Next]_vars PROVE IInv'
<1>1. CASE UNCHANGED vars
  <2>1. FlightOK' BY <1>1 DEF vars, IInv, FlightOK, At
  <2>2. Grows BY <1>1 DEF vars, Grows
  <2>3. \A c \in Callers : CallOK(c)' BY <1>1, <2>2, OtherCall DEF vars, IInv
  <2>4. QED BY <1>1, <2>1, <2>3, MoreOnServer DEF vars, IInv, Domains
<1>2. CASE Next
  <2>1. UNCHANGED readOnly BY <1>2 DEF Next
  <2>2. ASSUME NEW c \in Callers, \/ \E m \in Mods : GetZipRoot(c, m)
                                  \/ \E m \in Mods, ext \in Exts : GetMetaFile(c, m, ext)
        PROVE  IInv'
    BY <2>1, <2>2, BeginIInv
  <2>3. ASSUME NEW c \in Callers, \E m \in Mods, p \in Paths \ {Root} : GetFile(c, m, p) PROVE IInv'
    BY <2>1, <2>3, GetFileIInv
  <2>4. ASSUME NEW c \in Callers, ClientStep(c) PROVE IInv'
    BY <2>1, <2>4, DoIInv, RecheckIInv, SendIInv, KeepIInv, LandIInv DEF ClientStep
  <2>5. ASSUME NEW c \in Callers, ServerStep(c) PROVE IInv'
    BY <2>1, <2>5, ServeModMapIInv, ServeMetaIInv, ServeFileIInv, RequestFailsIInv DEF ServerStep
  <2>6. ASSUME NEW m \in Mods, ServeOther(m) PROVE IInv' BY <2>1, <2>6, ServeOtherIInv
  <2>7. CASE Restart BY <2>1, <2>7, RestartIInv
  <2>8. QED BY <1>2, <2>2, <2>3, <2>4, <2>5, <2>6, <2>7 DEF Next
<1>3. QED BY <1>1, <1>2

\* The inductive invariant of the client and the server.
THEOREM InvariantIInv == Spec => []IInv
BY InitIInv, NextIInv, PTL DEF Spec

\* A flight has one leader, who is the only one to ask for its key, nobody waits for a
\* flight that has landed, and the cache of the server is within its limit.
THEOREM TypeCorrect == Spec => []TypeOK
<1>1. IInv => TypeOK
  <2>1. SUFFICES ASSUME IInv PROVE TypeOK OBVIOUS
  <2>2. \A k \in Keys : flight[k] # NoCaller =>
          call[flight[k]].key = k /\ At(flight[k]) \notin {"do", "wait", "done"}
    BY <2>1 DEF IInv, FlightOK, Lead
  <2>3. ASSUME NEW c \in Callers
        PROVE  /\ At(c) = "wait" => flight[call[c].key] # NoCaller
               /\ Kind(c) # "file" /\ At(c) \notin {"do", "wait", "done"} => flight[call[c].key] = c
    <3>1. Shape(c) BY <2>1 DEF IInv, CallOK
    <3>2. At(c) = "wait" => flight[call[c].key] # NoCaller BY <2>1 DEF IInv, FlightOK
    <3>3. ASSUME Kind(c) # "file", At(c) \notin {"do", "wait", "done"} PROVE flight[call[c].key] = c
      <4>1. At(c) \in Lead BY <3>1, <3>3 DEF Shape, At
      <4>2. call[c].key \notin {"file"} \X Mods BY <3>3 DEF Kind
      <4>3. call[c].key \in Keys BY <3>1, <4>1, <4>2 DEF Shape, At, Lead
      <4>4. QED BY <2>1, <4>1, <4>3 DEF IInv, FlightOK
    <3>4. QED BY <3>2, <3>3
  <2>4. QED BY <2>1, <2>2, <2>3 DEF IInv, Domains, CacheOK, TypeOK
<1>2. QED BY <1>1, InvariantIInv, PTL

\* Of a module that it has the file map of, the client says what the store of the server
\* says (buildDirMap after walkFiles), for any tree.
THEOREM ClientsSeeTheTree == Spec => []ClientSeesTheTree
<1>1. IInv => ClientSeesTheTree
  <2>1. SUFFICES ASSUME IInv, NEW m \in Mods, modmaps[m] # NoMap, NEW p \in Paths
                 PROVE  Stat(m, p) = StoreStat(m, p) /\ Readdir(m, p) = StoreReaddir(m, p)
    BY DEF ClientSeesTheTree
  <2>2. modmaps[m] = WalkFiles(m) BY <2>1 DEF IInv, MapsOK
  <2>3. QED BY <2>2, MapIsTree
<1>2. QED BY <1>1, InvariantIInv, PTL

\* A call is answered as the store of the server would answer it, or fails, or the server
\* may not download the module.
THEOREM CallsAreAnswered == Spec => []AnswersAreTheStores
<1>1. IInv => AnswersAreTheStores BY DEF IInv, CallOK, AnswersAreTheStores
<1>2. QED BY <1>1, InvariantIInv, PTL

=============================================================================

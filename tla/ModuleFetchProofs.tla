-------------------------- MODULE ModuleFetchProofs --------------------------
(***************************************************************************)
(* Proofs about ModuleFetch, for any callers, module versions and proxies, *)
(* with every download and every git command failing at will, and restarts *)
(* at any point.                                                           *)
(***************************************************************************)
EXTENDS ModuleFetch, TLAPS

-----------------------------------------------------------------------------
(* The inductive invariant *)

\* The tree of a tsgo version: a tarball has no info and no mod file.
TSTree == [NoTree EXCEPT !.zip = GitHub]

\* What a call has when it has downloaded all it wants, and what it may have before.
Complete(c) ==
  IF FromGitHub(c) THEN TSTree
  ELSE IF Kind(c) = "zip" THEN TreeFrom(Source(c))
  ELSE [NoTree EXCEPT ![Kind(c)] = Source(c)]

Partial(c) ==
  IF Kind(c) # "zip" \/ FromGitHub(c) THEN {NoTree}
  ELSE {NoTree, [zip |-> Source(c), info |-> NoSrc, mod |-> NoSrc],
        [zip |-> Source(c), info |-> Source(c), mod |-> NoSrc]}

\* The calls that run the function of a flight.  FUSE gets tsgo without one.
Flying(c) == pc[c] \in Fetching \cup {"recheck"} /\ Kind(c) # "tsgo"

\* What a restarted server can take a handle back to.
Stored(h) == Found(h, CachedModules)

\* What is so of a call at each of its places.
CallState(c) ==
  /\ pc[c] \in {"cached", "recheck"} => Kind(c) = "zip"
  /\ pc[c] \in {"tree", "ref"} => Kind(c) \in {"mod", "info"}
  /\ pc[c] \in {"join", "wait"} => Kind(c) # "tsgo"
  /\ pc[c] \in {"root", "update-ref", "ls-tree", "publish"} => IsTree(c)
  /\ pc[c] \notin AtRest /\ Kind(c) = "tsgo" => Mod(c) \in TSGo
  /\ Flying(c) => flight[Key(c)] = c
  /\ pc[c] \in Fetching /\ Kind(c) = "zip" => zipRootCache[Mod(c)] = NoTree
  /\ pc[c] \in {"cached", "join", "recheck", "root", "tree", "ref"} => hand[c] = NoTree
  /\ pc[c] = "slurp" => hand[c] \in Partial(c)
  /\ pc[c] \in {"put", "update-ref"} => hand[c] = Complete(c)
  /\ pc[c] \in {"ls-tree", "publish"} =>
       /\ hand[c] = treeRef[Mod(c)] /\ hand[c] # NoTree
       /\ ~readOnly => hand[c].zip # Stale
  /\ pc[c] = "done" => Kind(c) = "tsgo" \/ Stored(Key(c))

\* The store: a ref is of an object, only toolchains are from an earlier version, and
\* all tarballs of a tsgo version are the same tree.
StoreState ==
  /\ \A m \in Mods : treeRef[m] # NoTree => treeRef[m] \in objects[m]
  /\ \A m \in Mods : treeRef[m].zip = Stale => m \in Toolchains
  /\ \A m \in TSGo : treeRef[m] \in {NoTree, TSTree}

\* The handles: what is to last is in the store, and known once the maps are in use.
HandleState ==
  /\ \A g \in handed : Lasting(g) => Stored(g[1])
  /\ mapsReady => \A g \in handed : Lasting(g) => g[1] \in handle \/ g[1][2] \in modVerHash
  /\ mapsReady => \A m \in Mods : zipRootCache[m] # NoTree => m \in modVerHash

IInv ==
  /\ TypeOK
  /\ \A c \in Callers : CallState(c)
  /\ StoreState
  /\ OneProxyPerTree
  /\ RootsAreStored
  /\ ToolchainsHaveGoMods
  /\ HandleState

-----------------------------------------------------------------------------
(* Facts about the constants and the operators *)

\* The files and trees that there are, and that they differ.
LEMMA TreeFacts ==
  /\ GitHub \in Sources /\ Stale \in Sources /\ NoSrc \notin Sources
  /\ GitHub # Stale /\ GitHub # NoSrc /\ Stale # NoSrc
  /\ \A i \in 1..Len(Proxies) : Proxies[i] \in Sources \ {Stale}
  /\ NoTree \in Trees /\ NoTree.zip = NoSrc /\ NoTree.info = NoSrc
  /\ TSTree \in Trees /\ TSTree # NoTree /\ TSTree.zip = GitHub
  /\ \A s \in Sources : TreeFrom(s) \in Trees /\ TreeFrom(s) # NoTree /\ TreeFrom(s).zip = s
<1>1. GitHub \in Sources /\ Stale \in Sources BY DEF Sources
<1>2. \A i \in 1..Len(Proxies) : Proxies[i] \in Sources \ {Stale}
  BY ModuleFetchAssumption DEF Sources
<1>3. NoTree \in Trees /\ NoTree.zip = NoSrc /\ NoTree.info = NoSrc BY DEF NoTree, Trees
<1>4. TSTree = [zip |-> GitHub, info |-> NoSrc, mod |-> NoSrc] BY DEF TSTree, NoTree
<1>5. \A s \in Sources : TreeFrom(s) \in Trees /\ TreeFrom(s).zip = s BY DEF TreeFrom, Trees
<1>6. QED BY <1>1, <1>2, <1>3, <1>4, <1>5, ModuleFetchAssumption DEF Trees

\* The call of a caller has a kind, a module version and a key.
LEMMA CallFacts ==
  ASSUME TypeOK, NEW c \in Callers
  PROVE  /\ Kind(c) \in AllKinds /\ Kind(c) \in Kinds /\ Mod(c) \in Mods /\ Key(c) \in Keys
         /\ Key(c)[1] = Kind(c) /\ Key(c)[2] = Mod(c)
BY ModuleFetchAssumption DEF TypeOK, Kind, Mod, Key, Keys

\* A tree that was downloaded is a tree, is not from an earlier version, and is of one
\* proxy unless it is a tarball.
LEMMA CompleteFacts ==
  ASSUME TypeOK, NEW c \in Callers, Kind(c) = "tsgo" => Mod(c) \in TSGo
  PROVE  /\ Source(c) \in Sources \ {Stale}
         /\ Complete(c) \in Trees /\ Complete(c) # NoTree /\ Complete(c).zip # Stale
         /\ Partial(c) \subseteq Trees
         /\ Kind(c) = "mod" => Complete(c).mod # NoSrc
         /\ Kind(c) = "info" => Complete(c).info # NoSrc
         /\ IsTree(c) /\ Mod(c) \in TSGo => Complete(c) = TSTree
         /\ Kind(c) = "zip" /\ Mod(c) \notin TSGo => Complete(c) = TreeFrom(Complete(c).zip)
<1>1. Source(c) \in Sources \ {Stale}
  BY TreeFacts DEF Source, TypeOK
<1>2. /\ [zip |-> Source(c), info |-> NoSrc, mod |-> NoSrc] \in Trees
      /\ [zip |-> Source(c), info |-> Source(c), mod |-> NoSrc] \in Trees
  BY <1>1 DEF Trees, NoTree
<1>3. Partial(c) \subseteq Trees BY <1>2, TreeFacts DEF Partial
<1>4. CASE FromGitHub(c)
  BY <1>1, <1>3, <1>4, TreeFacts DEF Complete, FromGitHub
<1>5. CASE ~FromGitHub(c) /\ Kind(c) = "zip"
  BY <1>1, <1>3, <1>5, TreeFacts DEF Complete, FromGitHub, IsTree
<1>6. CASE ~FromGitHub(c) /\ Kind(c) \in {"mod", "info"}
  <2>1. CASE Kind(c) = "mod"
    <3>1. Complete(c) = [zip |-> NoSrc, info |-> NoSrc, mod |-> Source(c)]
      BY <1>6, <2>1 DEF Complete, NoTree
    <3>2. QED BY <1>1, <1>3, <1>6, <2>1, <3>1, TreeFacts DEF Trees, NoTree, IsTree
  <2>2. CASE Kind(c) = "info"
    <3>1. Complete(c) = [zip |-> NoSrc, info |-> Source(c), mod |-> NoSrc]
      BY <1>6, <2>2 DEF Complete, NoTree
    <3>2. QED BY <1>1, <1>3, <1>6, <2>2, <3>1, TreeFacts DEF Trees, NoTree, IsTree
  <2>3. QED BY <1>6, <2>1, <2>2
<1>7. ~(~FromGitHub(c) /\ Kind(c) = "tsgo") BY DEF FromGitHub
<1>8. QED BY <1>4, <1>5, <1>6, <1>7, CallFacts DEF AllKinds

-----------------------------------------------------------------------------
(* Steps that leave the memory and the store alone *)

\* A call keeps its state while others move, if its flight stays its own, no root is
\* published that it fetches, its ref is not moved, and nothing stored is lost.
LEMMA OtherCall ==
  ASSUME NEW d \in Callers, CallState(d),
         pc'[d] = pc[d], call'[d] = call[d], hand'[d] = hand[d], proxy'[d] = proxy[d],
         readOnly' = readOnly,
         Flying(d) => flight'[Key(d)] = d,
         pc[d] \in Fetching /\ Kind(d) = "zip" => zipRootCache'[Mod(d)] = NoTree,
         pc[d] \in {"ls-tree", "publish"} => treeRef'[Mod(d)] = treeRef[Mod(d)],
         Stored(Key(d)) => Stored(Key(d))'
  PROVE  CallState(d)'
<1>1. Kind(d)' = Kind(d) /\ Mod(d)' = Mod(d) /\ Key(d)' = Key(d) BY DEF Kind, Mod, Key
<1>2. Complete(d)' = Complete(d) /\ Partial(d)' = Partial(d)
  BY <1>1 DEF Complete, Partial, FromGitHub, Source
<1>3. Flying(d)' = Flying(d) /\ IsTree(d)' = IsTree(d) BY <1>1 DEF Flying, IsTree
<1>4. Stored(Key(d)') = Stored(Key(d)) BY <1>1
<1>5. QED BY <1>1, <1>2, <1>3, <1>4 DEF CallState, Stored, Found, CachedModules

\* A step of one call that leaves memory, store and handles alone, and takes at most a
\* free flight.
LEMMA LocalStep ==
  ASSUME IInv, TypeOK', NEW c \in Callers, CallState(c)',
         \A d \in Callers \ {c} : /\ pc'[d] = pc[d] /\ call'[d] = call[d]
                                  /\ hand'[d] = hand[d] /\ proxy'[d] = proxy[d],
         \/ flight' = flight
         \/ flight[Key(c)] = NoCaller /\ flight' = [flight EXCEPT ![Key(c)] = c],
         UNCHANGED <<memoryVars, storeVars, handed>>
  PROVE  IInv'
<1>. USE DEF memoryVars, storeVars
<1>1. ASSUME NEW d \in Callers \ {c} PROVE CallState(d)'
  <2>1. Flying(d) => flight'[Key(d)] = d
    <3>1. SUFFICES ASSUME Flying(d) PROVE flight'[Key(d)] = d OBVIOUS
    <3>2. flight[Key(d)] = d BY <3>1 DEF IInv, CallState
    <3>3. QED BY <3>2, ModuleFetchAssumption, CallFacts DEF IInv, TypeOK
  <2>2. Stored(Key(d)) => Stored(Key(d))'
    BY DEF Stored, Found, CachedModules, Key, Kind, Mod
  <2>3. CallState(d) BY DEF IInv
  <2>4. pc[d] \in Fetching /\ Kind(d) = "zip" => zipRootCache'[Mod(d)] = NoTree
    BY <2>3 DEF CallState
  <2>5. QED BY <2>1, <2>2, <2>3, <2>4, OtherCall
<1>2. StoreState' /\ OneProxyPerTree' /\ RootsAreStored' /\ ToolchainsHaveGoMods'
  BY DEF IInv, StoreState, OneProxyPerTree, RootsAreStored, ToolchainsHaveGoMods
<1>3. HandleState' BY DEF IInv, HandleState, Stored, Found, CachedModules
<1>4. QED BY <1>1, <1>2, <1>3 DEF IInv

\* A call returns, with the calls that wait for its flight, and the file is stored.
LEMMA ReturnedCalls ==
  ASSUME IInv, NEW c \in Callers, NEW st \in {"done", "failed"}, NEW t \in Trees,
         Return(c, st, t), readOnly' = readOnly,
         \A h \in Keys \cup Handles : Stored(h) => Stored(h)',
         st = "done" => Kind(c) = "tsgo" \/ Stored(Key(c))',
         \A d \in Callers \ {c} :
           pc[d] \in Fetching /\ Kind(d) = "zip" => zipRootCache'[Mod(d)] = NoTree,
         \A m \in Mods : treeRef'[m] = treeRef[m]
  PROVE  \A d \in Callers : CallState(d)'
<1>1. SUFFICES ASSUME NEW d \in Callers PROVE CallState(d)' OBVIOUS
<1>2. /\ TypeOK /\ CallState(d) /\ Key(d)' = Key(d) /\ Kind(d)' = Kind(d) /\ Mod(d)' = Mod(d)
      /\ Key(d) \in Keys /\ Mod(d) \in Mods
  BY CallFacts DEF IInv, Return, Kind, Mod, Key
<1>3. CASE d = c \/ Shares(c, d)
  <2>1. pc'[d] = st BY <1>3 DEF Return
  <2>2. Key(d) = Key(c) BY <1>3 DEF Shares
  <2>3. Kind(d) = Kind(c) BY <2>2, <1>2, CallFacts
  <2>4. st = "done" => Kind(d)' = "tsgo" \/ Stored(Key(d))'
    <3>1. Stored(Key(d))' = Stored(Key(c))' BY <2>2 DEF Return, Key, Kind, Mod, Stored
    <3>2. QED BY <3>1, <2>3, <1>2
  <2>5. QED BY <2>1, <2>4 DEF CallState, Flying, Fetching, AtRest
<1>4. CASE ~(d = c \/ Shares(c, d))
  <2>1. /\ pc'[d] = pc[d] /\ hand'[d] = hand[d] /\ call'[d] = call[d] /\ proxy'[d] = proxy[d]
    BY <1>4 DEF Return
  <2>2. Flying(d) => flight'[Key(d)] = d
    <3>1. SUFFICES ASSUME Flying(d) PROVE flight'[Key(d)] = d OBVIOUS
    <3>2. flight[Key(d)] = d BY <3>1, <1>2 DEF CallState
    <3>3. QED BY <3>2, <1>2, <1>4 DEF Return, TypeOK
  <2>3. Stored(Key(d)) => Stored(Key(d))'
    BY <1>2 DEF Stored, Found, CachedModules
  <2>4. QED BY <1>2, <1>4, <2>1, <2>2, <2>3, OtherCall
<1>5. QED BY <1>3, <1>4

\* Return keeps the types.
LEMMA ReturnType ==
  ASSUME TypeOK, NEW c \in Callers, NEW st \in {"done", "failed"}, NEW t \in Trees,
         Return(c, st, t)
  PROVE  /\ pc' \in [Callers -> PCs] /\ call' \in [Callers -> [kind : Kinds, mod : Mods]]
         /\ proxy' \in [Callers -> 1..Len(Proxies)] /\ hand' \in [Callers -> Trees]
         /\ flight' \in [Keys -> Callers \cup {NoCaller}]
BY DEF TypeOK, Return, PCs, AtRest

\* A call returns and leaves memory, store and handles alone.
LEMMA ReturnStep ==
  ASSUME IInv, NEW c \in Callers, NEW st \in {"done", "failed"}, NEW t \in Trees,
         Return(c, st, t), UNCHANGED <<memoryVars, storeVars, handed>>,
         st = "done" => Kind(c) = "tsgo" \/ Stored(Key(c))
  PROVE  IInv'
<1>. USE DEF memoryVars, storeVars
<1>1. TypeOK' BY ReturnType DEF IInv, TypeOK
<1>2. \A h : Stored(h)' = Stored(h) BY DEF Stored, Found, CachedModules
<1>3. Stored(Key(c))' = Stored(Key(c))
  BY DEF Stored, Found, CachedModules, Return, Key, Kind, Mod
<1>4. \A d \in Callers : CallState(d)'
  BY <1>2, <1>3, ReturnedCalls DEF IInv, CallState
<1>5. StoreState' /\ OneProxyPerTree' /\ RootsAreStored' /\ ToolchainsHaveGoMods'
  BY DEF IInv, StoreState, OneProxyPerTree, RootsAreStored, ToolchainsHaveGoMods
<1>6. HandleState' BY DEF IInv, HandleState, Stored, Found, CachedModules
<1>7. QED BY <1>1, <1>4, <1>5, <1>6 DEF IInv

\* A failed call changes nothing but its flight.
LEMMA FailStep == ASSUME IInv, NEW c \in Callers, Fail(c) PROVE IInv'
BY ReturnStep, TreeFacts DEF Fail

-----------------------------------------------------------------------------
(* The steps of a call *)

\* A call starts, at the place of its kind and with nothing in hand.
LEMMA StartIInv == ASSUME IInv, NEW c \in Callers, Start(c) PROVE IInv'
<1>. USE DEF Start, memoryVars, storeVars
<1>1. PICK k \in Kinds, m \in Mods :
        /\ k = "tsgo" => m \in TSGo
        /\ call' = [call EXCEPT ![c] = [kind |-> k, mod |-> m]]
        /\ pc' = [pc EXCEPT ![c] = Entry[k]]
  OBVIOUS
<1>2. /\ k \in AllKinds
      /\ Entry["zip"] = "cached" /\ Entry["mod"] = "ref"
      /\ Entry["info"] = "tree" /\ Entry["tsgo"] = "root"
  BY ModuleFetchAssumption DEF Entry
<1>3. /\ pc'[c] = Entry[k] /\ Kind(c)' = k /\ Mod(c)' = m /\ hand'[c] = NoTree
      /\ proxy'[c] = 1
  BY <1>1 DEF IInv, TypeOK, Kind, Mod
<1>4. TypeOK'
  <2>1. 1 \in 1..Len(Proxies) BY ModuleFetchAssumption
  <2>2. Entry[k] \in PCs BY <1>2 DEF AllKinds, PCs
  <2>3. QED BY <1>1, <2>1, <2>2, TreeFacts DEF IInv, TypeOK
<1>5. CallState(c)'
  BY <1>1, <1>2, <1>3 DEF CallState, Flying, Fetching, AtRest, AllKinds, IsTree
<1>6. QED BY <1>1, <1>4, <1>5, LocalStep DEF IInv, TypeOK

\* A cached root is returned; it is in the store.
LEMMA CachedHitIInv ==
  ASSUME IInv, NEW c \in Callers, CachedHit(c) \/ RecheckHit(c) PROVE IInv'
<1>1. /\ zipRootCache[Mod(c)] # NoTree /\ Return(c, "done", zipRootCache[Mod(c)])
      /\ UNCHANGED <<memoryVars, storeVars, handed>>
  BY DEF CachedHit, RecheckHit
<1>2. Mod(c) \in Mods /\ zipRootCache[Mod(c)] \in Trees BY CallFacts DEF IInv, TypeOK
<1>3. treeRef[Mod(c)] # NoTree BY <1>1, <1>2 DEF IInv, RootsAreStored
<1>4. Stored(Key(c)) BY <1>2, <1>3 DEF Stored, Found, CachedModules, Key
<1>5. QED BY <1>1, <1>2, <1>4, ReturnStep

\* The steps of a call that only take it to another place, with nothing in hand.
LEMMA GotoIInv ==
  ASSUME IInv, NEW c \in Callers,
         \/ CachedMiss(c) \/ Follow(c) \/ RecheckMiss(c) \/ RootMissDownload(c)
         \/ TreeInfoMiss(c) \/ RefMissDownload(c)
  PROVE  IInv'
<1>. USE DEF CachedMiss, Follow, RecheckMiss, RootMissDownload, RootMiss, TreeInfoMiss,
       RefMissDownload, Goto
<1>1. UNCHANGED <<call, proxy, hand, flight, memoryVars, storeVars, handed>> OBVIOUS
<1>2. PICK st \in {"join", "wait", "root", "slurp", "ref"} : pc' = [pc EXCEPT ![c] = st] OBVIOUS
<1>3. TypeOK' BY <1>1, <1>2 DEF IInv, TypeOK, PCs, memoryVars, storeVars
<1>4. CallState(c) /\ TypeOK BY DEF IInv
<1>5. /\ Kind(c)' = Kind(c) /\ Mod(c)' = Mod(c) /\ Key(c)' = Key(c) /\ pc'[c] = st
      /\ Partial(c)' = Partial(c) /\ IsTree(c)' = IsTree(c)
  BY <1>1, <1>2, <1>4 DEF Kind, Mod, Key, Partial, FromGitHub, Source, TypeOK, IsTree
<1>6. NoTree \in Partial(c) BY DEF Partial
<1>7. CallState(c)'
  BY <1>1, <1>2, <1>4, <1>5, <1>6
    DEF CallState, Flying, Fetching, AtRest, memoryVars, storeVars, TypeOK, IsTree
<1>8. QED BY <1>1, <1>2, <1>3, <1>7, LocalStep DEF IInv, TypeOK

\* The first call of a key takes the flight.
LEMMA LeadIInv == ASSUME IInv, NEW c \in Callers, Lead(c) PROVE IInv'
<1>. USE DEF Lead, Goto, memoryVars, storeVars
<1>1. CallState(c) /\ TypeOK /\ Key(c) \in Keys BY CallFacts DEF IInv
<1>2. TypeOK' BY <1>1 DEF TypeOK, PCs
<1>3. /\ Kind(c)' = Kind(c) /\ Mod(c)' = Mod(c) /\ Key(c)' = Key(c)
      /\ pc'[c] = IF Kind(c) = "zip" THEN "recheck" ELSE "slurp"
      /\ flight'[Key(c)] = c
  BY <1>1 DEF Kind, Mod, Key, TypeOK
<1>4. Kind(c) # "tsgo" /\ hand[c] = NoTree BY <1>1 DEF CallState
<1>5. Partial(c)' = Partial(c) /\ NoTree \in Partial(c)
  BY <1>1 DEF Partial, FromGitHub, Source, Kind, Mod
<1>6. CallState(c)'
  BY <1>1, <1>3, <1>4, <1>5 DEF CallState, Flying, Fetching, AtRest
<1>7. QED BY <1>1, <1>2, <1>6, LocalStep DEF IInv, TypeOK

\* The store has the root.
LEMMA RootHitIInv == ASSUME IInv, NEW c \in Callers, RootHit(c) PROVE IInv'
<1>. USE DEF RootHit, Goto, memoryVars, storeVars
<1>1. CallState(c) /\ TypeOK /\ Mod(c) \in Mods BY CallFacts DEF IInv
<1>2. TypeOK' BY <1>1 DEF TypeOK, PCs
<1>3. /\ Kind(c)' = Kind(c) /\ Mod(c)' = Mod(c) /\ Key(c)' = Key(c) /\ IsTree(c)' = IsTree(c)
      /\ pc'[c] = "publish" /\ hand'[c] = treeRef[Mod(c)]
  BY <1>1 DEF Kind, Mod, Key, TypeOK, IsTree
<1>4. ~readOnly => treeRef[Mod(c)].zip # Stale
  BY <1>1 DEF NeedsGoMods, IInv, StoreState
<1>5. CallState(c)'
  BY <1>1, <1>3, <1>4 DEF CallState, Flying, Fetching, AtRest
<1>6. QED BY <1>1, <1>2, <1>5, LocalStep DEF IInv, TypeOK

\* A metadata file is found in the store.
LEMMA MetaHitIInv ==
  ASSUME IInv, NEW c \in Callers, TreeInfoHit(c) \/ RefHit(c) PROVE IInv'
<1>1. CallState(c) /\ TypeOK /\ Mod(c) \in Mods BY CallFacts DEF IInv
<1>2. Kind(c) \in {"mod", "info"} BY <1>1 DEF CallState, TreeInfoHit, RefHit
<1>3. CASE TreeInfoHit(c)
  <2>1. treeRef[Mod(c)] # NoTree BY <1>3, TreeFacts DEF TreeInfoHit
  <2>2. Stored(Key(c)) BY <1>1, <1>2, <2>1 DEF Stored, Found, CachedModules, Key
  <2>3. [NoTree EXCEPT !.info = treeRef[Mod(c)].info] \in Trees
    BY <1>1 DEF TypeOK, Trees, NoTree
  <2>4. QED BY <1>3, <2>2, <2>3, ReturnStep DEF TreeInfoHit
<1>4. CASE RefHit(c)
  <2>1. Stored(Key(c)) BY <1>1, <1>2, <1>4 DEF RefHit, MetaRef, Stored, Found, CachedModules, Key
  <2>2. MetaRef(c) \in Sources \cup {NoSrc} BY <1>1 DEF MetaRef, TypeOK
  <2>3. [NoTree EXCEPT ![Kind(c)] = MetaRef(c)] \in Trees
    <3>1. CASE Kind(c) = "mod" BY <2>2, <3>1 DEF Trees, NoTree
    <3>2. CASE Kind(c) = "info" BY <2>2, <3>2 DEF Trees, NoTree
    <3>3. QED BY <1>2, <3>1, <3>2
  <2>4. QED BY <1>4, <2>1, <2>3, ReturnStep DEF RefHit
<1>5. QED BY <1>3, <1>4

\* The next file that is wanted: the one after those in hand.
LEMMA NextWantedFacts ==
  ASSUME TypeOK, NEW c \in Callers, hand[c] \in Partial(c), Kind(c) = "tsgo" => Mod(c) \in TSGo
  PROVE  \/ /\ Kind(c) # "zip" \/ FromGitHub(c)
            /\ Len(Wanted(c)) = 1 /\ NextWanted(c) = 1
            /\ Wanted(c)[1] = IF FromGitHub(c) THEN "zip" ELSE Kind(c)
         \/ /\ Kind(c) = "zip" /\ ~FromGitHub(c)
            /\ Wanted(c) = <<"zip", "info", "mod">> /\ Len(Wanted(c)) = 3
            /\ NextWanted(c) = IF hand[c].zip = NoSrc THEN 1 ELSE IF hand[c].info = NoSrc THEN 2 ELSE 3
<1>. DEFINE P(i) == /\ hand[c][Wanted(c)[i]] = NoSrc
                    /\ \A j \in 1..(i - 1) : hand[c][Wanted(c)[j]] # NoSrc
<1>1. CASE Kind(c) # "zip" \/ FromGitHub(c)
  <2>1. hand[c] = NoTree BY <1>1 DEF Partial
  <2>2. /\ Len(Wanted(c)) = 1
        /\ Wanted(c)[1] = IF FromGitHub(c) THEN "zip" ELSE Kind(c)
    BY <1>1 DEF Wanted
  <2>3. Wanted(c)[1] \in {"zip", "info", "mod"}
    BY <2>2, CallFacts DEF FromGitHub, AllKinds
  <2>4. P(1) BY <2>1, <2>3 DEF NoTree
  <2>5. \A i \in 1..1 : P(i) <=> i = 1 BY <2>4
  <2>6. NextWanted(c) = 1 BY <2>2, <2>5 DEF NextWanted
  <2>7. QED BY <1>1, <2>2, <2>6
<1>2. CASE Kind(c) = "zip" /\ ~FromGitHub(c)
  <2>1. Wanted(c) = <<"zip", "info", "mod">> BY <1>2 DEF Wanted
  <2>2. /\ Len(Wanted(c)) = 3 /\ Wanted(c)[1] = "zip"
        /\ Wanted(c)[2] = "info" /\ Wanted(c)[3] = "mod"
    BY <2>1
  <2>3. Source(c) # NoSrc BY TreeFacts, CompleteFacts
  <2>4. hand[c].mod = NoSrc /\ (hand[c].zip = NoSrc => hand[c].info = NoSrc)
    BY <1>2, <2>3 DEF Partial, NoTree
  <2>. DEFINE n == IF hand[c].zip = NoSrc THEN 1 ELSE IF hand[c].info = NoSrc THEN 2 ELSE 3
  <2>5. n \in 1..3 /\ \A i \in 1..3 : P(i) <=> i = n
    BY <2>2, <2>4
  <2>6. NextWanted(c) = n BY <2>2, <2>5 DEF NextWanted
  <2>7. QED BY <1>2, <2>1, <2>2, <2>6
<1>3. QED BY <1>1, <1>2

\* A download adds the next file to those in hand; the last one completes them.
LEMMA SlurpOKIInv == ASSUME IInv, NEW c \in Callers, SlurpOK(c) PROVE IInv'
<1>. USE DEF SlurpOK, Goto, memoryVars, storeVars
<1>. DEFINE i == NextWanted(c)
<1>1. CallState(c) /\ TypeOK /\ Mod(c) \in Mods /\ Kind(c) \in AllKinds BY CallFacts DEF IInv
<1>2. Kind(c) = "tsgo" => Mod(c) \in TSGo BY <1>1 DEF CallState, AtRest
<1>3. hand[c] \in Partial(c) BY <1>1 DEF CallState
<1>4. Source(c) \in Sources /\ Source(c) # NoSrc BY <1>1, <1>2, CompleteFacts, TreeFacts
<1>5. /\ Kind(c)' = Kind(c) /\ Mod(c)' = Mod(c) /\ Key(c)' = Key(c) /\ IsTree(c)' = IsTree(c)
      /\ Complete(c)' = Complete(c) /\ Partial(c)' = Partial(c)
  BY DEF Kind, Mod, Key, IsTree, Complete, Partial, FromGitHub, Source
<1>6. \/ pc'[c] = "slurp" /\ hand'[c] \in Partial(c)
      \/ pc'[c] = "put" /\ hand'[c] = Complete(c)
  <2>1. CASE Kind(c) # "zip" \/ FromGitHub(c)
    <3>1. /\ Len(Wanted(c)) = 1 /\ i = 1
          /\ Wanted(c)[1] = IF FromGitHub(c) THEN "zip" ELSE Kind(c)
      BY <1>1, <1>2, <1>3, <2>1, NextWantedFacts
    <3>2. hand[c] = NoTree BY <1>3, <2>1 DEF Partial
    <3>3. pc'[c] = "put" BY <1>1, <3>1 DEF TypeOK
    <3>4. hand'[c] = [NoTree EXCEPT ![Wanted(c)[1]] = Source(c)]
      BY <1>1, <3>1, <3>2 DEF TypeOK
    <3>5. CASE FromGitHub(c)
      BY <3>1, <3>3, <3>4, <3>5 DEF Complete, TSTree, Source
    <3>6. CASE ~FromGitHub(c)
      BY <2>1, <3>1, <3>3, <3>4, <3>6 DEF Complete
    <3>7. QED BY <3>5, <3>6
  <2>2. CASE Kind(c) = "zip" /\ ~FromGitHub(c)
    <3>1. /\ Wanted(c) = <<"zip", "info", "mod">> /\ Len(Wanted(c)) = 3
          /\ i = IF hand[c].zip = NoSrc THEN 1 ELSE IF hand[c].info = NoSrc THEN 2 ELSE 3
      BY <1>1, <1>2, <1>3, <2>2, NextWantedFacts
    <3>w. Wanted(c)[1] = "zip" /\ Wanted(c)[2] = "info" /\ Wanted(c)[3] = "mod" BY <3>1
    <3>2. CASE hand[c] = NoTree
      <4>1. i = 1 BY <3>1, <3>2 DEF NoTree
      <4>2. pc'[c] = "slurp" BY <1>1, <3>1, <4>1 DEF TypeOK
      <4>3. hand'[c] = [NoTree EXCEPT !["zip"] = Source(c)] BY <1>1, <3>w, <3>2, <4>1 DEF TypeOK
      <4>4. hand'[c] = [zip |-> Source(c), info |-> NoSrc, mod |-> NoSrc] BY <4>3 DEF NoTree
      <4>5. QED BY <2>2, <4>2, <4>4 DEF Partial
    <3>3. CASE hand[c] = [zip |-> Source(c), info |-> NoSrc, mod |-> NoSrc]
      <4>1. i = 2 BY <1>4, <3>1, <3>3 DEF NoTree
      <4>2. pc'[c] = "slurp" BY <1>1, <3>1, <4>1 DEF TypeOK
      <4>3. hand'[c] = [hand[c] EXCEPT !["info"] = Source(c)] BY <1>1, <3>w, <4>1 DEF TypeOK
      <4>4. hand'[c] = [zip |-> Source(c), info |-> Source(c), mod |-> NoSrc] BY <3>3, <4>3
      <4>5. QED BY <2>2, <4>2, <4>4 DEF Partial
    <3>4. CASE hand[c] = [zip |-> Source(c), info |-> Source(c), mod |-> NoSrc]
      <4>1. i = 3 BY <1>4, <3>1, <3>4 DEF NoTree
      <4>2. pc'[c] = "put" BY <1>1, <3>1, <4>1 DEF TypeOK
      <4>3. hand'[c] = [hand[c] EXCEPT !["mod"] = Source(c)] BY <1>1, <3>w, <4>1 DEF TypeOK
      <4>4. hand'[c] = TreeFrom(Source(c)) BY <3>4, <4>3 DEF TreeFrom
      <4>5. QED BY <2>2, <4>2, <4>4 DEF Complete
    <3>5. QED BY <1>3, <2>2, <3>2, <3>3, <3>4 DEF Partial
  <2>3. QED BY <2>1, <2>2
<1>7. hand'[c] \in Trees BY <1>1, <1>2, <1>6, CompleteFacts
<1>8. /\ hand' \in [Callers -> Trees]
      /\ \A d \in Callers \ {c} : hand'[d] = hand[d] /\ pc'[d] = pc[d]
  BY <1>1, <1>7 DEF TypeOK
<1>9. TypeOK' BY <1>1, <1>6, <1>8 DEF TypeOK, PCs
<1>10. CallState(c)'
  BY <1>1, <1>5, <1>6 DEF CallState, Flying, Fetching, AtRest
<1>11. QED BY <1>8, <1>9, <1>10, LocalStep

\* A failed download drops what is in hand and turns to the next proxy.
LEMMA SlurpNextProxyIInv == ASSUME IInv, NEW c \in Callers, SlurpNextProxy(c) PROVE IInv'
<1>. USE DEF SlurpNextProxy, memoryVars, storeVars
<1>1. CallState(c) /\ TypeOK BY DEF IInv
<1>2. TypeOK'
  <2>1. proxy[c] + 1 \in 1..Len(Proxies) BY <1>1, ModuleFetchAssumption DEF TypeOK
  <2>2. QED BY <1>1, <2>1, TreeFacts DEF TypeOK
<1>3. /\ Kind(c)' = Kind(c) /\ Mod(c)' = Mod(c) /\ Key(c)' = Key(c) /\ IsTree(c)' = IsTree(c)
      /\ hand'[c] = NoTree
  BY <1>1 DEF Kind, Mod, Key, IsTree, TypeOK
<1>4. NoTree \in Partial(c)' BY DEF Partial
<1>5. CallState(c)'
  BY <1>1, <1>3, <1>4 DEF CallState, Flying, Fetching, AtRest
<1>6. QED BY <1>1, <1>2, <1>5, LocalStep DEF TypeOK

\* The steps of a call that only fail.
LEMMA FailsIInv ==
  ASSUME IInv, NEW c \in Callers,
         \/ RootMissReadOnly(c) \/ RootError(c) \/ RefMissReadOnly(c) \/ RefError(c)
         \/ SlurpGivesUp(c) \/ BadArchive(c) \/ UpdateRefFails(c) \/ LsTreeFails(c)
         \/ PutMetaFails(c)
  PROVE  IInv'
BY FailStep DEF RootMissReadOnly, RootError, RefMissReadOnly, RefError, SlurpGivesUp,
  BadArchive, UpdateRefFails, LsTreeFails, PutMetaFails

\* The objects of the downloaded tree are stored.
LEMMA SendToGitIInv == ASSUME IInv, NEW c \in Callers, SendToGit(c) PROVE IInv'
<1>. USE DEF SendToGit, Goto, memoryVars
<1>1. CallState(c) /\ TypeOK /\ Mod(c) \in Mods /\ Kind(c) \in {"zip", "tsgo"}
  BY CallFacts DEF IInv, IsTree
<1>2. Kind(c) = "tsgo" => Mod(c) \in TSGo BY <1>1 DEF CallState, AtRest
<1>3. hand[c] = Complete(c) /\ hand[c] \in Trees BY <1>1 DEF CallState, TypeOK
<1>4. TypeOK' BY <1>1, <1>3 DEF TypeOK, PCs
<1>5. /\ \A h : Stored(h) => Stored(h)'
      /\ \A d \in Callers : Stored(Key(d)) => Stored(Key(d))'
  BY DEF Stored, Found, CachedModules, Key, Kind, Mod
<1>6. ASSUME NEW d \in Callers PROVE CallState(d)'
  <2>1. CASE d = c
    <3>1. /\ Kind(c)' = Kind(c) /\ Mod(c)' = Mod(c) /\ Key(c)' = Key(c) /\ IsTree(c)' = IsTree(c)
          /\ Complete(c)' = Complete(c)
      BY DEF Kind, Mod, Key, IsTree, Complete, FromGitHub, Source
    <3>2. pc'[c] = "update-ref" BY <1>1 DEF TypeOK
    <3>3. QED BY <1>1, <1>3, <2>1, <3>1, <3>2 DEF CallState, Flying, Fetching, AtRest
  <2>2. CASE d # c
    <3>1. CallState(d) /\ pc'[d] = pc[d] BY <1>1, <2>2 DEF IInv, TypeOK
    <3>2. Flying(d) => flight'[Key(d)] = d BY <3>1 DEF CallState
    <3>3. pc[d] \in Fetching /\ Kind(d) = "zip" => zipRootCache'[Mod(d)] = NoTree
      BY <3>1 DEF CallState
    <3>4. QED BY <1>5, <3>1, <3>2, <3>3, OtherCall
  <2>3. QED BY <2>1, <2>2
<1>7. \A m \in Mods : objects'[m] = IF m = Mod(c) THEN objects[m] \cup {hand[c]} ELSE objects[m]
  <2>1. objects' = [objects EXCEPT ![Mod(c)] = objects[Mod(c)] \cup {hand[c]}] OBVIOUS
  <2>2. DOMAIN objects = Mods BY <1>1 DEF TypeOK
  <2>3. QED BY <2>1, <2>2
<1>8. StoreState' /\ RootsAreStored' BY <1>7 DEF IInv, StoreState, RootsAreStored
<1>9. OneProxyPerTree'
  <2>1. Mod(c) \notin TSGo => hand[c] = TreeFrom(hand[c].zip)
    BY <1>1, <1>2, <1>3, CompleteFacts
  <2>2. QED BY <1>7, <2>1 DEF IInv, OneProxyPerTree
<1>10. ToolchainsHaveGoMods' BY DEF IInv, ToolchainsHaveGoMods
<1>11. HandleState' BY <1>5 DEF IInv, HandleState
<1>12. QED BY <1>4, <1>6, <1>8, <1>9, <1>10, <1>11 DEF IInv

\* The objects are not stored, or are found to be: PutModule goes on.
LEMMA PutGoesOnIInv ==
  ASSUME IInv, NEW c \in Callers, SendToGitFails(c) \/ LsTree(c) PROVE IInv'
<1>. USE DEF SendToGitFails, LsTree, Goto, memoryVars, storeVars
<1>1. CallState(c) /\ TypeOK BY DEF IInv
<1>2. TypeOK' BY <1>1 DEF TypeOK, PCs
<1>3. /\ Kind(c)' = Kind(c) /\ Mod(c)' = Mod(c) /\ Key(c)' = Key(c) /\ IsTree(c)' = IsTree(c)
      /\ Complete(c)' = Complete(c)
  BY DEF Kind, Mod, Key, IsTree, Complete, FromGitHub, Source
<1>4. \/ pc[c] = "put" /\ IsTree(c) /\ pc'[c] = "update-ref"
      \/ pc[c] = "ls-tree" /\ pc'[c] = "publish"
  BY <1>1 DEF TypeOK
<1>5. CallState(c)' BY <1>1, <1>3, <1>4 DEF CallState, Flying, Fetching, AtRest
<1>6. QED BY <1>1, <1>2, <1>5, LocalStep DEF TypeOK

\* Two calls that run flights for the same module version's tree are one, except that
\* those for a tsgo version may be several.
LEMMA OneFetcher ==
  ASSUME IInv, NEW c \in Callers, NEW d \in Callers, Mod(c) = Mod(d),
         pc[c] \in Fetching, pc[d] \in Fetching, IsTree(c), IsTree(d),
         Mod(c) \notin TSGo
  PROVE  c = d
<1>1. CallState(c) /\ CallState(d) BY DEF IInv
<1>2. Kind(c) = "zip" /\ Kind(d) = "zip"
  BY <1>1 DEF CallState, IsTree, Fetching, AtRest
<1>3. flight[Key(c)] = c /\ flight[Key(d)] = d BY <1>1, <1>2 DEF CallState, Flying
<1>4. QED BY <1>2, <1>3 DEF Key

\* The ref of the tree is set: no cached root is replaced, and no call that holds the
\* tree of the ref before.
LEMMA UpdateRefIInv == ASSUME IInv, NEW c \in Callers, UpdateRef(c) PROVE IInv'
<1>. USE DEF UpdateRef, Goto, memoryVars
<1>. DEFINE m0 == Mod(c)
<1>1. CallState(c) /\ TypeOK /\ m0 \in Mods BY CallFacts DEF IInv
<1>2. IsTree(c) /\ (Kind(c) = "tsgo" => m0 \in TSGo) BY <1>1 DEF CallState, AtRest
<1>3. /\ hand[c] = Complete(c) /\ hand[c] \in Trees /\ hand[c] # NoTree /\ hand[c].zip # Stale
      /\ m0 \in TSGo => hand[c] = TSTree
  BY <1>1, <1>2, CompleteFacts DEF CallState, TypeOK
<1>4. TypeOK' BY <1>1, <1>3 DEF TypeOK, PCs
<1>5. /\ treeRef'[m0] = hand[c]
      /\ \A m \in Mods : m # m0 => treeRef'[m] = treeRef[m]
  BY <1>1 DEF TypeOK
<1>6. \A h \in Keys \cup Handles : Stored(h) => Stored(h)'
  BY <1>3, <1>5 DEF Stored, Found, CachedModules, Keys, Handles
<1>7. treeRef'[m0] = treeRef[m0] \/ treeRef[m0] = NoTree \/ m0 \notin TSGo
  BY <1>1, <1>3, <1>5 DEF IInv, StoreState
<1>8. ASSUME NEW d \in Callers PROVE CallState(d)'
  <2>1. CASE d = c
    <3>1. /\ Kind(c)' = Kind(c) /\ Mod(c)' = Mod(c) /\ Key(c)' = Key(c) /\ IsTree(c)' = IsTree(c)
      BY DEF Kind, Mod, Key, IsTree
    <3>2. pc'[c] = "ls-tree" BY <1>1 DEF TypeOK
    <3>3. QED BY <1>1, <1>2, <1>3, <1>5, <2>1, <3>1, <3>2 DEF CallState, Flying, Fetching, AtRest
  <2>2. CASE d # c
    <3>1. /\ CallState(d) /\ pc'[d] = pc[d] /\ Mod(d) \in Mods /\ Key(d) \in Keys
          /\ Key(d)' = Key(d)
      BY <1>1, <2>2, CallFacts DEF IInv, TypeOK, Key, Kind, Mod
    <3>2. Flying(d) => flight'[Key(d)] = d BY <3>1 DEF CallState
    <3>3. pc[d] \in Fetching /\ Kind(d) = "zip" => zipRootCache'[Mod(d)] = NoTree
      BY <3>1 DEF CallState
    <3>4. pc[d] \in {"ls-tree", "publish"} => treeRef'[Mod(d)] = treeRef[Mod(d)]
      <4>1. SUFFICES ASSUME pc[d] \in {"ls-tree", "publish"}, Mod(d) = m0
                     PROVE  treeRef'[m0] = treeRef[m0]
        BY <1>5, <3>1
      <4>2. IsTree(d) /\ treeRef[m0] # NoTree BY <3>1, <4>1 DEF CallState
      <4>3. m0 \in TSGo BY <1>2, <2>2, <4>1, <4>2, OneFetcher DEF Fetching
      <4>4. QED BY <1>7, <4>2, <4>3
    <3>5. Stored(Key(d)) => Stored(Key(d))'
      BY <1>6, <3>1 DEF Stored, Found, CachedModules
    <3>6. QED BY <3>1, <3>2, <3>3, <3>4, <3>5, OtherCall
  <2>3. QED BY <2>1, <2>2
<1>9. StoreState'
  <2>1. \A m \in Mods : treeRef'[m] # NoTree => treeRef'[m] \in objects'[m]
    BY <1>5 DEF IInv, StoreState
  <2>2. \A m \in Mods : treeRef'[m].zip = Stale => m \in Toolchains
    BY <1>3, <1>5 DEF IInv, StoreState
  <2>3. \A m \in TSGo : treeRef'[m] \in {NoTree, TSTree}
    BY <1>3, <1>5, ModuleFetchAssumption DEF IInv, StoreState
  <2>4. QED BY <2>1, <2>2, <2>3 DEF StoreState
<1>10. RootsAreStored'
  <2>1. zipRootCache[m0] # NoTree => zipRootCache[m0] = treeRef'[m0]
    <3>1. CASE Kind(c) = "zip" BY <1>1, <3>1 DEF CallState, Fetching
    <3>2. CASE m0 \in TSGo BY <1>1, <1>7, <3>2 DEF IInv, RootsAreStored
    <3>3. QED BY <1>2, <3>1, <3>2 DEF IsTree
  <2>2. QED BY <1>5, <2>1 DEF IInv, RootsAreStored
<1>11. OneProxyPerTree' /\ ToolchainsHaveGoMods'
  BY DEF IInv, OneProxyPerTree, ToolchainsHaveGoMods
<1>12. HandleState'
  <2>1. \A g \in handed : g[1] \in Handles BY <1>1 DEF TypeOK
  <2>2. QED BY <1>6, <2>1 DEF IInv, HandleState
<1>13. QED BY <1>4, <1>8, <1>9, <1>10, <1>11, <1>12 DEF IInv

\* A lone mod or info file is stored and returned.
LEMMA PutMetaIInv == ASSUME IInv, NEW c \in Callers, PutMeta(c) PROVE IInv'
<1>. USE DEF PutMeta, memoryVars
<1>1. CallState(c) /\ TypeOK /\ Mod(c) \in Mods /\ Kind(c) \in {"mod", "info"}
  BY CallFacts DEF IInv, IsTree, AllKinds
<1>2. /\ hand[c] \in Trees
      /\ Kind(c) = "mod" => hand[c].mod # NoSrc
      /\ Kind(c) = "info" => hand[c].info # NoSrc
  BY <1>1, CompleteFacts DEF CallState, TypeOK
<1>3. Return(c, "done", hand[c]) OBVIOUS
<1>4. TypeOK'
  <2>1. hand[c].mod \in Sources \cup {NoSrc} /\ hand[c].info \in Sources \cup {NoSrc}
    BY <1>2 DEF Trees
  <2>2. modRef' \in [Mods -> Sources \cup {NoSrc}] /\ infoRef' \in [Mods -> Sources \cup {NoSrc}]
    BY <1>1, <2>1 DEF TypeOK
  <2>3. /\ pc' \in [Callers -> PCs] /\ call' \in [Callers -> [kind : Kinds, mod : Mods]]
        /\ proxy' \in [Callers -> 1..Len(Proxies)] /\ hand' \in [Callers -> Trees]
        /\ flight' \in [Keys -> Callers \cup {NoCaller}]
    BY <1>1, <1>2, <1>3, ReturnType
  <2>4. QED BY <1>1, <2>2, <2>3 DEF TypeOK
<1>5. /\ \A m \in Mods : modRef[m] # NoSrc => modRef'[m] # NoSrc
      /\ \A m \in Mods : infoRef[m] # NoSrc => infoRef'[m] # NoSrc
      /\ modRef'[Mod(c)] # NoSrc \/ infoRef'[Mod(c)] # NoSrc
  BY <1>1, <1>2 DEF TypeOK
<1>6. \A h \in Keys \cup Handles : Stored(h) => Stored(h)'
  BY <1>5 DEF Stored, Found, CachedModules
<1>7. Stored(Key(c))'
  <2>1. Key(c)' = Key(c) BY <1>3 DEF Return, Key, Kind, Mod
  <2>2. Key(c)[1] = Kind(c) /\ Key(c)[2] = Mod(c) BY <1>1, CallFacts
  <2>3. QED BY <1>1, <1>5, <2>1, <2>2 DEF Stored, Found, CachedModules
<1>8. \A d \in Callers \ {c} :
        pc[d] \in Fetching /\ Kind(d) = "zip" => zipRootCache'[Mod(d)] = NoTree
  BY DEF IInv, CallState
<1>9. \A d \in Callers : CallState(d)'
  BY <1>2, <1>3, <1>6, <1>7, <1>8, ReturnedCalls
<1>10. StoreState' /\ OneProxyPerTree' /\ RootsAreStored' /\ ToolchainsHaveGoMods'
  BY DEF IInv, StoreState, OneProxyPerTree, RootsAreStored, ToolchainsHaveGoMods
<1>11. HandleState'
  <2>1. \A g \in handed : g[1] \in Handles BY <1>1 DEF TypeOK
  <2>2. QED BY <1>6, <2>1 DEF IInv, HandleState
<1>12. QED BY <1>4, <1>9, <1>10, <1>11 DEF IInv

\* The root is cached and returned: no other call is fetching it.
LEMMA PublishIInv == ASSUME IInv, NEW c \in Callers, Publish(c) PROVE IInv'
<1>. USE DEF Publish, storeVars
<1>. DEFINE m0 == Mod(c)
<1>1. CallState(c) /\ TypeOK /\ m0 \in Mods /\ Key(c) \in Keys BY CallFacts DEF IInv
<1>2. /\ hand[c] \in Trees /\ hand[c] = treeRef[m0] /\ hand[c] # NoTree
      /\ ~readOnly => hand[c].zip # Stale
      /\ flight[Key(c)] = c
  BY <1>1 DEF CallState, TypeOK, Flying, Fetching
<1>3. Return(c, "done", hand[c]) OBVIOUS
<1>4. /\ zipRootCache'[m0] = hand[c]
      /\ \A m \in Mods : m # m0 => zipRootCache'[m] = zipRootCache[m]
  BY <1>1 DEF TypeOK
<1>5. TypeOK'
  <2>1. /\ pc' \in [Callers -> PCs] /\ call' \in [Callers -> [kind : Kinds, mod : Mods]]
        /\ proxy' \in [Callers -> 1..Len(Proxies)] /\ hand' \in [Callers -> Trees]
        /\ flight' \in [Keys -> Callers \cup {NoCaller}]
    BY <1>1, <1>2, <1>3, ReturnType
  <2>2. zipRootCache' \in [Mods -> Trees] /\ modVerHash' \subseteq Mods
    BY <1>1, <1>2 DEF TypeOK
  <2>3. QED BY <1>1, <2>1, <2>2 DEF TypeOK
<1>6. \A h \in Keys \cup Handles : Stored(h) => Stored(h)' BY DEF Stored, Found, CachedModules
<1>7. Stored(Key(c))'
  <2>1. Key(c)' = Key(c) BY <1>3 DEF Return, Key, Kind, Mod
  <2>2. Key(c)[2] = Mod(c) BY <1>1, CallFacts
  <2>3. QED BY <1>1, <1>2, <2>1, <2>2 DEF Stored, Found, CachedModules
<1>8. ASSUME NEW d \in Callers \ {c}, pc[d] \in Fetching, Kind(d) = "zip"
      PROVE  zipRootCache'[Mod(d)] = NoTree
  <2>1. CallState(d) /\ Mod(d) \in Mods BY <1>1, CallFacts DEF IInv
  <2>2. flight[Key(d)] = d /\ zipRootCache[Mod(d)] = NoTree
    BY <1>8, <2>1 DEF CallState, Flying
  <2>3. Mod(d) # m0 BY <1>2, <1>8, <2>2 DEF Key
  <2>4. QED BY <1>4, <2>1, <2>2, <2>3
<1>9. \A d \in Callers : CallState(d)'
  BY <1>2, <1>3, <1>6, <1>7, <1>8, ReturnedCalls
<1>10. StoreState' /\ OneProxyPerTree' BY DEF IInv, StoreState, OneProxyPerTree
<1>11. RootsAreStored'
  BY <1>1, <1>2, <1>4 DEF IInv, RootsAreStored, StoreState
<1>12. ToolchainsHaveGoMods' BY <1>2, <1>4 DEF IInv, ToolchainsHaveGoMods
<1>13. HandleState'
  <2>1. \A g \in handed : g[1] \in Handles BY <1>1 DEF TypeOK
  <2>2. QED BY <1>4, <1>6, <2>1 DEF IInv, HandleState
<1>14. QED BY <1>5, <1>9, <1>10, <1>11, <1>12, <1>13 DEF IInv

\* The root of a tsgo version is returned.
LEMMA ReturnTSGoIInv == ASSUME IInv, NEW c \in Callers, ReturnTSGo(c) PROVE IInv'
<1>1. hand[c] \in Trees BY DEF IInv, TypeOK
<1>2. QED BY <1>1, ReturnStep DEF ReturnTSGo

-----------------------------------------------------------------------------
(* Handles and restarts *)

\* A handle is issued for a file that is stored.
LEMMA ToHandleIInv == ASSUME IInv, NEW c \in Callers, ToHandle(c) PROVE IInv'
<1>. USE DEF ToHandle, Hand, storeVars
<1>1. CallState(c) /\ TypeOK /\ Key(c) \in Handles
  BY CallFacts DEF IInv, Keys, Handles, FileKinds, AllKinds
<1>2. TypeOK' BY <1>1 DEF TypeOK, PCs, AtRest
<1>3. /\ \A h : Stored(h)' = Stored(h)
      /\ \A d \in Callers : Key(d)' = Key(d) /\ Stored(Key(d))' = Stored(Key(d))
  BY DEF Stored, Found, CachedModules, Key, Kind, Mod
<1>4. ASSUME NEW d \in Callers PROVE CallState(d)'
  <2>1. CASE d = c
    <3>1. pc'[c] = "idle" BY <1>1 DEF TypeOK
    <3>2. QED BY <2>1, <3>1 DEF CallState, Flying, Fetching, AtRest
  <2>2. CASE d # c
    <3>1. CallState(d) /\ pc'[d] = pc[d] BY <1>1, <2>2 DEF IInv, TypeOK
    <3>2. Flying(d) => flight'[Key(d)] = d BY <3>1 DEF CallState
    <3>3. pc[d] \in Fetching /\ Kind(d) = "zip" => zipRootCache'[Mod(d)] = NoTree
      BY <3>1 DEF CallState
    <3>4. QED BY <1>3, <3>1, <3>2, <3>3, OtherCall
  <2>3. QED BY <2>1, <2>2
<1>5. StoreState' /\ OneProxyPerTree' /\ RootsAreStored' /\ ToolchainsHaveGoMods'
  BY DEF IInv, StoreState, OneProxyPerTree, RootsAreStored, ToolchainsHaveGoMods
<1>6. HandleState'
  <2>1. Stored(Key(c)) BY <1>1 DEF CallState
  <2>2. QED BY <1>3, <2>1 DEF IInv, HandleState
<1>7. QED BY <1>2, <1>4, <1>5, <1>6 DEF IInv

\* Steps of the handle maps leave the calls alone.
LEMMA CallsKept ==
  ASSUME IInv, UNCHANGED <<callVars, readOnly, zipRootCache, storeVars>>
  PROVE  /\ \A d \in Callers : CallState(d)'
         /\ StoreState' /\ OneProxyPerTree' /\ RootsAreStored' /\ ToolchainsHaveGoMods'
         /\ \A h : Stored(h)' = Stored(h)
<1>. USE DEF callVars, storeVars
<1>1. /\ \A h : Stored(h)' = Stored(h)
      /\ \A d \in Callers : Stored(Key(d))' = Stored(Key(d))
  BY DEF Stored, Found, CachedModules, Key, Kind, Mod
<1>2. ASSUME NEW d \in Callers PROVE CallState(d)'
  <2>1. CallState(d) BY DEF IInv
  <2>2. Flying(d) => flight'[Key(d)] = d BY <2>1 DEF CallState
  <2>3. pc[d] \in Fetching /\ Kind(d) = "zip" => zipRootCache'[Mod(d)] = NoTree
    BY <2>1 DEF CallState
  <2>4. QED BY <1>1, <2>1, <2>2, <2>3, OtherCall
<1>3. StoreState' /\ OneProxyPerTree' /\ RootsAreStored' /\ ToolchainsHaveGoMods'
  BY DEF IInv, StoreState, OneProxyPerTree, RootsAreStored, ToolchainsHaveGoMods
<1>4. QED BY <1>1, <1>2, <1>3

\* A handle is given out for a name: it is to last if there is something stored.
LEMMA UnfetchedIInv ==
  ASSUME IInv, NEW k \in Nameable, NEW m \in Mods, ToHandleUnfetched(k, m)
  PROVE  IInv'
<1>. USE DEF ToHandleUnfetched, Hand
<1>1. k \in {"dir", "extracted"} /\ <<k, m>> \in Handles
  BY ModuleFetchAssumption DEF Handles
<1>2. TypeOK'
  <2>1. handle' \subseteq Handles /\ handed' \subseteq Handles \X {"stored", "absent"}
    <3>1. PICK st \in {"stored", "absent"} : handed' = handed \cup {<<<<k, m>>, st>>} OBVIOUS
    <3>. DEFINE h == <<k, m>>
    <3>2. h \in Handles /\ handle' = handle \cup {h} /\ handed' = handed \cup {<<h, st>>}
      BY <1>1, <3>1
    <3>. HIDE DEF h
    <3>3. <<h, st>> \in Handles \X {"stored", "absent"} BY <3>1, <3>2
    <3>4. handle \subseteq Handles /\ handed \subseteq Handles \X {"stored", "absent"}
      BY DEF IInv, TypeOK
    <3>5. QED BY ONLY <3>2, <3>3, <3>4
  <2>2. QED BY <2>1 DEF IInv, TypeOK, callVars, storeVars
<1>3. /\ \A d \in Callers : CallState(d)'
      /\ StoreState' /\ OneProxyPerTree' /\ RootsAreStored' /\ ToolchainsHaveGoMods'
      /\ \A h : Stored(h)' = Stored(h)
  BY CallsKept
<1>4. ASSUME NEW g \in handed' \ handed, Lasting(g) PROVE g[1] \in handle' /\ Stored(g[1])
  <2>1. g[1] = <<k, m>> /\ (g[2] = "stored" => m \in CachedModules) BY <1>4
  <2>2. m \in CachedModules BY <1>1, <1>4, <2>1 DEF Lasting, FileKinds
  <2>3. QED BY <1>1, <2>1, <2>2 DEF Stored, Found
<1>5. HandleState' BY <1>3, <1>4 DEF IInv, HandleState
<1>6. QED BY <1>2, <1>3, <1>5 DEF IInv

\* The maps are made of what is stored: every handle that was issued is known then.
LEMMA InitHandleMapsIInv == ASSUME IInv, InitHandleMaps PROVE IInv'
<1>. USE DEF InitHandleMaps
<1>1. TypeOK' BY DEF IInv, TypeOK, CachedModules, callVars, storeVars
<1>2. /\ \A d \in Callers : CallState(d)'
      /\ StoreState' /\ OneProxyPerTree' /\ RootsAreStored' /\ ToolchainsHaveGoMods'
      /\ \A h : Stored(h)' = Stored(h)
  BY CallsKept
<1>3. \A g \in handed : Lasting(g) => g[1][2] \in CachedModules
  BY DEF IInv, HandleState, Stored, Found
<1>4. \A m \in Mods : zipRootCache[m] # NoTree => m \in CachedModules
  BY DEF IInv, RootsAreStored, CachedModules
<1>5. HandleState' BY <1>2, <1>3, <1>4 DEF IInv, HandleState
<1>6. QED BY <1>1, <1>2, <1>5 DEF IInv

\* A handle is taken back to its file.
LEMMA FromHandleIInv == ASSUME IInv, NEW h \in Handles, FromHandle(h) PROVE IInv'
<1>. USE DEF FromHandle
<1>1. TypeOK' BY DEF IInv, TypeOK, callVars, storeVars
<1>2. /\ \A d \in Callers : CallState(d)'
      /\ StoreState' /\ OneProxyPerTree' /\ RootsAreStored' /\ ToolchainsHaveGoMods'
      /\ \A k : Stored(k)' = Stored(k)
  BY CallsKept
<1>3. HandleState' BY <1>2 DEF IInv, HandleState
<1>4. QED BY <1>1, <1>2, <1>3 DEF IInv

\* A restart loses what is in memory; the store and the clients' handles stay.
LEMMA RestartIInv == ASSUME IInv, Restart PROVE IInv'
<1>. USE DEF Restart, storeVars
<1>1. TypeOK'
  <2>1. 1 \in 1..Len(Proxies) BY ModuleFetchAssumption
  <2>2. QED BY <2>1, TreeFacts DEF IInv, TypeOK, PCs, AtRest
<1>2. \A d \in Callers : CallState(d)'
  BY DEF CallState, Flying, Fetching, AtRest
<1>3. StoreState' /\ OneProxyPerTree' /\ RootsAreStored'
  BY DEF IInv, StoreState, OneProxyPerTree, RootsAreStored
<1>4. ToolchainsHaveGoMods' BY TreeFacts DEF ToolchainsHaveGoMods
<1>5. HandleState' BY DEF IInv, HandleState, Stored, Found, CachedModules
<1>6. QED BY <1>1, <1>2, <1>3, <1>4, <1>5 DEF IInv

-----------------------------------------------------------------------------
(* The theorems *)

\* A server that starts satisfies the invariant, on a store of an earlier version too.
LEMMA InitIInv == ASSUME Init PROVE IInv
<1>. USE DEF Init
<1>1. TreeFrom(Stale) \in Trees /\ TreeFrom(Stale) # NoTree /\ TreeFrom(Stale).zip = Stale
  BY TreeFacts
<1>2. TypeOK
  <2>1. 1 \in 1..Len(Proxies) BY ModuleFetchAssumption
  <2>2. objects \in [Mods -> SUBSET Trees] BY <1>1
  <2>3. treeRef \in [Mods -> Trees] BY <1>1, TreeFacts
  <2>4. QED BY <2>1, <2>2, <2>3, TreeFacts DEF TypeOK, PCs, AtRest
<1>3. \A d \in Callers : CallState(d) BY DEF CallState, Flying, Fetching, AtRest
<1>4. StoreState BY <1>1, ModuleFetchAssumption, TreeFacts DEF StoreState
<1>5. OneProxyPerTree
  <2>1. \A m \in Mods : \A t \in objects[m] : t = TreeFrom(Stale) OBVIOUS
  <2>2. QED BY <1>1, <2>1 DEF OneProxyPerTree
<1>6. RootsAreStored /\ ToolchainsHaveGoMods
  BY TreeFacts DEF RootsAreStored, ToolchainsHaveGoMods
<1>7. HandleState BY DEF HandleState
<1>8. QED BY <1>2, <1>3, <1>4, <1>5, <1>6, <1>7 DEF IInv

\* Every step keeps the invariant.
LEMMA NextIInv == ASSUME IInv, [Next]_vars PROVE IInv'
<1>1. ASSUME NEW c \in Callers, Start(c) PROVE IInv' BY <1>1, StartIInv
<1>2. ASSUME NEW c \in Callers, GetZipRoot(c) PROVE IInv'
  BY <1>2, CachedHitIInv, GotoIInv, RootHitIInv, FailsIInv, PublishIInv, ReturnTSGoIInv
    DEF GetZipRoot
<1>3. ASSUME NEW c \in Callers, GetMetaFile(c) PROVE IInv'
  BY <1>3, MetaHitIInv, GotoIInv, FailsIInv DEF GetMetaFile
<1>4. ASSUME NEW c \in Callers, Download(c) PROVE IInv'
  BY <1>4, LeadIInv, GotoIInv, SlurpOKIInv, SlurpNextProxyIInv, FailsIInv DEF Download
<1>5. ASSUME NEW c \in Callers, Put(c) PROVE IInv'
  BY <1>5, FailsIInv, SendToGitIInv, PutGoesOnIInv, UpdateRefIInv, PutMetaIInv DEF Put
<1>6. ASSUME NEW c \in Callers, ToHandle(c) PROVE IInv' BY <1>6, ToHandleIInv
<1>7. CASE InitHandleMaps BY <1>7, InitHandleMapsIInv
<1>8. ASSUME NEW g \in handed, FromHandle(g[1]) PROVE IInv'
  <2>1. g[1] \in Handles BY DEF IInv, TypeOK
  <2>2. QED BY <1>8, <2>1, FromHandleIInv
<1>9. CASE Restart BY <1>9, RestartIInv
<1>10. CASE UNCHANGED vars
  <2>1. UNCHANGED <<callVars, readOnly, zipRootCache, storeVars>>
    BY <1>10 DEF vars, callVars, storeVars
  <2>2. HandleState'
    BY <1>10, <2>1, CallsKept DEF IInv, HandleState, vars
  <2>3. TypeOK' BY <1>10 DEF IInv, TypeOK, vars
  <2>4. QED BY <2>1, <2>2, <2>3, CallsKept DEF IInv
<1>11. ASSUME NEW k \in Nameable, NEW m \in Mods, ToHandleUnfetched(k, m) PROVE IInv'
  BY <1>11, UnfetchedIInv
<1>12. QED
  BY <1>1, <1>2, <1>3, <1>4, <1>5, <1>6, <1>7, <1>8, <1>9, <1>10, <1>11 DEF Next, Step

\* The invariant holds in every reachable state.
THEOREM InvariantIInv == Spec => []IInv
BY InitIInv, NextIInv, PTL DEF Spec

\* Every variable keeps its type: every download is from a configured server.
THEOREM TypeCorrect == Spec => []TypeOK
<1>1. IInv => TypeOK BY DEF IInv
<1>2. QED BY <1>1, InvariantIInv, PTL

\* No tree that downloadZip stores mixes the files of two proxies, whichever downloads
\* failed in between.
THEOREM TreesAreOfOneProxy == Spec => []OneProxyPerTree
<1>1. IInv => OneProxyPerTree BY DEF IInv
<1>2. QED BY <1>1, InvariantIInv, PTL

\* A root in zipRootCache is the one under its ref, and its objects are stored.
THEOREM CachedRootsAreStored == Spec => []RootsAreStored
<1>1. IInv => RootsAreStored BY DEF IInv
<1>2. QED BY <1>1, InvariantIInv, PTL

\* The singleflight and the second look at the cache: a cached root is not fetched
\* again, and no two calls of getZipRoot fetch the same module version.
THEOREM NoRootFetchedTwice == Spec => []NoRedundantFetch
<1>1. IInv => NoRedundantFetch
  <2>1. SUFFICES ASSUME IInv, NEW c \in Callers, Kind(c) = "zip", pc[c] \in Fetching
                 PROVE  /\ zipRootCache[Mod(c)] = NoTree
                        /\ \A d \in Callers \ {c} : Key(d) = Key(c) => pc[d] \notin Fetching
    BY DEF NoRedundantFetch
  <2>2. zipRootCache[Mod(c)] = NoTree /\ flight[Key(c)] = c
    BY <2>1 DEF IInv, CallState, Flying
  <2>3. ASSUME NEW d \in Callers \ {c}, Key(d) = Key(c), pc[d] \in Fetching PROVE FALSE
    <3>1. Kind(d) = "zip" BY <2>1, <2>3, CallFacts DEF IInv
    <3>2. CallState(d) BY <2>1 DEF IInv
    <3>3. flight[Key(d)] = d BY <2>3, <3>1, <3>2 DEF CallState, Flying
    <3>4. QED BY <2>2, <2>3, <3>3
  <2>4. QED BY <2>2, <2>3
<1>2. QED BY <1>1, InvariantIInv, PTL

\* The handle of a file, or of a directory or marker of a module version of which
\* something was stored when it was given out, resolves, on this server or on a restarted
\* one.
THEOREM IssuedHandlesResolve == Spec => []HandlesResolve
<1>1. IInv => HandlesResolve
  BY DEF IInv, HandleState, HandlesResolve, Resolves, Stored, Found
<1>2. QED BY <1>1, InvariantIInv, PTL

\* No cached root of a toolchain lacks the go.mod copies, on a server that may download.
THEOREM CachedToolchainsHaveGoMods == Spec => []ToolchainsHaveGoMods
<1>1. IInv => ToolchainsHaveGoMods BY DEF IInv
<1>2. QED BY <1>1, InvariantIInv, PTL

==============================================================================

---------------------------- MODULE NFSProcsProofs ----------------------------
(***************************************************************************)
(* Proofs about NFSProcs: for any tree, any number of goroutines, and      *)
(* whatever the clients ask for.  What is said of handles, lookups and     *)
(* listings is so where appending a name copies the segments (NoRoom);     *)
(* what is said of READ is so in any case.                                 *)
(***************************************************************************)
EXTENDS NFSProcs, FiniteSetTheorems, SequenceTheorems, TLAPS

-----------------------------------------------------------------------------
(* The inductive invariants *)

Steps == {"idle", "append", "lstat", "hash", "enter", "stat", "done", "error",
          "listing", "listed", "reading", "wasRead"}

\* How far a client is in its file.
ReadState(c) ==
  /\ at[c] \in {"reading", "wasRead"} =>
       read[c].file \in DOMAIN FileSize /\ read[c].off \in 0..FileSize[read[c].file]
  /\ at[c] = "wasRead" => read[c].off = FileSize[read[c].file]

\* What is so wherever the slices are.
AnyInv ==
  /\ DOMAIN at = Calls /\ DOMAIN read = Calls /\ DOMAIN reply = Calls
  /\ DOMAIN look = Calls /\ DOMAIN list = Calls
  /\ \A c \in Calls : read[c] = [file |-> read[c].file, off |-> read[c].off]
  /\ \A c \in Calls : at[c] \in Steps
  /\ \A c \in Calls : ReadState(c)

\* No directory has segments with room for one more name.
NoRoom == DOMAIN Dirs \cap Roomy = {}

InLookup == {"append", "lstat", "hash", "enter", "stat"}

\* The path of a LOOKUP is that of its directory and its name, from the append on.
LookState(c) ==
  LET l == look[c]
      asked == Append(l.dir, l.name)
  IN /\ l = [dir |-> l.dir, name |-> l.name, path |-> l.path, handle |-> l.handle, attr |-> l.attr]
     /\ at[c] \in InLookup => l.dir \in DOMAIN Dirs /\ Known(l.dir) /\ l.name \in Names
     /\ at[c] \in InLookup \ {"append"} => l.path = asked
     /\ at[c] \in {"enter", "stat"} => l.handle = asked
     /\ at[c] = "done" /\ l.name # NoName => l.handle = asked /\ l.attr = asked

\* The cookie of a client is that of the last entry it has seen, and its verifier that of
\* the whole directory.
ListState(c) ==
  LET l == list[c]
      names == Dirs[l.dir]
  IN /\ l = [dir |-> l.dir, cookie |-> l.cookie, verf |-> l.verf, seen |-> l.seen]
     /\ l.dir \in DOMAIN Dirs
     /\ Len(l.seen) \in 0..Len(names) /\ l.seen = SubSeq(names, 1, Len(l.seen))
     /\ at[c] = "listing" =>
          /\ Known(l.dir)
          /\ l.cookie = IF Len(l.seen) = 0 THEN 0 ELSE Len(l.seen) + 1
          /\ l.cookie > 0 => l.verf.names = names /\ l.verf # NoVerifier
     /\ at[c] = "listed" => l.seen = l.verf.names /\ l.seen \in {names, <<>>}

\* What is so where no directory has room: the arrays are not shared.
IInv ==
  /\ AnyInv
  /\ DOMAIN table = Tree /\ \A h \in Tree : table[h] \in {NoPath, h}
  /\ DOMAIN spare = Tree /\ \A h \in Tree : spare[h] = NoName
  /\ \A c \in Calls : LookState(c) /\ ListState(c)

-----------------------------------------------------------------------------
(* READ *)

\* A new call, which has not read to the end.
LEMMA BeginAny ==
  ASSUME AnyInv, NEW c \in Calls, NEW lookup, NEW listing, NEW reading, NEW replied,
         NEW step \in Steps \ {"wasRead"},
         Begin(c, lookup, listing, reading, replied, step),
         reading = [file |-> reading.file, off |-> reading.off],
         step = "reading" => reading.file \in DOMAIN FileSize /\ reading.off = 0
  PROVE  AnyInv'
<1>. USE DEF Begin
<1>1. /\ at'[c] = step /\ read'[c] = reading /\ reply'[c] = replied
      /\ \A d \in Calls : d # c => at'[d] = at[d] /\ read'[d] = read[d] /\ reply'[d] = reply[d]
  BY DEF AnyInv
<1>2. ReadState(c)'
  BY <1>1, NFSProcsAssumption DEF ReadState
<1>3. \A d \in Calls : d # c => ReadState(d)' BY <1>1 DEF ReadState, AnyInv
<1>4. QED BY <1>1, <1>2, <1>3 DEF AnyInv

\* A step of a call that does not read.
LEMMA StepAny ==
  ASSUME AnyInv, NEW c \in Calls, NEW step \in Steps \ {"reading", "wasRead"},
         at' = [at EXCEPT ![c] = step], UNCHANGED <<read, reply>>,
         DOMAIN look' = DOMAIN look, DOMAIN list' = DOMAIN list
  PROVE  AnyInv'
<1>1. at'[c] = step /\ \A d \in Calls : d # c => at'[d] = at[d] BY DEF AnyInv
<1>2. \A d \in Calls : ReadState(d)' BY <1>1 DEF ReadState, AnyInv
<1>3. QED BY <1>1, <1>2 DEF AnyInv

\* The read state of a call that is not a READ.
LEMMA Nothing == NoRead = [file |-> NoRead.file, off |-> NoRead.off]
BY DEF NoRead

\* LOOKUP and READDIR read no file.
LEMMA LookupAny == ASSUME AnyInv, NEW c \in Calls, LookupNext(c) PROVE AnyInv'
<1>1. ASSUME NEW d \in DOMAIN Dirs, NEW n \in Names, Lookup(c, d, n) PROVE AnyInv'
  <2>. DEFINE l == [dir |-> d, name |-> n, path |-> NoPath, handle |-> NoPath, attr |-> NoPath]
  <2>1. PICK step \in {"append", "error"} : Begin(c, l, NoList, NoRead, NoReply, step)
    BY <1>1 DEF Lookup
  <2>. HIDE DEF l
  <2>2. QED BY <2>1, BeginAny, Nothing DEF Steps
<1>2. ASSUME NEW d \in DOMAIN Dirs, LookupDot(c, d) PROVE AnyInv'
  BY <1>2, BeginAny, Nothing DEF LookupDot, Steps
<1>3. ASSUME NEW d \in DOMAIN Dirs, LookupDotDot(c, d) PROVE AnyInv'
  <2>. DEFINE p == FromHandle(d)
              pPath == SubSeq(p, 1, Len(p) - 1)
              l == [dir |-> d, name |-> NoName, path |-> pPath, handle |-> pPath, attr |-> pPath]
  <2>1. \/ Begin(c, NoLookup, NoList, NoRead, NoReply, "error")
        \/ Begin(c, l, NoList, NoRead, NoReply, "done")
    BY <1>3 DEF LookupDotDot
  <2>. HIDE DEF l
  <2>2. QED BY <2>1, BeginAny, Nothing DEF Steps
<1>4. CASE AppendName(c) BY <1>4, StepAny DEF AppendName, Steps
<1>5. CASE LstatName(c) BY <1>5, StepAny DEF LstatName, Steps
<1>6. CASE HashName(c) BY <1>6, StepAny DEF HashName, Steps
<1>7. CASE EnterName(c) BY <1>7, StepAny DEF EnterName, Steps
<1>8. CASE RespondName(c) BY <1>8, StepAny DEF RespondName, Steps
<1>9. QED BY <1>1, <1>2, <1>3, <1>4, <1>5, <1>6, <1>7, <1>8 DEF LookupNext

\* Listing a directory reads no file either.
LEMMA ListAny == ASSUME AnyInv, NEW c \in Calls, ListNext(c) PROVE AnyInv'
<1>1. ASSUME NEW d \in DOMAIN Dirs, StartList(c, d) PROVE AnyInv'
  BY <1>1, BeginAny, Nothing DEF StartList, Steps
<1>2. CASE ListFails(c) BY <1>2, StepAny DEF ListFails, Steps
<1>3. ASSUME NEW contents, NEW first, NEW last, NEW eof, Page(c, contents, first, last, eof),
             UNCHANGED <<look, read, reply>>
      PROVE  AnyInv'
  <2>1. DOMAIN list' = DOMAIN list BY <1>3 DEF Page
  <2>2. PICK step \in {"listed", "listing"} : at' = [at EXCEPT ![c] = step] BY <1>3 DEF Page
  <2>3. QED BY <1>3, <2>1, <2>2, StepAny DEF Steps
<1>4. ASSUME NEW count \in Counts, ReadDir(c, count) PROVE AnyInv'
  BY <1>3, <1>4 DEF ReadDir
<1>5. ASSUME NEW dirCount \in DirCounts, NEW maxCount \in MaxCounts,
             ReadDirPlus(c, dirCount, maxCount)
      PROVE  AnyInv'
  BY <1>3, <1>5 DEF ReadDirPlus
<1>6. QED BY <1>1, <1>2, <1>4, <1>5 DEF ListNext

\* A READ gets no further than the end of the file, and what ends it is the end.
LEMMA ReadAny == ASSUME AnyInv, NEW c \in Calls, ReadNext(c) PROVE AnyInv'
<1>1. ASSUME NEW f \in DOMAIN FileSize, StartRead(c, f) PROVE AnyInv'
  BY <1>1, BeginAny, Nothing DEF StartRead, Steps
<1>2. ASSUME NEW count \in ReadCounts, Read(c, count) PROVE AnyInv'
  <2>. DEFINE size == FileSize[read[c].file]
              off == read[c].off
              data == ReadData(size, off, count)
  <2>1. /\ at[c] = "reading" /\ read[c].file \in DOMAIN FileSize /\ size \in Nat /\ off \in 0..size
        /\ read[c] = [file |-> read[c].file, off |-> read[c].off]
    BY <1>2, NFSProcsAssumption DEF Read, AnyInv, ReadState
  <2>2. count \in Nat \ {0} BY NFSProcsAssumption
  <2>3. data \in 0..(size - off) /\ (data = 0 => off = size)
    BY <2>1, <2>2, NFSProcsAssumption DEF ReadData, Least
  <2>4. CASE at' = [at EXCEPT ![c] = "error"] /\ UNCHANGED read
    BY <1>2, <2>4, StepAny DEF Read, Steps
  <2>5. CASE /\ read' = [read EXCEPT ![c].off = off + data]
             /\ at' = [at EXCEPT ![c] = IF ReadEOF(size, off, count) \/ data = 0
                                          THEN "wasRead" ELSE "reading"]
    <3>1. /\ read'[c] = [file |-> read[c].file, off |-> off + data]
          /\ at'[c] \in {"wasRead", "reading"}
          /\ at'[c] = "wasRead" => off + data = size
      <4>1. read' = [read EXCEPT ![c] = [read[c] EXCEPT !.off = off + data]] BY <2>5
      <4>2. read'[c] = [read[c] EXCEPT !.off = off + data] BY <4>1 DEF AnyInv
      <4>3. read'[c] = [file |-> read[c].file, off |-> off + data] BY <2>1, <4>2
      <4>4. at'[c] = IF ReadEOF(size, off, count) \/ data = 0 THEN "wasRead" ELSE "reading"
        BY <2>5 DEF AnyInv
      <4>5. QED BY <2>1, <2>3, <4>3, <4>4 DEF ReadEOF
    <3>2. off + data \in 0..size BY <2>1, <2>3
    <3>. HIDE DEF data
    <3>3. ReadState(c)' BY <2>1, <3>1, <3>2 DEF ReadState
    <3>4. \A d \in Calls : d # c => at'[d] = at[d] /\ read'[d] = read[d] BY <2>5 DEF AnyInv
    <3>5. \A d \in Calls : d # c => ReadState(d)' BY <3>4 DEF AnyInv, ReadState
    <3>6. UNCHANGED <<reply, look, list>> BY <1>2 DEF Read
    <3>7. DOMAIN at' = Calls /\ DOMAIN read' = Calls BY <2>5 DEF AnyInv
    <3>8. \A d \in Calls : at'[d] \in Steps BY <3>1, <3>4 DEF AnyInv, Steps
    <3>9. \A d \in Calls : read'[d] = [file |-> read'[d].file, off |-> read'[d].off]
      BY <3>1, <3>4 DEF AnyInv
    <3>10. QED BY <3>3, <3>5, <3>6, <3>7, <3>8, <3>9 DEF AnyInv
  <2>6. QED BY <1>2, <2>4, <2>5 DEF Read
<1>3. QED BY <1>1, <1>2 DEF ReadNext

\* The other procedures read no file.
LEMMA OtherAny == ASSUME AnyInv, NEW c \in Calls, OtherNext(c) PROVE AnyInv'
<1>1. PICK r : Begin(c, NoLookup, NoList, NoRead, r, "done") BY DEF OtherNext, Answer, Access
<1>2. QED BY <1>1, BeginAny, Nothing DEF Steps

\* Nothing was read at first.
LEMMA InitAny == ASSUME Init PROVE AnyInv
<1>1. /\ DOMAIN at = Calls /\ DOMAIN read = Calls /\ DOMAIN reply = Calls
      /\ DOMAIN look = Calls /\ DOMAIN list = Calls
      /\ \A c \in Calls : at[c] = "idle" /\ read[c] = NoRead
  BY DEF Init
<1>2. QED BY <1>1, Nothing DEF AnyInv, ReadState, Steps

\* Every step keeps it.
LEMMA NextAny == ASSUME AnyInv, [Next]_vars PROVE AnyInv'
<1>1. ASSUME NEW c \in Calls, LookupNext(c) \/ ListNext(c) \/ ReadNext(c) \/ OtherNext(c)
      PROVE  AnyInv'
  BY <1>1, LookupAny, ListAny, ReadAny, OtherAny
<1>2. CASE UNCHANGED vars BY <1>2 DEF vars, AnyInv, ReadState
<1>3. QED BY <1>1, <1>2 DEF Next

\* The invariant of READ.
THEOREM InvariantAny == Spec => []AnyInv
BY InitAny, NextAny, PTL DEF Spec

\* A client that was told the end of a file, or was brought nothing, has read all of it.
THEOREM ReadsAreWhole == Spec => []ReadIsWhole
<1>1. AnyInv => ReadIsWhole BY DEF AnyInv, ReadState, ReadIsWhole
<1>2. QED BY <1>1, InvariantAny, PTL

-----------------------------------------------------------------------------
(* Handles and LOOKUP, where no directory has room *)

\* Handles stay known and keep their paths.
LEMMA KnownStays ==
  ASSUME IInv, \A h \in Tree : table'[h] = table[h] \/ table'[h] = h, NEW h \in Tree, Known(h)
  PROVE  Known(h)' /\ FromHandle(h) = h
BY NFSProcsAssumption DEF IInv, Known, FromHandle

\* A call that is left alone keeps its state, whatever is entered into the table.
LEMMA OtherCall ==
  ASSUME IInv, \A h \in Tree : table'[h] = table[h] \/ table'[h] = h, NEW d \in Calls,
         at'[d] = at[d], look'[d] = look[d], list'[d] = list[d]
  PROVE  LookState(d)' /\ ListState(d)'
<1>1. LookState(d) /\ ListState(d) BY DEF IInv
<1>2. DOMAIN Dirs \subseteq Tree BY DEF Tree
<1>3. look[d].dir \in DOMAIN Dirs /\ Known(look[d].dir) => Known(look[d].dir)'
  BY <1>2, KnownStays
<1>4. list[d].dir \in DOMAIN Dirs /\ Known(list[d].dir) => Known(list[d].dir)'
  BY <1>2, KnownStays
<1>5. LookState(d)' BY <1>1, <1>3 DEF LookState, Known
<1>6. ListState(d)' BY <1>1, <1>4 DEF ListState, Known
<1>7. QED BY <1>5, <1>6

\* A step of one call that enters handles with their own paths.
LEMMA CallStep ==
  ASSUME IInv, AnyInv', NEW c \in Calls,
         DOMAIN table' = Tree, \A h \in Tree : table'[h] = table[h] \/ table'[h] = h,
         UNCHANGED spare,
         \A d \in Calls \ {c} : at'[d] = at[d] /\ look'[d] = look[d] /\ list'[d] = list[d],
         LookState(c)', ListState(c)'
  PROVE  IInv'
<1>1. \A d \in Calls : LookState(d)' /\ ListState(d)' BY OtherCall
<1>2. QED BY <1>1 DEF IInv

\* What a call begins with is at rest.
LEMMA BeginStep ==
  ASSUME IInv, AnyInv', NEW c \in Calls, NEW lookup, NEW listing, NEW reading, NEW replied, NEW step,
         Begin(c, lookup, listing, reading, replied, step),
         DOMAIN table' = Tree, \A h \in Tree : table'[h] = table[h] \/ table'[h] = h,
         UNCHANGED spare,
         look'[c] = lookup /\ at'[c] = step => LookState(c)',
         list'[c] = listing /\ at'[c] = step => ListState(c)'
  PROVE  IInv'
<1>1. look'[c] = lookup /\ list'[c] = listing /\ at'[c] = step BY DEF Begin, IInv, AnyInv
<1>2. \A d \in Calls \ {c} : at'[d] = at[d] /\ look'[d] = look[d] /\ list'[d] = list[d]
  BY DEF Begin, IInv, AnyInv
<1>3. QED BY <1>1, <1>2, CallStep

\* Handles are entered for the paths they are of.
LEMMA EnteredHandles ==
  ASSUME NEW paths, ToHandles(paths)
  PROVE  DOMAIN table' = Tree /\ \A h \in Tree : table'[h] = table[h] \/ table'[h] = h
BY DEF ToHandles

\* A listing that is not begun.
LEMMA NoListState ==
  ASSUME NEW c \in Calls, list'[c] = NoList, at'[c] \notin {"listing", "listed"}
  PROVE  ListState(c)'
<1>1. Root \in DOMAIN Dirs /\ Dirs[Root] \in Seq(Names) BY NFSProcsAssumption
<1>2. /\ list'[c] = [dir |-> Root, cookie |-> 0, verf |-> NoVerifier, seen |-> <<>>]
      /\ list'[c].dir = Root /\ list'[c].seen = <<>>
  BY DEF NoList
<1>3. SubSeq(Dirs[Root], 1, 0) = <<>> /\ Len(<<>>) = 0 BY SubSeqEmpty
<1>4. Len(Dirs[Root]) \in Nat BY <1>1
<1>5. QED BY <1>1, <1>2, <1>3, <1>4 DEF ListState

\* A lookup that is not begun.
LEMMA NoLookState ==
  ASSUME NEW c \in Calls, look'[c] = NoLookup, at'[c] \notin InLookup
  PROVE  LookState(c)'
BY DEF LookState, NoLookup, InLookup

\* A LOOKUP begins with no path of its own.
LEMMA LookupIInv ==
  ASSUME IInv, AnyInv', NEW c \in Calls, NEW d \in DOMAIN Dirs, NEW n \in Names, Lookup(c, d, n)
  PROVE  IInv'
<1>. DEFINE l == [dir |-> d, name |-> n, path |-> NoPath, handle |-> NoPath, attr |-> NoPath]
<1>1. PICK step \in {"append", "error"} : Begin(c, l, NoList, NoRead, NoReply, step)
  BY DEF Lookup
<1>2. UNCHANGED <<table, spare>> /\ Known(d) BY DEF Lookup
<1>3. look'[c] = l /\ at'[c] = step => LookState(c)'
  <2>1. Known(d)' BY <1>2 DEF Known
  <2>2. QED BY <1>1, <2>1 DEF LookState, InLookup
<1>4. list'[c] = NoList /\ at'[c] = step => ListState(c)' BY <1>1, NoListState
<1>. HIDE DEF l
<1>5. QED BY <1>1, <1>2, <1>3, <1>4, BeginStep DEF IInv

\* "." and ".." enter a handle for the path that it is the hash of, at most.
LEMMA LookupDotIInv ==
  ASSUME IInv, AnyInv', NEW c \in Calls, NEW d \in DOMAIN Dirs,
         LookupDot(c, d) \/ LookupDotDot(c, d)
  PROVE  IInv'
<1>1. ASSUME NEW p, NEW h, Begin(c, [dir |-> d, name |-> NoName, path |-> p, handle |-> h, attr |-> p],
                                NoList, NoRead, NoReply, "done"),
             DOMAIN table' = Tree, \A x \in Tree : table'[x] = table[x] \/ table'[x] = x,
             UNCHANGED spare
      PROVE  IInv'
  <2>. DEFINE l == [dir |-> d, name |-> NoName, path |-> p, handle |-> h, attr |-> p]
  <2>1. look'[c] = l /\ at'[c] = "done" => LookState(c)' BY DEF LookState, InLookup
  <2>2. list'[c] = NoList /\ at'[c] = "done" => ListState(c)' BY NoListState
  <2>. HIDE DEF l
  <2>3. Begin(c, l, NoList, NoRead, NoReply, "done") BY <1>1 DEF l
  <2>4. QED BY <1>1, <2>1, <2>2, <2>3, BeginStep
<1>2. CASE LookupDot(c, d)
  <2>1. UNCHANGED <<table, spare>> /\ DOMAIN table' = Tree BY <1>2 DEF LookupDot, IInv
  <2>2. QED BY <1>1, <1>2, <2>1 DEF LookupDot
<1>3. CASE LookupDotDot(c, d) /\ FromHandle(d) = Root
  <2>1. Begin(c, NoLookup, NoList, NoRead, NoReply, "error") /\ UNCHANGED <<table, spare>>
    BY <1>3 DEF LookupDotDot
  <2>2. look'[c] = NoLookup /\ at'[c] = "error" => LookState(c)' BY NoLookState DEF InLookup
  <2>3. list'[c] = NoList /\ at'[c] = "error" => ListState(c)' BY NoListState
  <2>4. QED BY <2>1, <2>2, <2>3, BeginStep DEF IInv
<1>4. CASE LookupDotDot(c, d) /\ FromHandle(d) # Root
  <2>. DEFINE p == FromHandle(d)
              pPath == SubSeq(p, 1, Len(p) - 1)
  <2>1. /\ ToHandles({pPath}) /\ UNCHANGED spare
        /\ Begin(c, [dir |-> d, name |-> NoName, path |-> pPath, handle |-> pPath, attr |-> pPath],
                 NoList, NoRead, NoReply, "done")
    BY <1>4 DEF LookupDotDot
  <2>2. DOMAIN table' = Tree /\ \A x \in Tree : table'[x] = table[x] \/ table'[x] = x
    BY <2>1, EnteredHandles
  <2>. HIDE DEF pPath
  <2>3. QED BY <1>1, <2>1, <2>2
<1>5. QED BY <1>2, <1>3, <1>4

\* The steps of a LOOKUP after its first one: the slice is its own.
LEMMA LookupStepIInv ==
  ASSUME NoRoom, IInv, AnyInv', NEW c \in Calls,
         AppendName(c) \/ LstatName(c) \/ HashName(c) \/ EnterName(c) \/ RespondName(c)
  PROVE  IInv'
<1>. DEFINE l == look[c]
            asked == Append(l.dir, l.name)
<1>1. /\ at[c] \in InLookup /\ LookState(c) /\ ListState(c)
      /\ UNCHANGED list
  BY DEF IInv, AppendName, LstatName, HashName, EnterName, RespondName, InLookup
<1>2. /\ l.dir \in DOMAIN Dirs /\ Known(l.dir) /\ l.name \in Names /\ l.dir \in Tree
      /\ FromHandle(l.dir) = l.dir /\ asked # NoPath /\ l.name # NoName
      /\ l = [dir |-> l.dir, name |-> l.name, path |-> l.path, handle |-> l.handle, attr |-> l.attr]
  <2>1. /\ l.dir \in DOMAIN Dirs /\ Known(l.dir) /\ l.name \in Names
        /\ l = [dir |-> l.dir, name |-> l.name, path |-> l.path, handle |-> l.handle, attr |-> l.attr]
    BY <1>1 DEF LookState
  <2>. HIDE DEF l
  <2>2. l.dir \in Tree /\ l.name # NoName BY <2>1, NFSProcsAssumption DEF Tree
  <2>3. FromHandle(l.dir) = l.dir BY <2>1, <2>2 DEF IInv, Known, FromHandle
  <2>4. asked # NoPath BY <2>1, NFSProcsAssumption DEF l
  <2>5. QED BY <2>1, <2>2, <2>3, <2>4
<1>3. at[c] \in InLookup \ {"append"} => l.path = asked /\ ReqPath(c) = asked
  BY <1>1, <1>2 DEF LookState, ReqPath
<1>4. PICK st \in {"lstat", "hash", "enter", "stat", "done", "error"} : at' = [at EXCEPT ![c] = st]
  BY DEF AppendName, LstatName, HashName, EnterName, RespondName
<1>5. at'[c] = st /\ \A d \in Calls \ {c} : at'[d] = at[d] BY <1>4 DEF IInv, AnyInv
<1>6. DOMAIN look = Calls /\ DOMAIN table = Tree BY DEF IInv, AnyInv
<1>7. ListState(c)' BY <1>1, <1>4, <1>5 DEF ListState
<1>8. CASE AppendName(c)
  <2>1. ~HasRoom(l.dir) BY <1>2 DEF HasRoom, FromHandle, NoRoom
  <2>2. /\ look' = [look EXCEPT ![c].path = Append(FromHandle(l.dir), l.name)]
        /\ UNCHANGED <<table, spare>> /\ st = "lstat"
    BY <1>5, <1>8, <1>6, <2>1 DEF AppendName, IInv, AnyInv
  <2>3. look' = [look EXCEPT ![c] = [l EXCEPT !.path = asked]] BY <1>2, <2>2
  <2>4. /\ look'[c] = [l EXCEPT !.path = asked]
        /\ \A d \in Calls \ {c} : look'[d] = look[d]
    BY <1>6, <2>3
  <2>5. look'[c] = [dir |-> l.dir, name |-> l.name, path |-> asked, handle |-> l.handle, attr |-> l.attr]
    BY <1>2, <2>4
  <2>6. Known(l.dir)' BY <1>2, <2>2 DEF Known
  <2>7. /\ look'[c].dir = l.dir /\ look'[c].name = l.name /\ look'[c].path = asked
        /\ look'[c] = [dir |-> look'[c].dir, name |-> look'[c].name, path |-> look'[c].path,
                       handle |-> look'[c].handle, attr |-> look'[c].attr]
    BY <2>5
  <2>8. LookState(c)' BY <1>2, <1>5, <2>2, <2>6, <2>7 DEF LookState, InLookup
  <2>9. QED BY <1>1, <1>5, <1>6, <1>7, <2>2, <2>4, <2>8, CallStep
<1>9. CASE LstatName(c)
  <2>1. UNCHANGED <<table, spare, look>> /\ st \in {"hash", "error"} /\ at[c] = "lstat"
    BY <1>5, <1>9 DEF LstatName, IInv, AnyInv
  <2>2. Known(l.dir)' BY <1>2, <2>1 DEF Known
  <2>3. LookState(c)' BY <1>2, <1>3, <1>5, <2>1, <2>2 DEF LookState, InLookup
  <2>4. QED BY <1>1, <1>5, <1>6, <1>7, <2>1, <2>3, CallStep
<1>10. CASE HashName(c)
  <2>1. /\ UNCHANGED <<table, spare>> /\ st = "enter" /\ at[c] = "hash"
        /\ look' = [look EXCEPT ![c].handle = ReqPath(c)]
    BY <1>5, <1>10 DEF HashName, IInv, AnyInv
  <2>2. look' = [look EXCEPT ![c] = [l EXCEPT !.handle = asked]] BY <1>3, <2>1 DEF InLookup
  <2>3. look'[c] = [l EXCEPT !.handle = asked] /\ \A d \in Calls \ {c} : look'[d] = look[d]
    BY <1>6, <2>2
  <2>4. look'[c] = [dir |-> l.dir, name |-> l.name, path |-> l.path, handle |-> asked, attr |-> l.attr]
    BY <1>2, <2>3
  <2>5. Known(l.dir)' BY <1>2, <2>1 DEF Known
  <2>6. l.path = asked BY <1>3, <2>1 DEF InLookup
  <2>7. LookState(c)' BY <1>2, <1>5, <2>1, <2>4, <2>5, <2>6 DEF LookState, InLookup
  <2>8. QED BY <1>1, <1>5, <1>6, <1>7, <2>1, <2>3, <2>7, CallStep
<1>11. CASE EnterName(c)
  <2>1. UNCHANGED <<spare, look>> /\ st = "stat" /\ at[c] = "enter"
    BY <1>5, <1>11 DEF EnterName, IInv, AnyInv
  <2>2. l.path = asked /\ ReqPath(c) = asked /\ l.handle = asked
    BY <1>1, <1>3, <2>1 DEF LookState, InLookup
  <2>3. table' = IF asked \in Tree /\ table[asked] = NoPath
                   THEN [table EXCEPT ![asked] = asked] ELSE table
    BY <1>11, <2>2 DEF EnterName
  <2>4. DOMAIN table' = Tree /\ \A h \in Tree : table'[h] = table[h] \/ table'[h] = h
    BY <1>6, <2>3
  <2>5. Known(l.dir)' BY <1>2, <2>1, <2>4, NFSProcsAssumption DEF Known, IInv
  <2>6. LookState(c)' BY <1>2, <1>5, <2>1, <2>2, <2>5 DEF LookState, InLookup
  <2>7. QED BY <1>1, <1>5, <1>7, <2>1, <2>4, <2>6, CallStep
<1>12. CASE RespondName(c)
  <2>1. /\ UNCHANGED <<table, spare>> /\ st = "done" /\ at[c] = "stat"
        /\ look' = [look EXCEPT ![c].attr = ReqPath(c)]
    BY <1>5, <1>12 DEF RespondName, IInv, AnyInv
  <2>2. look' = [look EXCEPT ![c] = [l EXCEPT !.attr = asked]] BY <1>3, <2>1 DEF InLookup
  <2>3. look'[c] = [l EXCEPT !.attr = asked] /\ \A d \in Calls \ {c} : look'[d] = look[d]
    BY <1>6, <2>2
  <2>4. look'[c] = [dir |-> l.dir, name |-> l.name, path |-> l.path, handle |-> l.handle, attr |-> asked]
    BY <1>2, <2>3
  <2>5. l.handle = asked BY <1>1, <2>1 DEF LookState
  <2>6. LookState(c)' BY <1>2, <1>5, <2>1, <2>4, <2>5 DEF LookState, InLookup
  <2>7. QED BY <1>1, <1>5, <1>6, <1>7, <2>1, <2>3, <2>6, CallStep
<1>13. QED BY <1>8, <1>9, <1>10, <1>11, <1>12

-----------------------------------------------------------------------------
(* READDIR and READDIRPLUS, where no directory has room *)

\* The bytes of the names on a page of one entry.
LEMMA SumOfOne ==
  ASSUME NEW c, NEW i, NameLen[c[i]] \in Nat
  PROVE  DirBytes(c, {i}) = NameLen[c[i]] + 20
<1>. DEFINE g == [s \in SUBSET {i} |-> IF s = {} THEN 0 ELSE NameLen[c[i]] + 20]
            R(h) == h = [s \in SUBSET {i} |->
                      IF s = {} THEN 0
                      ELSE (NameLen[c[CHOOSE x \in s : TRUE]] + 20) + h[s \ {CHOOSE x \in s : TRUE}]]
<1>1. g[{}] = 0 /\ g[{i}] = NameLen[c[i]] + 20 OBVIOUS
<1>2. \A s \in SUBSET {i} : s = {} \/ s = {i} OBVIOUS
<1>3. (CHOOSE x \in {i} : TRUE) = i OBVIOUS
<1>4. ASSUME NEW s \in SUBSET {i}
      PROVE  g[s] = IF s = {} THEN 0
                    ELSE (NameLen[c[CHOOSE x \in s : TRUE]] + 20) + g[s \ {CHOOSE x \in s : TRUE}]
  <2>1. CASE s = {} BY <1>1, <2>1
  <2>2. CASE s = {i}
    <3>. DEFINE y == CHOOSE x \in s : TRUE
    <3>1. y = i /\ s \ {y} = {} /\ s # {} BY <1>3, <2>2
    <3>. HIDE DEF g, y
    <3>2. g[s \ {y}] = 0 /\ g[s] = NameLen[c[i]] + 20 BY <1>1, <2>2, <3>1
    <3>3. g[s] = NameLen[c[y]] + 20 + g[s \ {y}] BY <3>1, <3>2
    <3>4. QED BY <3>1, <3>3 DEF y
  <2>3. QED BY <1>2, <2>1, <2>2
<1>5. R(g) BY <1>4
<1>. DEFINE k == CHOOSE h : R(h)
<1>6. R(k) BY <1>5
<1>7. k[{i}] = NameLen[c[i]] + 20
  <2>. DEFINE y == CHOOSE x \in {i} : TRUE
  <2>1. k[{}] = 0 /\ k[{i}] = (NameLen[c[y]] + 20) + k[{i} \ {y}] BY <1>6
  <2>2. y = i /\ {i} \ {y} = {} BY <1>3
  <2>. HIDE DEF k, y
  <2>3. QED BY <2>1, <2>2
<1>8. QED BY <1>7 DEF DirBytes, MapThenSumSet, MapThenFoldSet

\* A page ends within the directory, and where there is another entry it has one.
LEMMA PageBounds ==
  ASSUME NEW n \in Nat, NEW first \in 1..(n + 1), NEW fit \in SUBSET (first..n),
         first <= n => first \in fit
  PROVE  /\ first - 1 + Cardinality(fit) \in (first - 1)..n
         /\ first - 1 + Cardinality(fit) < first => first = n + 1
<1>1. IsFiniteSet(first..n) /\ Cardinality(first..n) = n - first + 1
  <2>1. first \in Int /\ n \in Int /\ first <= n + 1 OBVIOUS
  <2>2. /\ IsFiniteSet(first..n)
        /\ Cardinality(first..n) = IF first > n THEN 0 ELSE n - first + 1
    BY <2>1, FS_Interval
  <2>3. QED BY <2>1, <2>2
<1>2. IsFiniteSet(fit) /\ Cardinality(fit) \in Nat /\ Cardinality(fit) <= n - first + 1
  <2>1. IsFiniteSet(fit) /\ Cardinality(fit) <= Cardinality(first..n) BY <1>1, FS_Subset
  <2>2. Cardinality(fit) \in Nat BY <2>1, FS_CardinalityType
  <2>3. QED BY <1>1, <2>1, <2>2
<1>3. Cardinality(fit) = 0 => fit = {} BY <1>2, FS_EmptySet
<1>4. QED BY <1>2, <1>3

\* The least limits of READDIR let one entry through.
LEMMA ReadDirLast ==
  ASSUME NEW contents \in Seq(Names), NEW first \in 1..(Len(contents) + 1),
         NEW count \in Counts, count >= 1024
  PROVE  /\ LastOfReadDir(contents, first, count) \in (first - 1)..Len(contents)
         /\ LastOfReadDir(contents, first, count) < first => first = Len(contents) + 1
<1>. DEFINE fit == {i \in first..Len(contents) : 100 + 512 * (i - first + 1) <= count}
<1>1. Len(contents) \in Nat /\ count \in Nat BY NFSProcsAssumption
<1>2. first <= Len(contents) => first \in fit BY <1>1
<1>3. fit \in SUBSET (first..Len(contents)) OBVIOUS
<1>4. LastOfReadDir(contents, first, count) = first - 1 + Cardinality(fit) BY DEF LastOfReadDir
<1>. HIDE DEF fit
<1>5. QED BY <1>1, <1>2, <1>3, <1>4, PageBounds

\* Those of READDIRPLUS do too, for a name of any length that the server has.
LEMMA ReadDirPlusLast ==
  ASSUME NEW contents \in Seq(Names), NEW first \in 1..(Len(contents) + 1),
         NEW dirCount \in DirCounts, NEW maxCount \in MaxCounts, dirCount >= 512, maxCount >= 8 * 512
  PROVE  LET last == LastOfReadDirPlus(contents, first, dirCount, maxCount) IN
         last \in (first - 1)..Len(contents) /\ (last < first => first = Len(contents) + 1)
<1>. DEFINE fit == {i \in first..Len(contents) :
                      /\ DirBytes(contents, first..i) <= dirCount
                      /\ 100 + 512 * (i - first + 1) <= maxCount}
<1>1. Len(contents) \in Nat /\ dirCount \in Nat /\ maxCount \in Nat BY NFSProcsAssumption
<1>2. first <= Len(contents) => first \in fit
  <2>. HAVE first <= Len(contents)
  <2>1. contents[first] \in Names BY <1>1
  <2>2. NameLen[contents[first]] \in Nat /\ NameLen[contents[first]] + 20 <= 512
    BY <2>1, NFSProcsAssumption
  <2>3. DirBytes(contents, {first}) = NameLen[contents[first]] + 20
    <3>1. \A i : NameLen[contents[i]] \in Nat => DirBytes(contents, {i}) = NameLen[contents[i]] + 20
      BY SumOfOne
    <3>2. QED BY <2>2, <3>1
  <2>4. first..first = {first} OBVIOUS
  <2>5. DirBytes(contents, first..first) = NameLen[contents[first]] + 20 BY <2>3, <2>4
  <2>6. QED BY <1>1, <2>2, <2>5
<1>3. fit \in SUBSET (first..Len(contents)) OBVIOUS
<1>4. LastOfReadDirPlus(contents, first, dirCount, maxCount) = first - 1 + Cardinality(fit)
  BY DEF LastOfReadDirPlus
<1>. HIDE DEF fit
<1>5. /\ first - 1 + Cardinality(fit) \in (first - 1)..Len(contents)
      /\ first - 1 + Cardinality(fit) < first => first = Len(contents) + 1
  BY <1>1, <1>2, <1>3, PageBounds
<1>6. QED BY <1>4, <1>5

\* A verifier, in either form, is that of the names it was made of.
LEMMA VerifierNames ==
  ASSUME NEW d, NEW contents
  PROVE  /\ Verifier(d, contents).names = contents
         /\ Reversed(Verifier(d, contents)).names = contents
         /\ Verifier(d, contents).path = d /\ Reversed(Verifier(d, contents)).path = d
         /\ \A w : CookieVerifierEqual(Verifier(d, contents), w) => w.names = contents
<1>1. Verifier(d, contents).names = contents /\ Verifier(d, contents).path = d BY DEF Verifier
<1>2. /\ Reversed(Verifier(d, contents)).names = contents
      /\ Reversed(Verifier(d, contents)).path = d
  BY DEF Verifier, Reversed
<1>3. QED BY <1>1, <1>2 DEF CookieVerifierEqual

\* What a client goes on with: the directory after what it has seen, or nothing of what it
\* has seen nothing of.
LEMMA PageStart ==
  ASSUME IInv, NEW c \in Calls, at[c] = "listing",
         NEW contents \in Listings(FromHandle(list[c].dir)), SameDirectory(c, contents)
  PROVE  LET l == list[c]
             first == FirstAfter(contents, l.cookie)
         IN /\ contents \in Seq(Names) /\ first = Len(l.seen) + 1 /\ first \in 1..(Len(contents) + 1)
            /\ FromHandle(l.dir) = l.dir
            /\ contents = Dirs[l.dir] \/ (contents = <<>> /\ Len(l.seen) = 0)
<1>. DEFINE l == list[c]
            names == Dirs[l.dir]
            k == Len(l.seen)
<1>1. /\ l.dir \in DOMAIN Dirs /\ Known(l.dir) /\ k \in 0..Len(names)
      /\ l.cookie = IF k = 0 THEN 0 ELSE k + 1
      /\ l.cookie > 0 => l.verf.names = names /\ l.verf # NoVerifier
  BY DEF IInv, ListState
<1>2. FromHandle(l.dir) = l.dir /\ names \in Seq(Names)
  BY <1>1, NFSProcsAssumption DEF IInv, Known, FromHandle, Tree
<1>3. contents \in {names, <<>>} BY <1>2 DEF Listings
<1>4. contents \in Seq(Names)
  <2>1. <<>> \in Seq(Names) BY EmptySeq
  <2>2. QED BY <1>2, <1>3, <2>1
<1>5. Len(names) \in Nat /\ k \in Nat BY <1>1, <1>2
<1>6. CASE k = 0
  BY <1>1, <1>2, <1>3, <1>4, <1>5, <1>6 DEF FirstAfter
<1>7. CASE k > 0
  <2>1. l.cookie = k + 1 /\ l.cookie > 0 /\ l.verf.names = names /\ l.verf # NoVerifier
    BY <1>1, <1>5, <1>7
  <2>2. contents = names BY <1>2, <2>1, VerifierNames DEF SameDirectory
  <2>3. DOMAIN contents = 1..Len(contents) BY <1>4
  <2>4. l.cookie - 1 \in DOMAIN contents BY <1>1, <1>5, <1>7, <2>1, <2>2, <2>3
  <2>5. FirstAfter(contents, l.cookie) = k + 1 BY <1>5, <2>1, <2>4 DEF FirstAfter
  <2>6. QED BY <1>1, <1>2, <1>4, <1>5, <2>2, <2>5
<1>8. QED BY <1>1, <1>5, <1>6, <1>7

\* What a client has seen after a page.
LEMMA PageSeen ==
  ASSUME NEW s \in Seq(Names), NEW k \in 0..Len(s), NEW last \in k..Len(s)
  PROVE  /\ SubSeq(s, 1, k) \o SubSeq(s, k + 1, last) = SubSeq(s, 1, last)
         /\ Len(SubSeq(s, 1, last)) = last
         /\ last = Len(s) => SubSeq(s, 1, last) = s
<1>1. Len(s) \in Nat OBVIOUS
<1>2. SubSeq(s, 1, k) \o SubSeq(s, k + 1, last) = SubSeq(s, 1, last)
  BY <1>1, ConcatAdjacentSubSeq
<1>3. Len(SubSeq(s, 1, last)) = last BY <1>1
<1>4. last = Len(s) => SubSeq(s, 1, last) = s BY SubSeqFull
<1>5. QED BY <1>2, <1>3, <1>4

\* A page is added to what the client has seen.
LEMMA PageIInv ==
  ASSUME IInv, AnyInv', NEW c \in Calls, at[c] = "listing",
         NEW contents \in Listings(FromHandle(list[c].dir)), SameDirectory(c, contents),
         NEW first, first = FirstAfter(contents, list[c].cookie),
         NEW last \in (first - 1)..Len(contents), last < first => first = Len(contents) + 1,
         NEW eof, eof => last = Len(contents),
         Page(c, contents, first, last, eof),
         DOMAIN table' = Tree, \A h \in Tree : table'[h] = table[h] \/ table'[h] = h,
         UNCHANGED <<spare, look>>
  PROVE  IInv'
<1>. DEFINE l == list[c]
            names == Dirs[l.dir]
            k == Len(l.seen)
<1>1. /\ contents \in Seq(Names) /\ first = k + 1 /\ first \in 1..(Len(contents) + 1)
      /\ FromHandle(l.dir) = l.dir /\ (contents = names \/ (contents = <<>> /\ k = 0))
  BY PageStart
<1>2. /\ l.dir \in DOMAIN Dirs /\ Known(l.dir) /\ k \in 0..Len(names)
      /\ l.cookie = IF k = 0 THEN 0 ELSE k + 1
      /\ l.seen = SubSeq(names, 1, k)
      /\ names \in Seq(Names) /\ Len(names) \in Nat /\ k \in Nat /\ Len(contents) \in Nat
  <2>1. ListState(c) BY DEF IInv
  <2>2. /\ l.dir \in DOMAIN Dirs /\ Known(l.dir) /\ k \in 0..Len(names)
        /\ l.cookie = IF k = 0 THEN 0 ELSE k + 1
        /\ l.seen = SubSeq(names, 1, k)
    BY <2>1 DEF ListState
  <2>3. names \in Seq(Names) /\ Len(names) \in Nat BY <2>2, NFSProcsAssumption
  <2>4. Len(contents) \in Nat BY <1>1
  <2>5. QED BY <2>2, <2>3, <2>4
<1>. DEFINE seen == l.seen \o SubSeq(contents, first, last)
            cookie == IF last >= first THEN last + 1 ELSE l.cookie
<1>3. PICK verf \in {Verifier(l.dir, contents), Reversed(Verifier(l.dir, contents))} :
        list' = [list EXCEPT ![c] = [dir |-> l.dir, cookie |-> cookie, verf |-> verf, seen |-> seen]]
  BY <1>1 DEF Page
<1>4. verf.names = contents /\ verf # NoVerifier
  <2>1. verf.names = contents /\ verf.path = l.dir BY <1>3, VerifierNames
  <2>2. NoVerifier.path = NoPath /\ l.dir # NoPath
    BY <1>2, NFSProcsAssumption DEF NoVerifier, Tree
  <2>3. QED BY <2>1, <2>2
<1>5. /\ list'[c] = [dir |-> l.dir, cookie |-> cookie, verf |-> verf, seen |-> seen]
      /\ \A d \in Calls \ {c} : list'[d] = list[d]
  <2>. HIDE DEF cookie, seen
  <2>1. DOMAIN list = Calls BY DEF IInv, AnyInv
  <2>2. QED BY <1>3, <2>1
<1>6. /\ list'[c].dir = l.dir /\ list'[c].seen = seen /\ list'[c].verf = verf
      /\ list'[c].cookie = cookie
      /\ list'[c] = [dir |-> list'[c].dir, cookie |-> list'[c].cookie, verf |-> list'[c].verf,
                     seen |-> list'[c].seen]
  <2>. HIDE DEF cookie, seen
  <2>1. QED BY <1>5
<1>7. /\ at'[c] = IF eof \/ last < first THEN "listed" ELSE "listing"
      /\ \A d \in Calls \ {c} : at'[d] = at[d]
  BY DEF Page, IInv, AnyInv
<1>8. CASE contents = names
  <2>1. last \in k..Len(names) BY <1>1, <1>2, <1>8
  <2>2. /\ seen = SubSeq(names, 1, last) /\ Len(seen) = last
        /\ last = Len(names) => seen = names
    <3>1. /\ SubSeq(names, 1, k) \o SubSeq(names, k + 1, last) = SubSeq(names, 1, last)
          /\ Len(SubSeq(names, 1, last)) = last
          /\ last = Len(names) => SubSeq(names, 1, last) = names
      BY <1>2, <2>1, PageSeen
    <3>2. seen = SubSeq(names, 1, k) \o SubSeq(names, k + 1, last) BY <1>1, <1>2, <1>8
    <3>3. QED BY <3>1, <3>2
  <2>3. cookie = IF last = 0 THEN 0 ELSE last + 1 BY <1>1, <1>2, <2>1
  <2>. HIDE DEF seen, cookie
  <2>4. at'[c] = "listed" => last = Len(names) BY <1>1, <1>2, <1>7, <1>8, <2>1
  <2>5. Known(l.dir)' BY <1>2, <1>6, NFSProcsAssumption DEF Known, IInv, Tree
  <2>6. /\ list'[c].dir \in DOMAIN Dirs
        /\ Len(list'[c].seen) \in 0..Len(Dirs[list'[c].dir])
        /\ list'[c].seen = SubSeq(Dirs[list'[c].dir], 1, Len(list'[c].seen))
    BY <1>2, <1>6, <2>1, <2>2
  <2>7. at'[c] = "listed" => /\ list'[c].seen = list'[c].verf.names
                             /\ list'[c].seen = Dirs[list'[c].dir]
    BY <1>4, <1>6, <1>8, <2>2, <2>4
  <2>8. /\ list'[c].cookie = IF Len(list'[c].seen) = 0 THEN 0 ELSE Len(list'[c].seen) + 1
        /\ list'[c].verf.names = Dirs[list'[c].dir] /\ list'[c].verf # NoVerifier
    BY <1>4, <1>6, <1>8, <2>2, <2>3
  <2>9. ListState(c)' BY <1>6, <2>5, <2>6, <2>7, <2>8 DEF ListState
  <2>10. LookState(c)' BY <1>7 DEF IInv, LookState, InLookup
  <2>11. QED BY <1>5, <1>7, <2>9, <2>10, CallStep
<1>9. CASE contents = <<>> /\ k = 0
  <2>1. first = 1 /\ last = 0 BY <1>1, <1>2, <1>9
  <2>2. l.seen = <<>> /\ SubSeq(contents, first, last) = <<>>
    BY <1>2, <1>9, <2>1, SubSeqEmpty
  <2>3. seen = <<>> BY <2>2
  <2>. HIDE DEF seen, cookie
  <2>4. at'[c] = "listed" BY <1>7, <2>1
  <2>5. Len(<<>>) = 0 /\ SubSeq(names, 1, 0) = <<>> BY SubSeqEmpty
  <2>6. ListState(c)' BY <1>2, <1>4, <1>6, <1>9, <2>3, <2>4, <2>5 DEF ListState
  <2>7. LookState(c)' BY <2>4 DEF IInv, LookState, InLookup
  <2>8. QED BY <1>5, <1>7, <2>6, <2>7, CallStep
<1>10. QED BY <1>1, <1>8, <1>9

\* A listing begins with nothing seen and no cookie.
LEMMA StartListIInv ==
  ASSUME IInv, AnyInv', NEW c \in Calls, NEW d \in DOMAIN Dirs, StartList(c, d) PROVE IInv'
<1>. DEFINE l == [dir |-> d, cookie |-> 0, verf |-> NoVerifier, seen |-> <<>>]
<1>1. [NoList EXCEPT !.dir = d] = l BY DEF NoList
<1>2. Begin(c, NoLookup, l, NoRead, NoReply, "listing") /\ UNCHANGED <<table, spare>> /\ Known(d)
  BY <1>1 DEF StartList
<1>3. look'[c] = NoLookup /\ at'[c] = "listing" => LookState(c)' BY NoLookState DEF InLookup
<1>4. list'[c] = l /\ at'[c] = "listing" => ListState(c)'
  <2>1. Known(d)' BY <1>2 DEF Known
  <2>2. Len(<<>>) = 0 /\ SubSeq(Dirs[d], 1, 0) = <<>> BY SubSeqEmpty
  <2>3. Len(Dirs[d]) \in Nat BY NFSProcsAssumption
  <2>4. QED BY <2>1, <2>2, <2>3 DEF ListState
<1>. HIDE DEF l
<1>5. QED BY <1>2, <1>3, <1>4, BeginStep DEF IInv

\* The steps of a listing.
LEMMA ListIInv == ASSUME NoRoom, IInv, AnyInv', NEW c \in Calls, ListNext(c) PROVE IInv'
<1>1. ASSUME NEW d \in DOMAIN Dirs, StartList(c, d) PROVE IInv' BY <1>1, StartListIInv
<1>2. CASE ListFails(c)
  <2>1. /\ at'[c] = "error" /\ \A d \in Calls \ {c} : at'[d] = at[d]
        /\ UNCHANGED <<table, spare, look, list>>
    BY <1>2 DEF ListFails, IInv, AnyInv
  <2>2. LookState(c)' /\ ListState(c)' BY <2>1 DEF IInv, LookState, ListState, InLookup
  <2>3. QED BY <2>1, <2>2, CallStep DEF IInv
<1>3. ASSUME NEW count \in Counts, ReadDir(c, count) PROVE IInv'
  <2>. DEFINE d == list[c].dir
              first(contents) == FirstAfter(contents, list[c].cookie)
              last(contents) == LastOfReadDir(contents, first(contents), count)
  <2>1. PICK contents \in Listings(FromHandle(d)) :
          /\ SameDirectory(c, contents)
          /\ Page(c, contents, first(contents), last(contents), last(contents) = Len(contents))
          /\ IF HasRoom(d) /\ first(contents) <= last(contents)
               THEN \E i \in first(contents)..last(contents) : spare' = [spare EXCEPT ![d] = contents[i]]
               ELSE UNCHANGED spare
    BY <1>3 DEF ReadDir
  <2>2. at[c] = "listing" /\ count >= 1024 /\ UNCHANGED <<table, look>> BY <1>3 DEF ReadDir
  <2>3. /\ contents \in Seq(Names) /\ first(contents) \in 1..(Len(contents) + 1)
        /\ FromHandle(d) = d
    BY <2>1, <2>2, PageStart
  <2>4. ~HasRoom(d) /\ UNCHANGED spare
    <3>1. d \in DOMAIN Dirs BY <2>2 DEF IInv, ListState
    <3>2. ~HasRoom(d) BY <2>3, <3>1 DEF HasRoom, FromHandle, NoRoom
    <3>3. QED BY <2>1, <3>2
  <2>. HIDE DEF first
  <2>5. /\ last(contents) \in (first(contents) - 1)..Len(contents)
        /\ last(contents) < first(contents) => first(contents) = Len(contents) + 1
    BY <2>2, <2>3, ReadDirLast
  <2>. HIDE DEF last
  <2>6. QED BY <2>1, <2>2, <2>4, <2>5, PageIInv DEF first, IInv
<1>4. ASSUME NEW dirCount \in DirCounts, NEW maxCount \in MaxCounts,
             ReadDirPlus(c, dirCount, maxCount)
      PROVE  IInv'
  <2>. DEFINE d == list[c].dir
              first(contents) == FirstAfter(contents, list[c].cookie)
              last(contents) == LastOfReadDirPlus(contents, first(contents), dirCount, maxCount)
              eof(contents) == EndOfReadDirPlus(contents, last(contents))
  <2>1. PICK contents \in Listings(FromHandle(d)) :
          /\ SameDirectory(c, contents)
          /\ Page(c, contents, first(contents), last(contents), eof(contents))
          /\ ToHandles({Append(FromHandle(d), contents[i]) : i \in first(contents)..last(contents)})
    BY <1>4 DEF ReadDirPlus
  <2>2. at[c] = "listing" /\ dirCount >= 512 /\ maxCount >= 8 * 512 /\ UNCHANGED <<spare, look>>
    BY <1>4 DEF ReadDirPlus
  <2>3. contents \in Seq(Names) /\ first(contents) \in 1..(Len(contents) + 1)
    BY <2>1, <2>2, PageStart
  <2>. HIDE DEF first
  <2>4. /\ last(contents) \in (first(contents) - 1)..Len(contents)
        /\ last(contents) < first(contents) => first(contents) = Len(contents) + 1
    BY <2>2, <2>3, ReadDirPlusLast
  <2>5. eof(contents) => last(contents) = Len(contents) BY DEF EndOfReadDirPlus
  <2>. HIDE DEF last, eof
  <2>6. DOMAIN table' = Tree /\ \A h \in Tree : table'[h] = table[h] \/ table'[h] = h
    BY <2>1, EnteredHandles
  <2>7. QED BY <2>1, <2>2, <2>4, <2>5, <2>6, PageIInv DEF first, IInv
<1>5. QED BY <1>1, <1>2, <1>3, <1>4 DEF ListNext

-----------------------------------------------------------------------------
(* The theorems, where no directory has room *)

\* READ and the other procedures leave handles alone.
LEMMA ReadIInv == ASSUME IInv, AnyInv', NEW c \in Calls, ReadNext(c) PROVE IInv'
<1>1. ASSUME NEW f \in DOMAIN FileSize, StartRead(c, f) PROVE IInv'
  <2>1. Begin(c, NoLookup, NoList, [file |-> f, off |-> 0], NoReply, "reading") /\ UNCHANGED <<table, spare>>
    BY <1>1 DEF StartRead
  <2>2. look'[c] = NoLookup /\ at'[c] = "reading" => LookState(c)' BY NoLookState DEF InLookup
  <2>3. list'[c] = NoList /\ at'[c] = "reading" => ListState(c)' BY NoListState
  <2>4. QED BY <2>1, <2>2, <2>3, BeginStep DEF IInv
<1>2. ASSUME NEW count \in ReadCounts, Read(c, count) PROVE IInv'
  <2>1. /\ at'[c] \in {"reading", "wasRead", "error"} /\ \A d \in Calls \ {c} : at'[d] = at[d]
        /\ UNCHANGED <<table, spare, look, list>>
    BY <1>2 DEF Read, IInv, AnyInv
  <2>2. LookState(c)' /\ ListState(c)' BY <2>1 DEF IInv, LookState, ListState, InLookup
  <2>3. QED BY <2>1, <2>2, CallStep DEF IInv
<1>3. QED BY <1>1, <1>2 DEF ReadNext

\* The other procedures leave handles, lookups and listings alone.
LEMMA OtherIInv == ASSUME IInv, AnyInv', NEW c \in Calls, OtherNext(c) PROVE IInv'
<1>1. PICK r : Begin(c, NoLookup, NoList, NoRead, r, "done") /\ UNCHANGED <<table, spare>>
  BY DEF OtherNext, Answer, Access
<1>2. look'[c] = NoLookup /\ at'[c] = "done" => LookState(c)' BY NoLookState DEF InLookup
<1>3. list'[c] = NoList /\ at'[c] = "done" => ListState(c)' BY NoListState
<1>4. QED BY <1>1, <1>2, <1>3, BeginStep DEF IInv

\* The table is empty and no call has begun at first.
LEMMA InitIInv == ASSUME Init PROVE IInv
<1>1. AnyInv BY InitAny
<1>2. \A c \in Calls : LookState(c) BY DEF Init, LookState, NoLookup, InLookup
<1>3. Root \in DOMAIN Dirs /\ Len(Dirs[Root]) \in Nat /\ SubSeq(Dirs[Root], 1, 0) = <<>> /\ Len(<<>>) = 0
  BY NFSProcsAssumption, SubSeqEmpty
<1>4. ASSUME NEW c \in Calls PROVE ListState(c)
  <2>1. at[c] = "idle" /\ list[c] = NoList BY DEF Init
  <2>2. list[c] = [dir |-> Root, cookie |-> 0, verf |-> NoVerifier, seen |-> <<>>] BY <2>1 DEF NoList
  <2>3. QED BY <1>3, <2>1, <2>2 DEF ListState
<1>5. QED BY <1>1, <1>2, <1>4 DEF Init, IInv

\* Every step keeps the invariant, where no directory has room.
LEMMA NextIInv == ASSUME NoRoom, IInv, [Next]_vars PROVE IInv'
<1>1. AnyInv' BY NextAny DEF IInv
<1>2. ASSUME NEW c \in Calls, LookupNext(c) PROVE IInv'
  BY <1>1, <1>2, LookupIInv, LookupDotIInv, LookupStepIInv DEF LookupNext
<1>3. ASSUME NEW c \in Calls, ListNext(c) \/ ReadNext(c) \/ OtherNext(c) PROVE IInv'
  BY <1>1, <1>3, ListIInv, ReadIInv, OtherIInv
<1>4. CASE UNCHANGED vars BY <1>1, <1>4 DEF vars, IInv, LookState, ListState, Known
<1>5. QED BY <1>2, <1>3, <1>4 DEF Next

\* The invariant of handles, lookups and listings.
THEOREM InvariantIInv == ASSUME NoRoom PROVE Spec => []IInv
BY InitIInv, NextIInv, PTL DEF Spec

\* The types, and that a goroutine holds what its step needs.
THEOREM TypeCorrect == ASSUME NoRoom PROVE Spec => []TypeOK
<1>1. IInv => TypeOK
  <2>1. SUFFICES ASSUME IInv PROVE TypeOK OBVIOUS
  <2>2. \A h \in Tree : table[h] \in Tree \cup {NoPath} /\ spare[h] = NoName BY <2>1 DEF IInv
  <2>3. ASSUME NEW c \in Calls
        PROVE  /\ at[c] \in Steps
               /\ at[c] \in {"enter", "stat"} => look[c].handle # NoPath
               /\ Len(list[c].seen) <= Len(Dirs[list[c].dir])
               /\ at[c] \in {"reading", "wasRead"} => read[c].off \in 0..FileSize[read[c].file]
    <3>1. at[c] \in Steps /\ ReadState(c) /\ LookState(c) /\ ListState(c) BY <2>1 DEF IInv, AnyInv
    <3>2. at[c] \in {"enter", "stat"} => look[c].handle # NoPath
      BY <3>1, NFSProcsAssumption DEF LookState, InLookup
    <3>3. Len(list[c].seen) <= Len(Dirs[list[c].dir])
      <4>1. Len(Dirs[list[c].dir]) \in Nat /\ Len(list[c].seen) \in 0..Len(Dirs[list[c].dir])
        BY <3>1, NFSProcsAssumption DEF ListState
      <4>2. QED BY <4>1
    <3>4. QED BY <3>1, <3>2, <3>3 DEF ReadState
  <2>4. QED BY <2>2, <2>3 DEF TypeOK, Steps
<1>2. QED BY <1>1, InvariantIInv, PTL

\* The table maps every handle to the path that it is the hash of.
THEOREM HandlesMapTheirPaths == ASSUME NoRoom PROVE Spec => []HandleMapsItsPath
<1>1. IInv => HandleMapsItsPath BY DEF IInv, HandleMapsItsPath
<1>2. QED BY <1>1, InvariantIInv, PTL

\* A LOOKUP is answered with the handle and the attributes of the name it asked for.
THEOREM LookupsAnswerTheirNames == ASSUME NoRoom PROVE Spec => []LookupAnswersItsName
<1>1. IInv => LookupAnswersItsName BY DEF IInv, LookState, LookupAnswersItsName
<1>2. QED BY <1>1, InvariantIInv, PTL

\* Pages of any sizes, of either procedure, add up to the directory.
THEOREM ListingsAreWhole == ASSUME NoRoom PROVE Spec => []ListingIsWhole
<1>1. IInv => ListingIsWhole BY DEF IInv, ListState, ListingIsWhole
<1>2. QED BY <1>1, InvariantIInv, PTL

=============================================================================

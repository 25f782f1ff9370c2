------------------------------ MODULE NFSProcs ------------------------------
(***************************************************************************)
(* The NFS procedures over gomodfs (go-nfs/nfs_on*.go with billyFS and     *)
(* NFSHandler of nfs.go), as the goroutines of several requests run them   *)
(* at once.  They share the table of handles, and with it the slices of    *)
(* path segments that it holds: append(p, name) of such a slice writes to  *)
(* its array when the array has room for one more, where every other       *)
(* goroutine that appends to the same slice writes too.                    *)
(*                                                                         *)
(* A path is a sequence of names, and a handle is the path it is the hash  *)
(* of.  A read-only tree of modules is being served; what is in it does    *)
(* not change, but the store may fail to say.                              *)
(***************************************************************************)
EXTENDS Integers, Sequences, FiniteSets, FiniteSetsExt

CONSTANTS
  Calls,       \* goroutines of requests, and the clients that wait for them
  Names,
  Dirs,        \* Dirs[d]: the names in directory d, sorted; its domain are the directories
  NameLen,     \* NameLen[n]: the length of a name
  OpenSetName, \* ".vfs-openset-dir", which is listed and does not exist
  FileSize,    \* FileSize[f]: the length of file f; its domain are the files
  InZip,       \* the directories inside a module
  Roomy,       \* paths whose segments were cloned into an array with room for one more
  Windows,     \* Server.ForWindowsClients
  Counts, DirCounts, MaxCounts,   \* limits that clients give in READDIR and READDIRPLUS
  ReadCounts, MaxRead,            \* counts of READ, and the most that is returned
  Masks,       \* what clients ask for in ACCESS
  NoPath, NoName

Root == <<>>
Tree == DOMAIN Dirs \cup DOMAIN FileSize
IsDir(p) == p \in DOMAIN Dirs

ASSUME NFSProcsAssumption ==
  /\ \A d \in DOMAIN Dirs : Dirs[d] \in Seq(Names)
  /\ Root \in DOMAIN Dirs \ Roomy /\ InZip \subseteq DOMAIN Dirs \ {Root}
  /\ DOMAIN Dirs \cap DOMAIN FileSize = {}
  /\ NoPath \notin Tree /\ NoName \notin Names
  /\ \A d \in DOMAIN Dirs, n \in Names : Append(d, n) # NoPath
  /\ \A n \in Names : NameLen[n] \in Nat /\ NameLen[n] + 20 <= 512  \* PathNameMax is 255
  /\ \A f \in DOMAIN FileSize : FileSize[f] \in Nat
  /\ Counts \subseteq Nat /\ DirCounts \subseteq Nat /\ MaxCounts \subseteq Nat
  /\ ReadCounts \subseteq Nat \ {0}
  /\ MaxRead \in Nat \ {0}

VARIABLES
  table,     \* table[h]: the segments in FS.handle of handle h, NoPath if it is not there
  spare,     \* spare[h]: what is in the array after those segments, if it has room
  at,        \* at[c]: where the procedure of the goroutine is
  look,      \* look[c]: the LOOKUP of the goroutine, its slice and its results
  list,      \* list[c]: the directory that the client lists, page after page
  read,      \* read[c]: the file that the client reads, piece after piece
  reply      \* reply[c]: the reply of a procedure that changes no state

vars == <<table, spare, at, look, list, read, reply>>

NoLookup == [dir |-> Root, name |-> NoName, path |-> NoPath, handle |-> NoPath, attr |-> NoPath]
\* The verifier 0.
NoVerifier == [path |-> NoPath, names |-> <<>>, reversed |-> FALSE]

NoList == [dir |-> Root, cookie |-> 0, verf |-> NoVerifier, seen |-> <<>>]
NoRead == [file |-> NoPath, off |-> 0]
NoReply == [proc |-> "NULL", status |-> "OK", granted |-> {}]

Init ==
  /\ table = [h \in Tree |-> NoPath]
  /\ spare = [h \in Tree |-> NoName]
  /\ at = [c \in Calls |-> "idle"]
  /\ look = [c \in Calls |-> NoLookup]
  /\ list = [c \in Calls |-> NoList]
  /\ read = [c \in Calls |-> NoRead]
  /\ reply = [c \in Calls |-> NoReply]

-----------------------------------------------------------------------------
(* Handles *)

\* FromHandle: the root is nobody's entry.  Other handles are found in the table;
\* one that is not there is looked for in the store, see ModuleFetch.
Known(h) == h = Root \/ table[h] # NoPath
FromHandle(h) == IF h = Root THEN Root ELSE table[h]

\* ToHandle enters what it has not entered yet.  What does not exist has no entry.
ToHandles(paths) ==
  table' = [h \in Tree |-> IF h \in paths \ {Root} /\ table[h] = NoPath THEN h ELSE table[h]]

\* The slice p = FromHandle(h) is appended to in place.
HasRoom(h) == h # Root /\ table[h] \in Roomy

\* A client makes one call after the other, and forgets the one before.
Begin(c, lookup, listing, reading, replied, step) ==
  /\ at[c] \in {"idle", "done", "error", "listed", "wasRead"}
  /\ look' = [look EXCEPT ![c] = lookup]
  /\ list' = [list EXCEPT ![c] = listing]
  /\ read' = [read EXCEPT ![c] = reading]
  /\ reply' = [reply EXCEPT ![c] = replied]
  /\ at' = [at EXCEPT ![c] = step]

-----------------------------------------------------------------------------
(* LOOKUP *)

\* The call begins with the Lstat of its directory, which may download the module:
\* it fails, or it is that of a file, or the name is looked for.
Lookup(c, d, n) ==
  /\ Known(d)
  /\ \E step \in (IF IsDir(FromHandle(d)) THEN {"append", "error"} ELSE {"error"}) :
       Begin(c, [dir |-> d, name |-> n, path |-> NoPath, handle |-> NoPath, attr |-> NoPath],
             NoList, NoRead, NoReply, step)
  /\ UNCHANGED <<table, spare>>

\* ".", which is the directory itself, by the handle of the call.
LookupDot(c, d) ==
  LET p == FromHandle(d) IN
  /\ Known(d) /\ IsDir(p)
  /\ Begin(c, [dir |-> d, name |-> NoName, path |-> p, handle |-> d, attr |-> p],
           NoList, NoRead, NoReply, "done")
  /\ UNCHANGED <<table, spare>>

\* "..", by a slice of the same segments that is shorter by one.
LookupDotDot(c, d) ==
  LET p == FromHandle(d) IN
  /\ Known(d) /\ IsDir(p)
  /\ IF p = Root
       THEN Begin(c, NoLookup, NoList, NoRead, NoReply, "error") /\ UNCHANGED table
       ELSE LET pPath == SubSeq(p, 1, Len(p) - 1) IN
            /\ ToHandles({pPath})
            /\ Begin(c, [dir |-> d, name |-> NoName, path |-> pPath,
                         handle |-> pPath, attr |-> pPath], NoList, NoRead, NoReply, "done")
  /\ UNCHANGED spare

\* What the slice reqPath of the goroutine holds: its own copy of the segments and
\* the name, or the array of the table and whatever name was put there last.
ReqPath(c) ==
  IF look[c].path # NoPath
    THEN look[c].path
    ELSE Append(FromHandle(look[c].dir), spare[look[c].dir])

\* Mutant: the name is put after the segments of the table, wherever they are.
AppendNameInPlace(c) ==
  LET d == look[c].dir IN
  /\ at[c] = "append"
  /\ spare' = [spare EXCEPT ![d] = look[c].name]
  /\ at' = [at EXCEPT ![c] = "lstat"]
  /\ UNCHANGED <<table, look, list, read, reply>>

\* reqPath := append(p, name)
AppendName(c) ==
  LET d == look[c].dir IN
  /\ at[c] = "append"
  /\ IF HasRoom(d)
       THEN spare' = [spare EXCEPT ![d] = look[c].name] /\ UNCHANGED look
       ELSE /\ look' = [look EXCEPT ![c].path = Append(FromHandle(d), look[c].name)]
            /\ UNCHANGED spare
  /\ at' = [at EXCEPT ![c] = "lstat"]
  /\ UNCHANGED <<table, list, read, reply>>

\* Lstat of reqPath: not there, or the store fails.
LstatName(c) ==
  /\ at[c] = "lstat"
  /\ \/ ReqPath(c) \in Tree /\ at' = [at EXCEPT ![c] = "hash"]
     \/ at' = [at EXCEPT ![c] = "error"]
  /\ UNCHANGED <<table, spare, look, list, read, reply>>

\* ToHandle, first half: pathStr and its hash.
HashName(c) ==
  /\ at[c] = "hash"
  /\ look' = [look EXCEPT ![c].handle = ReqPath(c)]
  /\ at' = [at EXCEPT ![c] = "enter"]
  /\ UNCHANGED <<table, spare, list, read, reply>>

\* ToHandle, second half, under FS.mu: the segments are cloned.
EnterName(c) ==
  LET h == look[c].handle IN
  /\ at[c] = "enter"
  /\ table' = IF h \in Tree /\ table[h] = NoPath THEN [table EXCEPT ![h] = ReqPath(c)] ELSE table
  /\ at' = [at EXCEPT ![c] = "stat"]
  /\ UNCHANGED <<spare, look, list, read, reply>>

\* lookupSuccessResponse: the attributes of reqPath go into the reply.
RespondName(c) ==
  /\ at[c] = "stat"
  /\ look' = [look EXCEPT ![c].attr = ReqPath(c)]
  /\ at' = [at EXCEPT ![c] = "done"]
  /\ UNCHANGED <<table, spare, list, read, reply>>

-----------------------------------------------------------------------------
(* READDIR and READDIRPLUS *)

\* billyFS.ReadDir: a directory in a module drops the error of Store.Readdir, and
\* answers with no entries.
Listings(d) == {Dirs[d]} \cup (IF d \in InZip THEN {<<>>} ELSE {})

\* hashPathAndContents, of the path and the names.
Verifier(d, contents) == [path |-> d, names |-> contents, reversed |-> FALSE]

\* cookieVerifierEqual: some clients give the bytes of a verifier back reversed.
Reversed(v) == [v EXCEPT !.reversed = ~@]
CookieVerifierEqual(v, w) == v = w \/ Reversed(v) = w

SameDirectory(c, contents) ==
  list[c].cookie > 0 /\ list[c].verf # NoVerifier =>
    CookieVerifierEqual(Verifier(FromHandle(list[c].dir), contents), list[c].verf)

\* The last entry of a page from entry first on: 512 bytes an entry, and 100 more.
LastOfReadDir(contents, first, count) ==
  LET fit == {i \in first..Len(contents) : 100 + 512 * (i - first + 1) <= count}
  IN first - 1 + Cardinality(fit)

\* READDIRPLUS also counts the bytes of the names.
DirBytes(contents, entries) == MapThenSumSet(LAMBDA j : NameLen[contents[j]] + 20, entries)
LastOfReadDirPlus(contents, first, dirCount, maxCount) ==
  LET fit == {i \in first..Len(contents) :
                /\ DirBytes(contents, first..i) <= dirCount
                /\ 100 + 512 * (i - first + 1) <= maxCount}
  IN first - 1 + Cardinality(fit)

\* Mutant: the entry with the cookie itself is listed again.
FirstAt(contents, cookie) ==
  IF cookie = 0 THEN 1
  ELSE IF cookie - 1 \in DOMAIN contents THEN cookie - 1 ELSE Len(contents) + 1

\* The entry after the one with the cookie.  The cookie of entry i is its index (from
\* 0) plus 2, that is i + 1; a cookie that no entry has is past the end.
FirstAfter(contents, cookie) ==
  IF cookie = 0 THEN 1
  ELSE IF cookie - 1 \in DOMAIN contents THEN cookie ELSE Len(contents) + 1

\* The client takes the entries up to last, and keeps the cookie of the last one and
\* the verifier, in one form or the other.  It goes on until it is told the end, or a
\* page brings nothing, as one does after the end that was hidden from it.
Page(c, contents, first, last, eof) ==
  LET l == list[c]
      v == Verifier(FromHandle(l.dir), contents)
  IN
  /\ \E verf \in {v, Reversed(v)} :
       list' = [list EXCEPT ![c] =
         [dir |-> l.dir, cookie |-> IF last >= first THEN last + 1 ELSE l.cookie,
          verf |-> verf, seen |-> l.seen \o SubSeq(contents, first, last)]]
  /\ at' = [at EXCEPT ![c] = IF eof \/ last < first THEN "listed" ELSE "listing"]

\* The client begins with cookie 0 and no verifier.
StartList(c, d) ==
  /\ Known(d) /\ IsDir(d)
  /\ Begin(c, NoLookup, [NoList EXCEPT !.dir = d], NoRead, NoReply, "listing")
  /\ UNCHANGED <<table, spare>>

\* The limits are too small, getDirListingWithVerifier fails, or its verifier is not
\* that of the client (BadCookie): the client gives up.
ListFails(c) ==
  /\ at[c] = "listing"
  /\ at' = [at EXCEPT ![c] = "error"]
  /\ UNCHANGED <<table, spare, look, list, read, reply>>

\* onReadDir.  It appends each name to p for its file id, so that one of them may be
\* what another goroutine finds in the array.
ReadDir(c, count) ==
  LET d == list[c].dir IN
  /\ at[c] = "listing"
  /\ count >= 1024
  /\ IsDir(FromHandle(d))
  /\ \E contents \in Listings(FromHandle(d)) :
       LET first == FirstAfter(contents, list[c].cookie)
           last == LastOfReadDir(contents, first, count)
       IN /\ SameDirectory(c, contents)
          /\ Page(c, contents, first, last, last = Len(contents))
          /\ IF HasRoom(d) /\ first <= last
               THEN \E i \in first..last : spare' = [spare EXCEPT ![d] = contents[i]]
               ELSE UNCHANGED spare
  /\ UNCHANGED <<table, look, read, reply>>

\* READDIRPLUS hides the end of an open set from Windows clients.
EndOfReadDirPlus(contents, last) ==
  LET sawOpenSet == \E i \in 1..(last + 1) : i \in DOMAIN contents /\ contents[i] = OpenSetName
  IN last = Len(contents) /\ ~(sawOpenSet /\ Windows)

\* onReadDirPlus, which gives out the handles of the entries, each from a path of its
\* own (joinPath).
ReadDirPlus(c, dirCount, maxCount) ==
  LET d == list[c].dir IN
  /\ at[c] = "listing"
  /\ dirCount >= 512 /\ maxCount >= 8 * 512
  /\ IsDir(FromHandle(d))
  /\ \E contents \in Listings(FromHandle(d)) :
       LET first == FirstAfter(contents, list[c].cookie)
           last == LastOfReadDirPlus(contents, first, dirCount, maxCount)
       IN /\ SameDirectory(c, contents)
          /\ Page(c, contents, first, last, EndOfReadDirPlus(contents, last))
          /\ ToHandles({Append(FromHandle(d), contents[i]) : i \in first..last})
  /\ UNCHANGED <<spare, look, read, reply>>

-----------------------------------------------------------------------------
(* READ *)

Least(a, b) == IF a < b THEN a ELSE b

\* OnNFSRead of a file of the given length: how much data, and whether it is the end.
ReadData(size, off, count) == Least(size - Least(size, off), Least(count, MaxRead))

\* Mutant: the end is reported when less than was asked for is returned.
ReadEOFWhenShort(size, off, count) == ReadData(size, off, count) < count

ReadEOF(size, off, count) == off + ReadData(size, off, count) = size

\* READ goes by the path of the table entry, the string that was hashed, and not by
\* the segments.
StartRead(c, f) ==
  /\ Known(f)
  /\ Begin(c, NoLookup, NoList, [file |-> f, off |-> 0], NoReply, "reading")
  /\ UNCHANGED <<table, spare>>

\* The client reads on until it is told the end or gets nothing, or its read fails.
Read(c, count) ==
  LET size == FileSize[read[c].file]
      off == read[c].off
      data == ReadData(size, off, count)
  IN /\ at[c] = "reading"
     /\ \/ /\ read' = [read EXCEPT ![c].off = off + data]
           /\ at' = [at EXCEPT ![c] = IF ReadEOF(size, off, count) \/ data = 0
                                        THEN "wasRead" ELSE "reading"]
        \/ at' = [at EXCEPT ![c] = "error"] /\ UNCHANGED read
     /\ UNCHANGED <<table, spare, look, list, reply>>

-----------------------------------------------------------------------------
(* The procedures that leave the state alone.  On... is the set of the statuses *)
(* that a call with a known handle may be answered with, "panic" for a call that *)
(* gets as far as a method of billyFS that panics.  Arguments that do not parse *)
(* (INVAL) and unknown handles (STALE) are left out.                            *)

\* Mutant: billyFS claims the capability to write.
ClaimsToWrite == TRUE

\* billy.CapabilityCheck(fs, WriteCapability), from billyFS.Capabilities.
CanWrite == FALSE

\* billyFS.Stat, billyFS.OpenFile and billyFS.Readlink.
Panics == {"panic"}

OnCreate == {"NOTSUPP"} \cup IF CanWrite THEN {"NAMETOOLONG"} \cup Panics ELSE {"ROFS"}
OnWrite == IF CanWrite THEN {"FBIG", "INVAL"} \cup Panics ELSE {"ROFS"}
OnMkdir == IF CanWrite THEN {"NAMETOOLONG", "EXIST"} \cup Panics ELSE {"ROFS"}
OnSymlink == IF CanWrite THEN {"NAMETOOLONG"} \cup Panics ELSE {"ROFS"}
OnLink == IF CanWrite THEN {"NAMETOOLONG"} \cup Panics ELSE {"ROFS"}
OnRename == IF CanWrite THEN {"NAMETOOLONG"} \cup Panics ELSE {"ROFS"}
OnRemove == IF CanWrite THEN {"NAMETOOLONG"} \cup Panics ELSE {"ROFS"}

\* NFSHandler.Change is nil.
OnMknod == IF CanWrite THEN {"ACCES"} ELSE {"ROFS"}

\* SetFileAttributes.Apply without a Change: what is set already is no change, a size
\* is set by OpenFile.
Apply == {"NOENT", "ACCES", "OK", "NOTSUPP"} \cup Panics
OnSetAttr == {"NOENT", "ACCES", "NOTSYNC"} \cup IF CanWrite THEN Apply ELSE {"ROFS"}

OnCommit == IF CanWrite THEN {"OK"} ELSE {"SERVERFAULT"}

\* Lstat of the path, which may fail.  The others take the attributes if they get them.
OnGetAttr == {"OK", "NOENT", "IO"}
OnFSStat == {"OK"}
OnFSInfo == {"OK"}
OnPathConf == {"OK"}

\* onReadLink calls billyFS.Readlink whatever the handle is of.
OnReadLink == Panics

Changing ==
  [CREATE |-> OnCreate, WRITE |-> OnWrite, MKDIR |-> OnMkdir, SYMLINK |-> OnSymlink,
   LINK |-> OnLink, RENAME |-> OnRename, REMOVE |-> OnRemove, RMDIR |-> OnRemove,
   MKNOD |-> OnMknod, SETATTR |-> OnSetAttr, COMMIT |-> OnCommit]
Reading ==
  [GETATTR |-> OnGetAttr, FSSTAT |-> OnFSStat, FSINFO |-> OnFSInfo, PATHCONF |-> OnPathConf,
   READLINK |-> OnReadLink]

\* The handle of the call is known, and does not matter.
Answer(c, proc, statuses) ==
  /\ \E status \in statuses :
       Begin(c, NoLookup, NoList, NoRead, [proc |-> proc, status |-> status, granted |-> {}], "done")
  /\ UNCHANGED <<table, spare>>

\* onAccess: reading and looking up are granted to those who do not ask, and searching
\* where the attributes were read and are those of a directory.
Access(c, h, mask) ==
  LET may == IF CanWrite THEN mask ELSE mask \cap {"READ", "LOOKUP", "EXECUTE"} IN
  /\ Known(h)
  /\ \E search \in {{}, IF IsDir(FromHandle(h)) THEN {"EXECUTE"} ELSE {}} :
       Begin(c, NoLookup, NoList, NoRead,
             [proc |-> "ACCESS", status |-> "OK", granted |-> may \cup {"READ", "LOOKUP"} \cup search],
             "done")
  /\ UNCHANGED <<table, spare>>

-----------------------------------------------------------------------------
LookupNext(c) ==
  \/ \E d \in DOMAIN Dirs, n \in Names : Lookup(c, d, n)
  \/ \E d \in DOMAIN Dirs : LookupDot(c, d) \/ LookupDotDot(c, d)
  \/ AppendName(c) \/ LstatName(c) \/ HashName(c) \/ EnterName(c) \/ RespondName(c)

ListNext(c) ==
  \/ \E d \in DOMAIN Dirs : StartList(c, d)
  \/ ListFails(c)
  \/ \E count \in Counts : ReadDir(c, count)
  \/ \E dirCount \in DirCounts, maxCount \in MaxCounts : ReadDirPlus(c, dirCount, maxCount)

ReadNext(c) ==
  \/ \E f \in DOMAIN FileSize : StartRead(c, f)
  \/ \E count \in ReadCounts : Read(c, count)

OtherNext(c) ==
  \/ \E proc \in DOMAIN Changing : Answer(c, proc, Changing[proc])
  \/ \E proc \in DOMAIN Reading : Answer(c, proc, Reading[proc])
  \/ \E h \in Tree, mask \in Masks : Access(c, h, mask)

\* Nothing recovers from a panic: it ends the server, and every goroutine with it.
ServerRuns == \A c \in Calls : reply[c].status # "panic"

Next ==
  /\ ServerRuns
  /\ \E c \in Calls : LookupNext(c) \/ ListNext(c) \/ ReadNext(c) \/ OtherNext(c)

Spec == Init /\ [][Next]_vars

-----------------------------------------------------------------------------
(* Properties *)

\* The state has its shape, and a goroutine holds what the step it is at needs: a
\* handle once it was hashed, a file while it reads.
TypeOK ==
  /\ \A h \in Tree : table[h] \in Tree \cup {NoPath}
  /\ \A h \in Tree : spare[h] # NoName => table[h] \in Roomy
  /\ \A c \in Calls :
       /\ at[c] \in {"idle", "append", "lstat", "hash", "enter", "stat", "done", "error",
                     "listing", "listed", "reading", "wasRead"}
       /\ at[c] \in {"enter", "stat"} => look[c].handle # NoPath
       /\ at[c] \in {"listing", "listed"} => Len(list[c].seen) <= Len(Dirs[list[c].dir])
       /\ at[c] \in {"reading", "wasRead"} => read[c].off \in 0..FileSize[read[c].file]

\* The table maps a handle to the path that it was made from (FS.handle), however the
\* LOOKUPs that make handles of the same directory overlap.
HandleMapsItsPath == \A h \in Tree : table[h] \in {NoPath, h}

\* A LOOKUP is answered with the handle and the attributes of the name it asked for, not
\* with those of a name that another goroutine looks up in the directory (onLookup).
LookupAnswersItsName ==
  \A c \in Calls :
    at[c] = "done" /\ look[c].name # NoName =>
      look[c].handle = Append(look[c].dir, look[c].name) /\ look[c].attr = look[c].handle

\* Page after page a client sees a prefix of the directory, no entry twice and none left
\* out, whichever calls and limits it mixes.  At the end it has seen all of what the
\* verifier stands for: the directory, or nothing, where the store failed (the cookies
\* of onReadDir and onReadDirPlus).
ListingIsWhole ==
  \A c \in Calls :
    LET l == list[c] IN
    /\ l.seen = SubSeq(Dirs[l.dir], 1, Len(l.seen))
    /\ at[c] = "listed" => l.seen = l.verf.names /\ l.seen \in {Dirs[l.dir], <<>>}

\* A client that reads a file piece after piece, each as long as it likes, has the whole
\* file when it is told the end or is brought nothing (OnNFSRead).
ReadIsWhole ==
  \A c \in Calls : at[c] = "wasRead" => read[c].off = FileSize[read[c].file]

\* The procedures that would change something are refused: none of them succeeds, and
\* ACCESS grants no right to change.  Of all the procedures READLINK alone gets to a method
\* of billyFS that panics: those that are refused are refused before they call one.
ReadOnly ==
  \A c \in Calls :
    /\ reply[c].proc \in DOMAIN Changing => reply[c].status # "OK"
    /\ reply[c].status = "panic" => reply[c].proc = "READLINK"
    /\ reply[c].granted \cap {"MODIFY", "EXTEND", "DELETE"} = {}

=============================================================================

---------------------------- MODULE NFSConnProofs -----------------------------
(***************************************************************************)
(* Proofs about NFSConn, for any number of requests, whatever the sizes of *)
(* their fragments, and any limit of concurrent handlers.                  *)
(***************************************************************************)
EXTENDS NFSConn, FiniteSetTheorems, SequenceTheorems, TLAPS

-----------------------------------------------------------------------------
(* The inductive invariant *)

Types ==
  /\ unsent \subseteq Requests
  /\ inbox \in Seq([req : Requests, size : Nat, last : BOOLEAN])
  /\ eof \in BOOLEAN /\ open \in BOOLEAN /\ ctxDone \in BOOLEAN
  /\ serving \in {"read", "acquire", "cancel", "close", "returned"}
  /\ record \in [req : Requests \cup {NoRequest}, size : 0..MaxRPCSize]
  /\ handler \in [Requests -> {"none", "handle", "finish", "ended"}]
  /\ body \in [Requests -> {"empty", "reply", "error"}]
  /\ queue \in Seq(Reply)
  /\ writer \in {"waiting", "writing", "ended", "failed"}
  /\ wire \in Seq(Reply)

\* The semaphore bounds the goroutines, the channel the replies in it, and the writer
\* has a reply when it writes.
Bounded ==
  /\ IsFiniteSet(Busy) /\ Cardinality(Busy) <= ConcurrentHandlers
  /\ Queued <= ConcurrentHandlers
  /\ writer = "writing" => queue # <<>>

\* A request whose goroutine is not started is in one place: not sent, the last of its
\* fragments in the inbox, or in the hands of serve.
InOnePlace ==
  /\ \A r \in unsent : handler[r] = "none"
  /\ \A i \in 1..Len(inbox) : inbox[i].req \notin unsent
  /\ \A i \in 1..Len(inbox) : inbox[i].last => handler[inbox[i].req] = "none"
  /\ \A i, j \in 1..Len(inbox) :
       inbox[i].last /\ inbox[j].last /\ inbox[i].req = inbox[j].req => i = j
  /\ serving = "acquire" =>
       /\ record.req \in Requests \ unsent
       /\ handler[record.req] = "none"
       /\ \A i \in 1..Len(inbox) : inbox[i].last => inbox[i].req # record.req

\* The replies in the channel and on the wire are of goroutines that ended, each once.
RepliedOnce ==
  /\ \A i \in 1..Len(wire) : handler[wire[i].req] = "ended"
  /\ \A i \in 1..Len(queue) : handler[queue[i].req] = "ended"
  /\ \A i, j \in 1..Len(wire) : wire[i].req = wire[j].req => i = j
  /\ \A i, j \in 1..Len(queue) : queue[i].req = queue[j].req => i = j
  /\ \A i \in 1..Len(wire), j \in 1..Len(queue) : wire[i].req # queue[j].req

\* Nothing is empty unless the context was done when handle wrote it.
EmptyOnlyDone ==
  /\ \A r \in Requests : handler[r] = "finish" /\ body[r] = "empty" => ctxDone
  /\ \A i \in 1..Len(queue) : queue[i].body = "empty" => ctxDone
  /\ \A i \in 1..Len(wire) : wire[i].body = "empty" => ctxDone

IInv == Types /\ Bounded /\ InOnePlace /\ RepliedOnce /\ EmptyOnlyDone

-----------------------------------------------------------------------------
(* Facts about the operators *)

\* The semaphore: a goroutine that takes a slot, or keeps it, or gives it back.
LEMMA BusyAdd ==
  ASSUME Types, NEW r \in Requests, handler[r] = "none",
         IsFiniteSet(Busy), Cardinality(Busy) < ConcurrentHandlers,
         handler' = [handler EXCEPT ![r] = "handle"]
  PROVE  IsFiniteSet(Busy') /\ Cardinality(Busy') <= ConcurrentHandlers
<1>1. Busy' = Busy \cup {r} /\ r \notin Busy BY DEF Busy, Types
<1>2. Cardinality(Busy) \in Nat BY FS_CardinalityType
<1>3. IsFiniteSet(Busy') /\ Cardinality(Busy') = Cardinality(Busy) + 1 BY <1>1, FS_AddElement
<1>4. QED BY <1>2, <1>3, NFSConnAssumption

\* A handler that has replied and not ended is still counted.
LEMMA BusyKeep ==
  ASSUME Types, NEW r \in Requests, handler[r] = "handle",
         handler' = [handler EXCEPT ![r] = "finish"]
  PROVE  Busy' = Busy
BY DEF Busy, Types

\* A handler that ends makes room for another.
LEMMA BusyRemove ==
  ASSUME Types, NEW r \in Requests, handler[r] = "finish",
         IsFiniteSet(Busy), Cardinality(Busy) <= ConcurrentHandlers,
         handler' = [handler EXCEPT ![r] = "ended"]
  PROVE  IsFiniteSet(Busy') /\ Cardinality(Busy') <= ConcurrentHandlers
<1>1. Busy' = Busy \ {r} /\ r \in Busy BY DEF Busy, Types
<1>2. Cardinality(Busy) \in Nat BY FS_CardinalityType
<1>3. IsFiniteSet(Busy') /\ Cardinality(Busy') = Cardinality(Busy) - 1 BY <1>1, FS_RemoveElement
<1>4. QED BY <1>2, <1>3, NFSConnAssumption

\* The fragments of a record: only the last one is marked.
LEMMA FragmentFacts ==
  ASSUME NEW r \in Requests
  PROVE  /\ FragmentsOf(r) \in Seq([req : Requests, size : Nat, last : BOOLEAN])
         /\ \A i \in 1..Len(FragmentsOf(r)) : FragmentsOf(r)[i].req = r
         /\ \A i \in 1..Len(FragmentsOf(r)) :
              FragmentsOf(r)[i].last => i = Len(FragmentsOf(r))
<1>1. Fragments[r] \in Seq(Nat) BY NFSConnAssumption
<1>2. PICK n \in Nat : DOMAIN Fragments[r] = 1..n /\ Len(Fragments[r]) = n BY <1>1
<1>3. FragmentsOf(r) = [i \in 1..n |-> [req |-> r, size |-> Fragments[r][i], last |-> i = n]]
  BY <1>2 DEF FragmentsOf
<1>4. \A i \in 1..n : [req |-> r, size |-> Fragments[r][i], last |-> i = n]
                        \in [req : Requests, size : Nat, last : BOOLEAN]
  BY <1>1, <1>2
<1>5. FragmentsOf(r) \in Seq([req : Requests, size : Nat, last : BOOLEAN]) /\ Len(FragmentsOf(r)) = n
  BY <1>3, <1>4
<1>6. \A i \in 1..n : FragmentsOf(r)[i] = [req |-> r, size |-> Fragments[r][i], last |-> i = n]
  BY <1>3
<1>7. \A i \in 1..n : FragmentsOf(r)[i].req = r /\ (FragmentsOf(r)[i].last => i = n)
  <2>1. TAKE i \in 1..n
  <2>2. PICK b \in BOOLEAN : b = (i = n) BY Zenon
  <2>3. FragmentsOf(r)[i] = [req |-> r, size |-> Fragments[r][i], last |-> b]
    BY <1>6, <2>2, Zenon
  <2>4. FragmentsOf(r)[i].req = r /\ FragmentsOf(r)[i].last = b BY <2>3
  <2>5. QED BY <2>2, <2>4, Zenon
<1>8. QED BY <1>5, <1>7

\* Fragments and replies are of requests.
LEMMA ReqTypes ==
  ASSUME Types
  PROVE  /\ \A i \in 1..Len(inbox) : inbox[i].req \in Requests
         /\ \A i \in 1..Len(wire) : wire[i].req \in Requests
         /\ \A i \in 1..Len(queue) : queue[i].req \in Requests
<1>1. \A i \in 1..Len(inbox) : inbox[i] \in [req : Requests, size : Nat, last : BOOLEAN]
  BY ElementOfSeq DEF Types
<1>2. \A i \in 1..Len(wire) : wire[i] \in Reply BY ElementOfSeq DEF Types
<1>3. \A i \in 1..Len(queue) : queue[i] \in Reply BY ElementOfSeq DEF Types
<1>4. QED BY <1>1, <1>2, <1>3 DEF Reply

\* The elements of a sequence without its first one.
LEMMA TailFacts ==
  ASSUME NEW S, NEW s \in Seq(S), s # <<>>
  PROVE  /\ Tail(s) \in Seq(S) /\ Head(s) \in S /\ Head(s) = s[1]
         /\ Len(s) \in Nat \ {0} /\ Len(Tail(s)) = Len(s) - 1
         /\ \A i \in 1..Len(Tail(s)) : Tail(s)[i] = s[i + 1] /\ i + 1 \in 1..Len(s)
OBVIOUS

\* A step that leaves the requests and the replies where they are.
LEMMA Unmoved ==
  ASSUME IInv, Types', UNCHANGED <<unsent, inbox, handlerVars, writeVars>>,
         ctxDone => ctxDone', serving' # "acquire"
  PROVE  IInv'
BY DEF IInv, Bounded, Busy, Queued, InOnePlace, RepliedOnce, EmptyOnlyDone, handlerVars,
       writeVars

-----------------------------------------------------------------------------
(* The steps *)

\* The client sends a record: it is not sent any more, and its fragments are in the inbox.
LEMMA SendIInv == ASSUME IInv, NEW r \in Requests, Send(r) PROVE IInv'
<1>. USE DEF Send, handlerVars, writeVars
<1>. DEFINE F == [req : Requests, size : Nat, last : BOOLEAN]
            fs == FragmentsOf(r)
<1>1. /\ fs \in Seq(F) /\ \A i \in 1..Len(fs) : fs[i].req = r
      /\ \A i \in 1..Len(fs) : fs[i].last => i = Len(fs)
  BY FragmentFacts
<1>2. inbox \in Seq(F) BY DEF IInv, Types
<1>. HIDE DEF fs, F
<1>3. /\ inbox \o fs \in Seq(F) /\ Len(inbox) \in Nat /\ Len(fs) \in Nat
      /\ Len(inbox \o fs) = Len(inbox) + Len(fs)
      /\ \A i \in 1..Len(inbox) + Len(fs) :
           (inbox \o fs)[i] = IF i <= Len(inbox) THEN inbox[i] ELSE fs[i - Len(inbox)]
  BY <1>1, <1>2, ConcatProperties
<1>4. inbox' = inbox \o fs BY DEF fs
<1>5. Types' BY <1>3, <1>4 DEF IInv, Types, F
<1>6. /\ Len(inbox') = Len(inbox) + Len(fs)
      /\ \A i \in 1..Len(inbox') :
           \/ i \in 1..Len(inbox) /\ inbox'[i] = inbox[i]
           \/ i - Len(inbox) \in 1..Len(fs) /\ inbox'[i] = fs[i - Len(inbox)]
  BY <1>3, <1>4
<1>7. \A i \in 1..Len(inbox) : inbox[i].req # r BY DEF IInv, InOnePlace
<1>8. InOnePlace'
  <2>1. \A q \in unsent' : handler'[q] = "none" BY DEF IInv, InOnePlace
  <2>2. \A i \in 1..Len(inbox') : inbox'[i].req \notin unsent'
    BY <1>1, <1>6 DEF IInv, InOnePlace
  <2>3. \A i \in 1..Len(inbox') : inbox'[i].last => handler'[inbox'[i].req] = "none"
    BY <1>1, <1>6 DEF IInv, InOnePlace
  <2>4. ASSUME NEW i \in 1..Len(inbox'), NEW j \in 1..Len(inbox'),
               inbox'[i].last, inbox'[j].last, inbox'[i].req = inbox'[j].req
        PROVE  i = j
    <3>1. CASE i \in 1..Len(inbox) /\ inbox'[i] = inbox[i]
      <4>1. inbox'[j].req # r BY <1>7, <2>4, <3>1
      <4>2. j \in 1..Len(inbox) /\ inbox'[j] = inbox[j] BY <1>1, <1>6, <4>1
      <4>3. QED BY <2>4, <3>1, <4>2 DEF IInv, InOnePlace
    <3>2. CASE i - Len(inbox) \in 1..Len(fs) /\ inbox'[i] = fs[i - Len(inbox)]
      <4>1. inbox'[j].req = r BY <1>1, <2>4, <3>2
      <4>2. j - Len(inbox) \in 1..Len(fs) /\ inbox'[j] = fs[j - Len(inbox)] BY <1>6, <1>7, <4>1
      <4>3. i - Len(inbox) = Len(fs) /\ j - Len(inbox) = Len(fs) BY <1>1, <2>4, <3>2, <4>2
      <4>4. QED BY <1>3, <4>3
    <3>3. QED BY <1>6, <3>1, <3>2
  <2>5. serving' = "acquire" =>
          /\ record'.req \in Requests \ unsent' /\ handler'[record'.req] = "none"
          /\ \A i \in 1..Len(inbox') : inbox'[i].last => inbox'[i].req # record'.req
    BY <1>1, <1>6 DEF IInv, InOnePlace
  <2>6. QED BY <2>1, <2>2, <2>3, <2>4, <2>5 DEF InOnePlace
<1>9. Bounded' /\ RepliedOnce' /\ EmptyOnlyDone'
  BY DEF IInv, Bounded, Busy, Queued, RepliedOnce, EmptyOnlyDone
<1>10. QED BY <1>5, <1>8, <1>9 DEF IInv

\* The client leaves, and the end of what it sent is lost.
LEMMA LeaveIInv == ASSUME IInv, Leave PROVE IInv'
<1>. USE DEF Leave, handlerVars, writeVars
<1>. DEFINE F == [req : Requests, size : Nat, last : BOOLEAN]
<1>1. inbox \in Seq(F) BY DEF IInv, Types
<1>. HIDE DEF F
<1>2. PICK n \in 0..Len(inbox) : inbox' = SubSeq(inbox, 1, n) OBVIOUS
<1>3. inbox' \in Seq(F) /\ Len(inbox') = n /\ \A i \in 1..n : inbox'[i] = inbox[i]
  BY <1>1, <1>2
<1>4. \A i \in 1..Len(inbox') : i \in 1..Len(inbox) /\ inbox'[i] = inbox[i] BY <1>1, <1>3
<1>5. Types' BY <1>3 DEF IInv, Types, F
<1>6. InOnePlace'
  <2>1. UNCHANGED <<unsent, serving, record, handler>> OBVIOUS
  <2>2. \A i, j \in 1..Len(inbox') :
          inbox'[i].last /\ inbox'[j].last /\ inbox'[i].req = inbox'[j].req => i = j
    <3>1. \A i, j \in 1..Len(inbox) :
            inbox[i].last /\ inbox[j].last /\ inbox[i].req = inbox[j].req => i = j
      BY DEF IInv, InOnePlace
    <3>2. QED BY <1>4, <3>1, Zenon
  <2>3. QED BY <1>4, <2>1, <2>2 DEF IInv, InOnePlace
<1>7. Bounded' /\ RepliedOnce' /\ EmptyOnlyDone'
  BY DEF IInv, Bounded, Busy, Queued, RepliedOnce, EmptyOnlyDone
<1>8. QED BY <1>5, <1>6, <1>7 DEF IInv

\* serve takes a fragment; with the last one of a record it has the request.
LEMMA ReadFragmentIInv == ASSUME IInv, ReadFragment PROVE IInv'
<1>. USE DEF handlerVars, writeVars
<1>. DEFINE F == [req : Requests, size : Nat, last : BOOLEAN]
            f == Head(inbox)
            size == record.size + f.size
<1>1. /\ serving = "read" /\ inbox # <<>> /\ inbox' = Tail(inbox)
      /\ UNCHANGED <<unsent, eof, open, ctxDone, handlerVars, writeVars>>
  BY DEF ReadFragment
<1>2. \/ serving' = "cancel" /\ record' = NoRecord
      \/ serving' = "read" /\ record' = [req |-> f.req, size |-> size] /\ size <= MaxRPCSize
      \/ /\ serving' = "acquire" /\ record' = [req |-> f.req, size |-> size]
         /\ size <= MaxRPCSize /\ f.last
  BY DEF ReadFragment
<1>3. inbox \in Seq(F) BY DEF IInv, Types
<1>4. /\ inbox' \in Seq(F) /\ f \in F /\ f = inbox[1]
      /\ Len(inbox) \in Nat \ {0}
      /\ \A i \in 1..Len(inbox') : inbox'[i] = inbox[i + 1] /\ i + 1 \in 1..Len(inbox)
  BY <1>1, <1>3, TailFacts
<1>5. record' \in [req : Requests \cup {NoRequest}, size : 0..MaxRPCSize]
  <2>1. size \in Nat /\ f.req \in Requests BY <1>4 DEF IInv, Types
  <2>2. NoRecord \in [req : Requests \cup {NoRequest}, size : 0..MaxRPCSize]
    BY NFSConnAssumption DEF NoRecord
  <2>3. QED BY <1>2, <2>1, <2>2, NFSConnAssumption
<1>6. Types' BY <1>1, <1>2, <1>4, <1>5 DEF IInv, Types
<1>7. InOnePlace'
  <2>1. ASSUME serving' = "acquire"
        PROVE  /\ record'.req \in Requests \ unsent' /\ handler'[record'.req] = "none"
               /\ \A i \in 1..Len(inbox') : inbox'[i].last => inbox'[i].req # record'.req
    <3>1. record'.req = inbox[1].req /\ inbox[1].last /\ 1 \in 1..Len(inbox)
      BY <1>2, <1>4, <2>1
    <3>2. inbox[1].req \in Requests \ unsent /\ handler[inbox[1].req] = "none"
      BY <1>4, <3>1 DEF IInv, InOnePlace
    <3>3. \A i \in 1..Len(inbox') : inbox'[i].last => inbox'[i].req # inbox[1].req
      BY <1>4, <3>1 DEF IInv, InOnePlace
    <3>4. QED BY <1>1, <3>1, <3>2, <3>3
  <2>2. \A i \in 1..Len(inbox') : inbox'[i].req \notin unsent'
    BY <1>1, <1>4 DEF IInv, InOnePlace
  <2>3. \A i \in 1..Len(inbox') : inbox'[i].last => handler'[inbox'[i].req] = "none"
    BY <1>1, <1>4 DEF IInv, InOnePlace
  <2>4. \A i, j \in 1..Len(inbox') :
          inbox'[i].last /\ inbox'[j].last /\ inbox'[i].req = inbox'[j].req => i = j
    <3>1. SUFFICES ASSUME NEW i \in 1..Len(inbox'), NEW j \in 1..Len(inbox'),
                          inbox'[i].last, inbox'[j].last, inbox'[i].req = inbox'[j].req
                   PROVE  i = j
      OBVIOUS
    <3>2. /\ inbox'[i] = inbox[i + 1] /\ i + 1 \in 1..Len(inbox)
          /\ inbox'[j] = inbox[j + 1] /\ j + 1 \in 1..Len(inbox)
      BY <1>4
    <3>3. i + 1 = j + 1 BY <3>1, <3>2, Zenon DEF IInv, InOnePlace
    <3>4. QED BY <3>3
  <2>5. \A q \in unsent' : handler'[q] = "none" BY <1>1 DEF IInv, InOnePlace
  <2>6. QED BY <2>1, <2>2, <2>3, <2>4, <2>5 DEF InOnePlace
<1>8. Bounded' /\ RepliedOnce' /\ EmptyOnlyDone'
  BY <1>1 DEF IInv, Bounded, Busy, Queued, RepliedOnce, EmptyOnlyDone
<1>9. QED BY <1>6, <1>7, <1>8 DEF IInv

\* serve stops reading, cancels the context, closes the connection.
LEMMA EndIInv ==
  ASSUME IInv, ReadEOF \/ Cancel \/ Close PROVE IInv'
<1>. USE DEF ReadEOF, Cancel, Close, handlerVars, writeVars
<1>1. record' \in [req : Requests \cup {NoRequest}, size : 0..MaxRPCSize]
  <2>1. NoRecord \in [req : Requests \cup {NoRequest}, size : 0..MaxRPCSize]
    BY NFSConnAssumption DEF NoRecord
  <2>2. QED BY <2>1 DEF IInv, Types
<1>2. Types' BY <1>1 DEF IInv, Types
<1>3. UNCHANGED <<unsent, inbox, handlerVars, writeVars>> OBVIOUS
<1>4. ctxDone => ctxDone' BY Zenon
<1>5. serving' # "acquire" OBVIOUS
<1>. HIDE DEF handlerVars, writeVars, ReadEOF, Cancel, Close
<1>6. QED BY <1>2, <1>3, <1>4, <1>5, Unmoved

\* The request that serve holds gets a goroutine and a slot.
LEMMA StartHandlerIInv == ASSUME IInv, StartHandler PROVE IInv'
<1>. USE DEF StartHandler, writeVars
<1>. DEFINE r == record.req
<1>1. /\ Types /\ r \in Requests \ unsent /\ handler[r] = "none"
      /\ \A i \in 1..Len(inbox) : inbox[i].last => inbox[i].req # r
  BY DEF IInv, InOnePlace
<1>2. Types' BY <1>1, NFSConnAssumption DEF Types, NoRecord
<1>3. handler' = [handler EXCEPT ![r] = "handle"] OBVIOUS
<1>4. Bounded' BY <1>1, <1>3, BusyAdd DEF IInv, Bounded, Queued
<1>5. handler'[r] = "handle" /\ \A q \in Requests : q # r => handler'[q] = handler[q]
  BY <1>1, <1>3 DEF Types
<1>6. InOnePlace'
  <2>1. \A i \in 1..Len(inbox) : inbox[i].req \in Requests BY <1>1, ReqTypes
  <2>2. \A q \in unsent : q \in Requests /\ q # r BY <1>1 DEF Types
  <2>3. QED BY <1>1, <1>5, <2>1, <2>2 DEF IInv, InOnePlace
<1>7. RepliedOnce'
  <2>1. \A i \in 1..Len(wire) : wire[i].req \in Requests BY <1>1, ReqTypes
  <2>2. \A i \in 1..Len(queue) : queue[i].req \in Requests BY <1>1, ReqTypes
  <2>3. QED BY <1>1, <1>5, <2>1, <2>2 DEF IInv, RepliedOnce
<1>8. EmptyOnlyDone' BY <1>5 DEF IInv, EmptyOnlyDone
<1>9. QED BY <1>2, <1>4, <1>6, <1>7, <1>8 DEF IInv

\* The goroutine moves, and stays away from requests that are not started and replies
\* that were sent.
LEMMA HandlerMoves ==
  ASSUME IInv, NEW r \in Requests, handler[r] \in {"handle", "finish"}, NEW st \in {"finish", "ended"},
         handler' = [handler EXCEPT ![r] = st], UNCHANGED <<unsent, readVars>>
  PROVE  /\ InOnePlace'
         /\ \A i \in 1..Len(wire) : wire[i].req # r /\ handler'[wire[i].req] = "ended"
         /\ \A i \in 1..Len(queue) : queue[i].req # r /\ handler'[queue[i].req] = "ended"
         /\ handler'[r] = st /\ \A q \in Requests : q # r => handler'[q] = handler[q]
<1>1. Types BY DEF IInv
<1>2. handler'[r] = st /\ \A q \in Requests : q # r => handler'[q] = handler[q] BY <1>1 DEF Types
<1>3. InOnePlace'
  <2>1. \A i \in 1..Len(inbox) : inbox[i].req \in Requests BY <1>1, ReqTypes
  <2>2. unsent \subseteq Requests BY <1>1 DEF Types
  <2>3. QED BY <1>2, <2>1, <2>2 DEF IInv, InOnePlace, readVars
<1>4. \A i \in 1..Len(wire) : wire[i].req \in Requests BY <1>1, ReqTypes
<1>5. \A i \in 1..Len(queue) : queue[i].req \in Requests BY <1>1, ReqTypes
<1>6. QED BY <1>2, <1>3, <1>4, <1>5 DEF IInv, RepliedOnce

\* The procedure has answered, or an error was written for it.
LEMMA HandleIInv == ASSUME IInv, NEW r \in Requests, Handle(r) PROVE IInv'
<1>. USE DEF Handle, writeVars
<1>1. Types /\ UNCHANGED <<unsent, readVars, eof, open, ctxDone, queue, writer, wire>>
  BY DEF IInv
<1>2. PICK b \in {"reply", ErrorBody} : body' = [body EXCEPT ![r] = b] OBVIOUS
<1>3. b \in {"empty", "reply", "error"} /\ (b = "empty" => ctxDone) BY <1>2 DEF ErrorBody
<1>4. handler' = [handler EXCEPT ![r] = "finish"] OBVIOUS
<1>5. Types' BY <1>1, <1>2, <1>3, <1>4 DEF Types, readVars
<1>6. Bounded' BY <1>1, <1>4, BusyKeep DEF IInv, Bounded, Queued
<1>7. /\ InOnePlace'
      /\ \A i \in 1..Len(wire) : wire[i].req # r /\ handler'[wire[i].req] = "ended"
      /\ \A i \in 1..Len(queue) : queue[i].req # r /\ handler'[queue[i].req] = "ended"
      /\ handler'[r] = "finish" /\ \A q \in Requests : q # r => handler'[q] = handler[q]
  BY <1>1, <1>4, HandlerMoves
<1>8. RepliedOnce' BY <1>1, <1>7 DEF IInv, RepliedOnce
<1>9. EmptyOnlyDone'
  <2>1. body'[r] = b /\ \A q \in Requests : q # r => body'[q] = body[q] BY <1>1, <1>2 DEF Types
  <2>2. QED BY <1>1, <1>3, <1>7, <2>1 DEF IInv, EmptyOnlyDone
<1>10. QED BY <1>5, <1>6, <1>7, <1>8, <1>9 DEF IInv

\* The reply goes into the channel.
LEMMA FinishIInv == ASSUME IInv, NEW r \in Requests, Finish(r) PROVE IInv'
<1>. USE DEF Finish
<1>. DEFINE e == [req |-> r, body |-> body[r]]
<1>1. Types /\ UNCHANGED <<unsent, readVars, eof, open, ctxDone, body, writer, wire>>
  BY DEF IInv
<1>2. e \in Reply /\ queue \in Seq(Reply) /\ e.req = r /\ e.body = body[r] BY <1>1 DEF Types, Reply
<1>3. queue' = Append(queue, e) /\ handler' = [handler EXCEPT ![r] = "ended"] OBVIOUS
<1>. HIDE DEF e, Finish
<1>4. /\ queue' \in Seq(Reply) /\ Len(queue') = Len(queue) + 1 /\ Len(queue) \in Nat
      /\ \A i \in 1..Len(queue') : \/ i \in 1..Len(queue) /\ queue'[i] = queue[i]
                                   \/ i = Len(queue) + 1 /\ queue'[i] = e
  BY <1>2, <1>3, AppendProperties
<1>5. Types' BY <1>1, <1>3, <1>4 DEF Types, readVars
<1>6. /\ InOnePlace'
      /\ \A i \in 1..Len(wire) : wire[i].req # r /\ handler'[wire[i].req] = "ended"
      /\ \A i \in 1..Len(queue) : queue[i].req # r /\ handler'[queue[i].req] = "ended"
      /\ handler'[r] = "ended" /\ \A q \in Requests : q # r => handler'[q] = handler[q]
  BY <1>1, <1>3, HandlerMoves DEF Finish
<1>7. Bounded'
  <2>1. IsFiniteSet(Busy') /\ Cardinality(Busy') <= ConcurrentHandlers
    BY <1>1, <1>3, BusyRemove DEF IInv, Bounded, Finish
  <2>2. Queued' = Queued + 1 /\ Queued \in Int BY <1>1, <1>4 DEF Queued
  <2>3. Queued' <= ConcurrentHandlers BY <2>2, NFSConnAssumption DEF Finish
  <2>4. queue' # <<>> BY <1>4
  <2>5. QED BY <2>1, <2>3, <2>4 DEF Bounded
<1>8. RepliedOnce'
  <2>1. \A i, j \in 1..Len(queue') : queue'[i].req = queue'[j].req => i = j
    BY <1>2, <1>4, <1>6 DEF IInv, RepliedOnce
  <2>2. \A i \in 1..Len(queue') : handler'[queue'[i].req] = "ended" BY <1>2, <1>4, <1>6
  <2>3. \A i \in 1..Len(wire), j \in 1..Len(queue') : wire[i].req # queue'[j].req
    BY <1>2, <1>4, <1>6 DEF IInv, RepliedOnce
  <2>4. \A i, j \in 1..Len(wire) : wire[i].req = wire[j].req => i = j BY DEF IInv, RepliedOnce
  <2>5. wire' = wire BY <1>1
  <2>6. QED BY <1>6, <2>1, <2>2, <2>3, <2>4, <2>5 DEF RepliedOnce
<1>9. EmptyOnlyDone'
  <2>1. e.body = "empty" => ctxDone BY <1>2 DEF IInv, EmptyOnlyDone, Finish
  <2>2. QED BY <1>1, <1>4, <1>6, <2>1 DEF IInv, EmptyOnlyDone
<1>10. QED BY <1>5, <1>6, <1>7, <1>8, <1>9 DEF IInv

\* The reply is dropped, the context is done.
LEMMA GiveUpIInv == ASSUME IInv, NEW r \in Requests, GiveUp(r) PROVE IInv'
<1>. USE DEF GiveUp, writeVars
<1>1. Types /\ UNCHANGED <<unsent, readVars, eof, open, ctxDone, body, queue, writer, wire>>
  BY DEF IInv
<1>2. handler' = [handler EXCEPT ![r] = "ended"] OBVIOUS
<1>3. Types' BY <1>1, <1>2 DEF Types, readVars
<1>4. Bounded' BY <1>1, <1>2, BusyRemove DEF IInv, Bounded, Queued
<1>5. /\ InOnePlace'
      /\ \A i \in 1..Len(wire) : wire[i].req # r /\ handler'[wire[i].req] = "ended"
      /\ \A i \in 1..Len(queue) : queue[i].req # r /\ handler'[queue[i].req] = "ended"
  BY <1>1, <1>2, HandlerMoves
<1>6. RepliedOnce' BY <1>1, <1>5 DEF IInv, RepliedOnce
<1>7. EmptyOnlyDone' BY <1>1 DEF IInv, EmptyOnlyDone
<1>8. QED BY <1>3, <1>4, <1>5, <1>6, <1>7 DEF IInv

\* The writer takes a reply, and the channel holds one less.
LEMMA TakeReplyIInv == ASSUME IInv, TakeReply PROVE IInv'
<1>. USE DEF TakeReply, readVars, handlerVars
<1>1. Types' BY DEF IInv, Types
<1>2. Bounded'
  <2>1. Queued' = Len(queue) - 1 /\ Queued = Len(queue) BY DEF Queued
  <2>2. Len(queue) \in Nat BY DEF IInv, Types
  <2>3. Queued' <= ConcurrentHandlers BY <2>1, <2>2, NFSConnAssumption DEF IInv, Bounded
  <2>4. QED BY <2>3 DEF IInv, Bounded, Busy
<1>3. QED BY <1>1, <1>2 DEF IInv, InOnePlace, RepliedOnce, EmptyOnlyDone

\* The reply that the writer has is written or lost: none is in both places.
LEMMA WriteIInv == ASSUME IInv, WriteReply \/ WriteFails PROVE IInv'
<1>. DEFINE e == Head(queue)
<1>1. /\ Types /\ queue # <<>> /\ queue' = Tail(queue)
      /\ UNCHANGED <<unsent, readVars, eof, open, ctxDone, handlerVars>>
      /\ writer = "writing" /\ writer' \in {"waiting", "failed"}
      /\ wire' = Append(wire, e) \/ wire' = wire
  BY DEF IInv, Bounded, WriteReply, WriteFails
<1>2. queue \in Seq(Reply) /\ wire \in Seq(Reply) BY <1>1 DEF Types
<1>3. /\ queue' \in Seq(Reply) /\ e \in Reply /\ e = queue[1]
      /\ Len(queue) \in Nat \ {0} /\ Len(queue') = Len(queue) - 1
      /\ \A i \in 1..Len(queue') : queue'[i] = queue[i + 1] /\ i + 1 \in 1..Len(queue)
  BY <1>1, <1>2, TailFacts
<1>. HIDE DEF e
<1>4. /\ wire' \in Seq(Reply) /\ Len(wire) \in Nat
      /\ \A i \in 1..Len(wire') : \/ i \in 1..Len(wire) /\ wire'[i] = wire[i]
                                  \/ i = Len(wire) + 1 /\ wire'[i] = queue[1]
  <2>1. CASE wire' = wire BY <1>2, <2>1
  <2>2. CASE wire' = Append(wire, e)
    <3>1. /\ Append(wire, e) \in Seq(Reply) /\ Len(Append(wire, e)) = Len(wire) + 1
          /\ \A i \in 1..Len(wire) : Append(wire, e)[i] = wire[i]
          /\ Append(wire, e)[Len(wire) + 1] = e
      BY <1>2, <1>3, AppendProperties
    <3>2. Len(wire) \in Nat BY <1>2
    <3>3. QED BY <1>3, <2>2, <3>1, <3>2
  <2>3. QED BY <1>1, <2>1, <2>2
<1>5. Types' BY <1>1, <1>3, <1>4 DEF Types, readVars, handlerVars
<1>6. InOnePlace' BY <1>1 DEF IInv, InOnePlace, readVars, handlerVars
<1>7. Bounded'
  <2>1. Queued = Len(queue) - 1 BY <1>1 DEF Queued
  <2>2. Queued' = Len(queue') - 0 BY <1>1 DEF Queued
  <2>3. Queued' = Queued BY <1>3, <2>1, <2>2
  <2>4. QED BY <1>1, <2>3 DEF IInv, Bounded, Busy, handlerVars
<1>8. 1 \in 1..Len(queue) BY <1>3
<1>9. RepliedOnce'
  <2>1. \A i \in 1..Len(wire') : handler'[wire'[i].req] = "ended"
    BY <1>1, <1>4, <1>8 DEF IInv, RepliedOnce, handlerVars
  <2>2. \A i \in 1..Len(queue') : handler'[queue'[i].req] = "ended"
    BY <1>1, <1>3 DEF IInv, RepliedOnce, handlerVars
  <2>3. \A i, j \in 1..Len(wire') : wire'[i].req = wire'[j].req => i = j
    BY <1>4, <1>8 DEF IInv, RepliedOnce
  <2>4. \A i, j \in 1..Len(queue') : queue'[i].req = queue'[j].req => i = j
    <3>1. \A i, j \in 1..Len(queue') : queue'[i].req = queue'[j].req => i + 1 = j + 1
      BY <1>3 DEF IInv, RepliedOnce
    <3>2. QED BY <3>1
  <2>5. \A i \in 1..Len(wire'), j \in 1..Len(queue') : wire'[i].req # queue'[j].req
    <3>1. \A j \in 1..Len(queue') : queue'[j].req # queue[1].req
      <4>1. SUFFICES ASSUME NEW j \in 1..Len(queue') PROVE queue[j + 1].req # queue[1].req BY <1>3
      <4>2. j + 1 # 1 /\ j + 1 \in 1..Len(queue) BY <1>3
      <4>3. QED BY <1>8, <4>2 DEF IInv, RepliedOnce
    <3>2. \A i \in 1..Len(wire), j \in 1..Len(queue') : wire[i].req # queue'[j].req
      BY <1>3 DEF IInv, RepliedOnce
    <3>3. QED BY <1>4, <3>1, <3>2
  <2>6. QED BY <2>1, <2>2, <2>3, <2>4, <2>5 DEF RepliedOnce
<1>10. EmptyOnlyDone'
  BY <1>1, <1>3, <1>4, <1>8 DEF IInv, EmptyOnlyDone, handlerVars
<1>11. QED BY <1>5, <1>6, <1>7, <1>9, <1>10 DEF IInv

\* The writer stops.
LEMMA WriterStopsIInv == ASSUME IInv, WriterStops PROVE IInv'
<1>. USE DEF WriterStops, readVars, handlerVars
<1>1. Types' BY DEF IInv, Types
<1>2. QED BY <1>1 DEF IInv, Bounded, Busy, Queued, InOnePlace, RepliedOnce, EmptyOnlyDone

-----------------------------------------------------------------------------
(* The theorems *)

\* A connection that was accepted satisfies the invariant.
LEMMA InitIInv == ASSUME Init PROVE IInv
<1>. USE DEF Init
<1>1. Types
  <2>1. NoRecord \in [req : Requests \cup {NoRequest}, size : 0..MaxRPCSize]
    BY NFSConnAssumption DEF NoRecord
  <2>2. <<>> \in Seq(Reply) /\ <<>> \in Seq([req : Requests, size : Nat, last : BOOLEAN]) OBVIOUS
  <2>3. QED BY <2>1, <2>2 DEF Types
<1>2. Busy = {} /\ Len(queue) = 0 /\ Len(wire) = 0 /\ Len(inbox) = 0 BY DEF Busy
<1>3. Bounded BY <1>2, FS_EmptySet, NFSConnAssumption DEF Bounded, Queued
<1>4. InOnePlace /\ RepliedOnce /\ EmptyOnlyDone
  BY <1>2 DEF InOnePlace, RepliedOnce, EmptyOnlyDone
<1>5. QED BY <1>1, <1>3, <1>4 DEF IInv

\* Every step keeps the invariant.
LEMMA NextIInv == ASSUME IInv, [Next]_vars PROVE IInv'
<1>1. ASSUME NEW r \in Requests, Send(r) \/ Handler(r) PROVE IInv'
  BY <1>1, SendIInv, HandleIInv, FinishIInv, GiveUpIInv DEF Handler
<1>2. CASE Leave BY <1>2, LeaveIInv
<1>3. CASE Serve BY <1>3, ReadFragmentIInv, EndIInv, StartHandlerIInv DEF Serve
<1>4. CASE Writer BY <1>4, TakeReplyIInv, WriteIInv, WriterStopsIInv DEF Writer
<1>5. CASE UNCHANGED vars
  BY <1>5 DEF vars, IInv, Types, Bounded, Busy, Queued, InOnePlace, RepliedOnce, EmptyOnlyDone
<1>6. QED BY <1>1, <1>2, <1>3, <1>4, <1>5 DEF Next

\* The invariant holds in every reachable state.
THEOREM InvariantIInv == Spec => []IInv
BY InitIInv, NextIInv, PTL DEF Spec

\* The variables keep their types, and goroutines and replies that wait stay within the
\* semaphore, the channel and the writer's hands, however many requests a client sends.
THEOREM TypeCorrect == Spec => []TypeOK
<1>1. IInv => TypeOK
  <2>1. SUFFICES ASSUME IInv PROVE Len(queue) <= ConcurrentHandlers + 1
    BY DEF IInv, Types, Bounded, TypeOK
  <2>2. Len(queue) \in Nat BY <2>1 DEF IInv, Types
  <2>3. QED BY <2>1, <2>2, NFSConnAssumption DEF IInv, Bounded, Queued
<1>2. QED BY <1>1, InvariantIInv, PTL

\* A list of replies without repetitions answers a request at most once.
LEMMA AtMostOnce ==
  ASSUME NEW s \in Seq(Reply), NEW r,
         \A i, j \in 1..Len(s) : s[i].req = s[j].req => i = j
  PROVE  /\ Times(s, r) \in {0, 1}
         /\ Times(s, r) = 1 => \E i \in 1..Len(s) : s[i].req = r
<1>. DEFINE T == {i \in DOMAIN s : s[i].req = r}
<1>1. Times(s, r) = Cardinality(T) BY DEF Times
<1>2. CASE T = {}
  <2>1. Cardinality(T) = 0 BY <1>2, FS_EmptySet
  <2>2. QED BY <1>1, <2>1
<1>3. CASE T # {}
  <2>1. PICK x \in T : TRUE BY <1>3
  <2>2. T = {x} /\ x \in 1..Len(s) /\ s[x].req = r BY <2>1
  <2>3. QED BY <1>1, <2>2, FS_Singleton
<1>4. QED BY <1>2, <1>3

\* No request is answered twice, none before its goroutine has ended, and no reply that
\* is written is empty unless the context was done.
THEOREM RequestsAnsweredOnce == Spec => []OneReply
<1>1. IInv => OneReply
  <2>1. SUFFICES ASSUME IInv
                 PROVE  \A r \in Requests :
                          Times(wire \o queue, r) <= (IF handler[r] = "ended" THEN 1 ELSE 0)
    BY DEF IInv, OneReply, EmptyOnlyDone, Types
  <2>. DEFINE all == wire \o queue
  <2>2. wire \in Seq(Reply) /\ queue \in Seq(Reply) BY <2>1 DEF IInv, Types
  <2>3. /\ all \in Seq(Reply) /\ Len(all) = Len(wire) + Len(queue)
        /\ Len(wire) \in Nat /\ Len(queue) \in Nat
        /\ \A i \in 1..Len(all) :
             \/ i \in 1..Len(wire) /\ all[i] = wire[i]
             \/ i - Len(wire) \in 1..Len(queue) /\ all[i] = queue[i - Len(wire)]
    BY <2>2, ConcatProperties
  <2>. HIDE DEF all
  <2>4. \A i, j \in 1..Len(all) : all[i].req = all[j].req => i = j
    <3>1. SUFFICES ASSUME NEW i \in 1..Len(all), NEW j \in 1..Len(all), all[i].req = all[j].req
                   PROVE  i = j
      OBVIOUS
    <3>2. /\ \A x, y \in 1..Len(wire) : wire[x].req = wire[y].req => x = y
          /\ \A x, y \in 1..Len(queue) : queue[x].req = queue[y].req => x = y
          /\ \A x \in 1..Len(wire), y \in 1..Len(queue) : wire[x].req # queue[y].req
      BY <2>1 DEF IInv, RepliedOnce
    <3>3. CASE i \in 1..Len(wire) /\ all[i] = wire[i]
      <4>1. ~ (j - Len(wire) \in 1..Len(queue) /\ all[j] = queue[j - Len(wire)])
        BY <3>1, <3>2, <3>3
      <4>2. j \in 1..Len(wire) /\ all[j] = wire[j] BY <2>3, <4>1
      <4>3. QED BY <3>1, <3>2, <3>3, <4>2
    <3>4. CASE i - Len(wire) \in 1..Len(queue) /\ all[i] = queue[i - Len(wire)]
      <4>1. ~ (j \in 1..Len(wire) /\ all[j] = wire[j]) BY <3>1, <3>2, <3>4
      <4>2. j - Len(wire) \in 1..Len(queue) /\ all[j] = queue[j - Len(wire)] BY <2>3, <4>1
      <4>3. i - Len(wire) = j - Len(wire) BY <3>1, <3>2, <3>4, <4>2
      <4>4. QED BY <2>3, <4>3
    <3>5. QED BY <2>3, <3>3, <3>4
  <2>5. \A i \in 1..Len(all) : handler[all[i].req] = "ended"
    <3>1. /\ \A i \in 1..Len(wire) : handler[wire[i].req] = "ended"
          /\ \A i \in 1..Len(queue) : handler[queue[i].req] = "ended"
      BY <2>1 DEF IInv, RepliedOnce
    <3>2. QED BY <2>3, <3>1
  <2>6. ASSUME NEW r \in Requests
        PROVE  Times(all, r) <= (IF handler[r] = "ended" THEN 1 ELSE 0)
    <3>1. /\ Times(all, r) \in {0, 1}
          /\ Times(all, r) = 1 => \E i \in 1..Len(all) : all[i].req = r
      BY <2>3, <2>4, AtMostOnce
    <3>2. QED BY <2>5, <3>1
  <2>7. QED BY <2>6 DEF all
<1>2. QED BY <1>1, InvariantIInv, PTL

=============================================================================

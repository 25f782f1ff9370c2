------------------------------- MODULE NFSConn ------------------------------
(***************************************************************************)
(* One connection of the NFS server (go-nfs/conn.go): the loop that reads  *)
(* requests, a goroutine for each request, and the goroutine that writes   *)
(* the replies.  They share a semaphore of concurrentHandlers slots, a     *)
(* channel of as many replies, and a context that ends them.               *)
(*                                                                         *)
(* A request is its xid; a record is the fragments it is sent in.  What a  *)
(* procedure answers is in NFSProcs: here it answers, fails, or does       *)
(* neither.  The client may send what it likes and leave when it likes.    *)
(***************************************************************************)
EXTENDS Integers, FiniteSets, Sequences

CONSTANTS
  Requests,            \* the records the client may send, each once
  Fragments,           \* Fragments[r]: the sizes of the fragments of the record
  Malformed,           \* records whose header does not parse, or is not of a request
  MaxRPCSize,          \* maxRPCSize
  MinRPCSize,          \* the shortest RPC header
  ConcurrentHandlers,  \* concurrentHandlers
  SocketBuffer,        \* a bound on the fragments that are sent and not read
  NoRequest

ASSUME NFSConnAssumption ==
  /\ Fragments \in [Requests -> Seq(Nat)]
  /\ Malformed \subseteq Requests
  /\ MaxRPCSize \in Nat /\ MinRPCSize \in Nat
  /\ ConcurrentHandlers \in Nat \ {0}
  /\ SocketBuffer \in Nat /\ \A r \in Requests : Len(Fragments[r]) <= SocketBuffer
  /\ NoRequest \notin Requests

VARIABLES
  unsent,     \* requests the client has not sent
  inbox,      \* fragments that were sent and not read, in order
  eof,        \* the client has gone: no more fragments, and writes may fail
  open,       \* the server's end of the connection
  serving,    \* where serve is
  record,     \* the request being read, and the size of what was read of it
  ctxDone,    \* connCtx is cancelled
  handler,    \* handler[r]: the goroutine of the request
  body,       \* body[r]: what is in the buffer of its response
  queue,      \* the reply that is being written, if one is, and those in writeSerializer
  writer,     \* serializeWrites: "waiting", "writing", "ended", or "failed" on an error
  wire        \* the replies that were written, in order

readVars == <<inbox, serving, record>>
handlerVars == <<handler, body>>
writeVars == <<queue, writer, wire>>
vars == <<unsent, inbox, eof, open, serving, record, ctxDone, handler, body,
          queue, writer, wire>>

NoRecord == [req |-> NoRequest, size |-> 0]

\* serve, up to its loop, on a connection that Server.Serve has accepted.
Init ==
  /\ unsent = Requests
  /\ inbox = <<>>
  /\ eof = FALSE
  /\ open = TRUE
  /\ serving = "read"
  /\ record = NoRecord
  /\ ctxDone = FALSE
  /\ handler = [r \in Requests |-> "none"]
  /\ body = [r \in Requests |-> "empty"]
  /\ queue = <<>>
  /\ writer = "waiting"
  /\ wire = <<>>

\* The goroutines that hold a slot of concurrentHandlerSem.
Busy == {r \in Requests : handler[r] \in {"handle", "finish"}}

\* The replies in writeSerializer.
Queued == Len(queue) - (IF writer = "writing" THEN 1 ELSE 0)

-----------------------------------------------------------------------------
(* The client *)

FragmentsOf(r) ==
  [i \in DOMAIN Fragments[r] |->
     [req |-> r, size |-> Fragments[r][i], last |-> i = Len(Fragments[r])]]

\* The client sends a record, if the network takes it, without waiting for the replies to
\* others.
Send(r) ==
  /\ ~eof /\ open
  /\ r \in unsent
  /\ Len(inbox) + Len(Fragments[r]) <= SocketBuffer
  /\ unsent' = unsent \ {r}
  /\ inbox' = inbox \o FragmentsOf(r)
  /\ UNCHANGED <<eof, open, serving, record, ctxDone, handlerVars, writeVars>>

\* It goes away; what it sent may be cut off in the middle of a record.
Leave ==
  /\ ~eof
  /\ eof' = TRUE
  /\ \E n \in 0..Len(inbox) : inbox' = SubSeq(inbox, 1, n)
  /\ UNCHANGED <<unsent, open, serving, record, ctxDone, handlerVars, writeVars>>

-----------------------------------------------------------------------------
(* serve *)

\* ReadRPCRecord and readRequestHeader of one fragment: the record is too large,
\* or it goes on, or it is complete and is no request, or it is one.
ReadFragment ==
  LET f == Head(inbox)
      size == record.size + f.size
  IN /\ serving = "read"
     /\ open
     /\ inbox # <<>>
     /\ inbox' = Tail(inbox)
     /\ \/ /\ size > MaxRPCSize
           /\ serving' = "cancel"
           /\ record' = NoRecord
        \/ /\ size <= MaxRPCSize /\ ~f.last
           /\ record' = [req |-> f.req, size |-> size]
           /\ UNCHANGED serving
        \/ /\ size <= MaxRPCSize /\ f.last
           /\ f.req \in Malformed \/ size < MinRPCSize
           /\ serving' = "cancel"
           /\ record' = NoRecord
        \/ /\ size <= MaxRPCSize /\ f.last
           /\ f.req \notin Malformed /\ size >= MinRPCSize
           /\ serving' = "acquire"
           /\ record' = [req |-> f.req, size |-> size]
     /\ UNCHANGED <<unsent, eof, open, ctxDone, handlerVars, writeVars>>

\* The connection ends: where a fragment would begin, which is taken for a clean close
\* within a record too, or in the middle of a fragment, and then it is closed last.
ReadEOF ==
  /\ serving = "read"
  /\ inbox = <<>> /\ eof
  /\ open' \in {FALSE, open}
  /\ serving' = "cancel"
  /\ record' = NoRecord
  /\ UNCHANGED <<unsent, inbox, eof, ctxDone, handlerVars, writeVars>>

\* Mutant: the loop does not wait for a slot.
StartHandlerUnbounded ==
  /\ serving = "acquire"
  /\ handler' = [handler EXCEPT ![record.req] = "handle"]
  /\ serving' = "read"
  /\ record' = NoRecord
  /\ UNCHANGED <<unsent, inbox, eof, open, ctxDone, body, writeVars>>

\* A slot is free: the request gets a goroutine, and the loop reads on.  (The other
\* case, that the context is done, needs a Server.Context, which gomodfs does not
\* set: here only serve cancels, on its way out.)
StartHandler ==
  /\ serving = "acquire"
  /\ Cardinality(Busy) < ConcurrentHandlers
  /\ handler' = [handler EXCEPT ![record.req] = "handle"]
  /\ serving' = "read"
  /\ record' = NoRecord
  /\ UNCHANGED <<unsent, inbox, eof, open, ctxDone, body, writeVars>>

\* Mutant: serve returns without its deferred cancel.
NoCancel ==
  /\ serving = "cancel"
  /\ serving' = "close"
  /\ UNCHANGED <<unsent, inbox, eof, open, record, ctxDone, handlerVars, writeVars>>

\* The deferred calls of serve, the last one first: cancel, then Close.
Cancel ==
  /\ serving = "cancel"
  /\ ctxDone' = TRUE
  /\ serving' = "close"
  /\ UNCHANGED <<unsent, inbox, eof, open, record, handlerVars, writeVars>>

Close ==
  /\ serving = "close"
  /\ open' = FALSE
  /\ serving' = "returned"
  /\ UNCHANGED <<unsent, inbox, eof, record, ctxDone, handlerVars, writeVars>>

-----------------------------------------------------------------------------
(* The goroutine of a request *)

\* conn.err: nothing is written once the context is done.
ErrorBody == IF ctxDone THEN "empty" ELSE "error"

\* handle: the procedure responded, whatever it returned; or it failed, or there is
\* none, or it did neither, and an error is written for it.  Its writes go to a
\* buffer in memory and do not fail, so handle returns no error.
Handle(r) ==
  /\ handler[r] = "handle"
  /\ \E outcome \in {"responds", "respondsAndFails", "fails", "silent"} :
       body' = [body EXCEPT ![r] =
                  IF outcome \in {"responds", "respondsAndFails"} THEN "reply" ELSE ErrorBody]
  /\ handler' = [handler EXCEPT ![r] = "finish"]
  /\ UNCHANGED <<unsent, readVars, eof, open, ctxDone, writeVars>>

\* Mutant: the reply is also sent while the procedure runs.
FinishTwice(r) ==
  /\ handler[r] \in {"handle", "finish"}
  /\ Queued < ConcurrentHandlers
  /\ queue' = Append(queue, [req |-> r, body |-> body[r]])
  /\ handler' = [handler EXCEPT ![r] = IF @ = "handle" THEN "finish" ELSE "ended"]
  /\ UNCHANGED <<unsent, readVars, eof, open, ctxDone, body, writer, wire>>

\* Mutant: a reply is dropped when the channel is full.
FinishOrDrop(r) ==
  /\ handler[r] = "finish"
  /\ queue' = IF Queued < ConcurrentHandlers
                THEN Append(queue, [req |-> r, body |-> body[r]])
                ELSE queue
  /\ handler' = [handler EXCEPT ![r] = "ended"]
  /\ UNCHANGED <<unsent, readVars, eof, open, ctxDone, body, writer, wire>>

\* finish: there is room in the channel.
Finish(r) ==
  /\ handler[r] = "finish"
  /\ Queued < ConcurrentHandlers
  /\ queue' = Append(queue, [req |-> r, body |-> body[r]])
  /\ handler' = [handler EXCEPT ![r] = "ended"]
  /\ UNCHANGED <<unsent, readVars, eof, open, ctxDone, body, writer, wire>>

\* finish: the context is done.  (select may also take the other case.)
GiveUp(r) ==
  /\ handler[r] = "finish"
  /\ ctxDone
  /\ handler' = [handler EXCEPT ![r] = "ended"]
  /\ UNCHANGED <<unsent, readVars, eof, open, ctxDone, body, writeVars>>

-----------------------------------------------------------------------------
(* serializeWrites *)

\* A reply is taken out of the channel, which has room for another then.
TakeReply ==
  /\ writer = "waiting"
  /\ queue # <<>>
  /\ writer' = "writing"
  /\ UNCHANGED <<unsent, readVars, eof, open, ctxDone, handlerVars, queue, wire>>

\* It is written, with its fragment header, and flushed.
WriteReply ==
  /\ writer = "writing"
  /\ open
  /\ wire' = Append(wire, Head(queue))
  /\ queue' = Tail(queue)
  /\ writer' = "waiting"
  /\ UNCHANGED <<unsent, readVars, eof, open, ctxDone, handlerVars>>

\* A write fails: the goroutine returns, and tells nobody.
WriteFails ==
  /\ writer = "writing"
  /\ eof \/ ~open
  /\ queue' = Tail(queue)
  /\ writer' = "failed"
  /\ UNCHANGED <<unsent, readVars, eof, open, ctxDone, handlerVars, wire>>

\* The context is done.  (With a reply in the channel, select may take either case.)
WriterStops ==
  /\ writer = "waiting"
  /\ ctxDone
  /\ writer' = "ended"
  /\ UNCHANGED <<unsent, readVars, eof, open, ctxDone, handlerVars, queue, wire>>

-----------------------------------------------------------------------------
Serve == ReadFragment \/ ReadEOF \/ StartHandler \/ Cancel \/ Close
Handler(r) == Handle(r) \/ Finish(r) \/ GiveUp(r)
Writer == TakeReply \/ WriteReply \/ WriteFails \/ WriterStops

Next ==
  \/ \E r \in Requests : Send(r) \/ Handler(r)
  \/ Leave
  \/ Serve
  \/ Writer

Spec == Init /\ [][Next]_vars

\* Goroutines are scheduled, procedures return, and a client that stays takes its
\* replies.  Nothing makes a client send or leave.
FairSpec ==
  /\ Spec
  /\ WF_vars(Serve)
  /\ WF_vars(Writer)
  /\ \A r \in Requests : WF_vars(Handler(r))

-----------------------------------------------------------------------------
(* Properties *)

Reply == [req : Requests, body : {"empty", "reply", "error"}]

\* The variables have their types.  There are no more goroutines than slots, and no more
\* replies than the channel holds and the one that is being written: a client that does
\* not take its replies does not make the server buffer more.
TypeOK ==
  /\ unsent \subseteq Requests
  /\ inbox \in Seq([req : Requests, size : Nat, last : BOOLEAN])
  /\ eof \in BOOLEAN /\ open \in BOOLEAN /\ ctxDone \in BOOLEAN
  /\ serving \in {"read", "acquire", "cancel", "close", "returned"}
  /\ record \in [req : Requests \cup {NoRequest}, size : 0..MaxRPCSize]
  /\ handler \in [Requests -> {"none", "handle", "finish", "ended"}]
  /\ body \in [Requests -> {"empty", "reply", "error"}]
  /\ queue \in Seq(Reply)
  /\ writer \in {"waiting", "writing", "ended", "failed"}
  /\ wire \in Seq(Reply)
  /\ Cardinality(Busy) <= ConcurrentHandlers
  /\ Len(queue) <= ConcurrentHandlers + 1

\* How often a request is answered, in a list of replies.
Times(replies, r) == Cardinality({i \in DOMAIN replies : replies[i].req = r})

\* No request is answered twice, and only a goroutine that has ended has answered:
\* the reply of a request is in one place, its goroutine's buffer, the channel or the
\* hands of the writer, or the wire.  A reply that is written is whole, except that after
\* the context is done an empty record may still be written to a client that is there.
OneReply ==
  /\ \A r \in Requests :
       Times(wire \o queue, r) <= (IF handler[r] = "ended" THEN 1 ELSE 0)
  /\ \A i \in DOMAIN wire : wire[i].body = "empty" => ctxDone

\* Every request that got a goroutine is answered, unless the connection ends.  Each is
\* sent once, so there is a time after which all of them are.
RequestsAnswered ==
  []<>(ctxDone \/ writer = "failed" \/ \A r \in Requests : handler[r] # "none" => Times(wire, r) = 1)

\* The one way in which a connection is not given up: after a failed write the channel is
\* full and is not read, the goroutines that have the slots wait for room in it, and serve,
\* which has one more request, waits for a slot.
Stuck ==
  /\ writer = "failed" /\ Queued = ConcurrentHandlers
  /\ serving = "acquire" /\ Cardinality(Busy) = ConcurrentHandlers
  /\ \A r \in Busy : handler[r] = "finish"

\* When the client has left, or serve has returned, the connection is closed and the
\* goroutines that it started end, unless they are stuck, whatever was being read, handled
\* or written at that moment.
GoroutinesEnd ==
  (eof \/ serving = "returned") ~>
    \/ ~open /\ writer \in {"ended", "failed"} /\ \A r \in Requests : handler[r] \in {"none", "ended"}
    \/ Stuck

=============================================================================

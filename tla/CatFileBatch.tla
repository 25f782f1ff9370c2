---------------------------- MODULE CatFileBatch ----------------------------
(***************************************************************************)
(* The git object reader of store/gitstore: getObject calls are queued on  *)
(* Storage.pendReq and served one at a time by a runCatFileBatch goroutine *)
(* that talks to a "git cat-file --batch" helper process over two pipes.   *)
(*                                                                         *)
(* A caller is a member of Reqs (one getObject call) or of Stops (one      *)
(* StopGitHelperProcess call).  A member of Runners is a goroutine slot in *)
(* which runCatFileBatch can run; nothing in the model limits the number   *)
(* of goroutines to one, that is a property.  A revision is identified     *)
(* with the getObject call that asks for it.                               *)
(*                                                                         *)
(* A definition whose comment starts with "Mutant" is not part of the      *)
(* model: it is the slip in the code that shows a property can fail.       *)
(***************************************************************************)
EXTENDS Naturals, Sequences, FiniteSets

CONSTANTS
  Reqs,     \* getObject calls
  Stops,    \* StopGitHelperProcess calls
  Runners,  \* goroutine slots
  Answer,   \* what git says about the revision of each getObject call
  None      \* no request

AnswerKinds == {"object", "missing", "ambiguous", "huge"}

ASSUME CallsAssumption ==
  /\ Reqs \cap Stops = {}
  /\ None \notin Reqs \cup Stops

ASSUME AnswerAssumption == Answer \in [Reqs -> AnswerKinds]

Calls == Reqs \cup Stops

VARIABLES
  call,       \* call[c]: where the calling goroutine is
  res,        \* res[c]: the response sent on the call's 1-buffered channel
  pendReq,    \* Storage.pendReq
  wake,       \* whether the 1-buffered Storage.wake holds a token
  running,    \* Storage.catFileBatchRunning
  pc,         \* pc[g]: where goroutine g is in runCatFileBatch
  cur,        \* cur[g]: the request g holds
  proc,       \* proc[g]: the helper process of g
  sending,    \* sending[g]: the revision whose contents the helper must still write
  stdin,      \* stdin[g]: revisions written to the helper and not read by it
  stdout,     \* stdout[g]: what the helper wrote and g has not read
  openSpans   \* Started - Ended of "gitstore.cat-file-batch.request"

callVars   == <<call, res>>
queueVars  == <<pendReq, wake, running>>
helperVars == <<proc, sending, stdin, stdout>>
vars == <<call, res, pendReq, wake, running, pc, cur, proc, sending, stdin,
          stdout, openSpans>>

-----------------------------------------------------------------------------
(* State of the parts *)

CallStates == {"idle", "waiting", "done", "gaveup"}
RunnerStates ==
  {"none", "setup", "take", "select", "write", "header", "body", "wait", "note"}
ProcStates == {"none", "ready", "dead"}

\* objResponse: the kind of answer and the revision it is about.
Responses ==
  [kind : {"none", "error", "missing", "object", "stopped"}, rev : Reqs \cup {None}]

NoResponse == [kind |-> "none", rev |-> None]

\* One read unit of the helper's output: the header line of a revision, or
\* the contents that follow the header of an object.
Items == [part : {"header", "body"}, rev : Reqs]

Init ==
  /\ call = [c \in Calls |-> "idle"]
  /\ res = [c \in Calls |-> NoResponse]
  /\ pendReq = <<>>
  /\ wake = FALSE
  /\ running = FALSE
  /\ pc = [g \in Runners |-> "none"]
  /\ cur = [g \in Runners |-> None]
  /\ proc = [g \in Runners |-> "none"]
  /\ sending = [g \in Runners |-> None]
  /\ stdin = [g \in Runners |-> <<>>]
  /\ stdout = [g \in Runners |-> <<>>]
  /\ openSpans = 0

-----------------------------------------------------------------------------
(* Callers: getObject and StopGitHelperProcess *)

\* Mutant: the request is appended but the goroutine is not woken.
StartRequestNoWake(c) ==
  /\ call[c] = "idle"
  /\ running
  /\ call' = [call EXCEPT ![c] = "waiting"]
  /\ pendReq' = Append(pendReq, c)
  /\ UNCHANGED <<res, wake, running, pc, cur, openSpans, helperVars>>

\* The part of startRequest that appends and wakes: a goroutine is already
\* serving the queue.
StartRequestQueued(c) ==
  /\ call[c] = "idle"
  /\ running
  /\ call' = [call EXCEPT ![c] = "waiting"]
  /\ pendReq' = Append(pendReq, c)
  /\ wake' = TRUE
  /\ UNCHANGED <<res, running, pc, cur, openSpans, helperVars>>

\* Mutant: a goroutine is started without looking at catFileBatchRunning.
StartRequestSpawnAlways(c, g) ==
  /\ call[c] = "idle"
  /\ c \notin Stops
  /\ pc[g] = "none"
  /\ call' = [call EXCEPT ![c] = "waiting"]
  /\ pendReq' = Append(pendReq, c)
  /\ wake' = TRUE
  /\ running' = TRUE
  /\ pc' = [pc EXCEPT ![g] = "setup"]
  /\ UNCHANGED <<res, cur, openSpans, helperVars>>

\* startRequest finds no goroutine serving the queue and starts one.
StartRequestSpawn(c, g) ==
  /\ call[c] = "idle"
  /\ ~running
  /\ c \notin Stops
  /\ pc[g] = "none"
  /\ call' = [call EXCEPT ![c] = "waiting"]
  /\ pendReq' = Append(pendReq, c)
  /\ wake' = TRUE
  /\ running' = TRUE
  /\ pc' = [pc EXCEPT ![g] = "setup"]
  /\ UNCHANGED <<res, cur, openSpans, helperVars>>

\* startRequest answers a stop at once when nothing is running.
StartStopIdle(c) ==
  /\ call[c] = "idle"
  /\ c \in Stops
  /\ ~running
  /\ call' = [call EXCEPT ![c] = "waiting"]
  /\ res' = [res EXCEPT ![c] = [kind |-> "stopped", rev |-> None]]
  /\ UNCHANGED <<queueVars, pc, cur, openSpans, helperVars>>

StartRequest(c) ==
  \/ StartRequestQueued(c)
  \/ \E g \in Runners : StartRequestSpawn(c, g)
  \/ StartStopIdle(c)

\* The select of getObject and StopGitHelperProcess takes the response.
Receive(c) ==
  /\ call[c] = "waiting"
  /\ res[c].kind # "none"
  /\ call' = [call EXCEPT ![c] = "done"]
  /\ UNCHANGED <<res, queueVars, pc, cur, openSpans, helperVars>>

\* The other branch of the select: the context of getObject is done, or the
\* 5 second timer of StopGitHelperProcess fires.  The request stays queued.
GiveUp(c) ==
  /\ call[c] = "waiting"
  /\ call' = [call EXCEPT ![c] = "gaveup"]
  /\ UNCHANGED <<res, queueVars, pc, cur, openSpans, helperVars>>

-----------------------------------------------------------------------------
(* The serving goroutine: runCatFileBatch *)

\* cmd.StdinPipe, cmd.StdoutPipe and cmd.Start all succeed.
SetupOK(g) ==
  /\ pc[g] = "setup"
  /\ pc' = [pc EXCEPT ![g] = "take"]
  /\ proc' = [proc EXCEPT ![g] = "ready"]
  /\ UNCHANGED <<callVars, queueVars, cur, sending, stdin, stdout, openSpans>>

\* One of them fails: the function returns before any process exists.
SetupFails(g) ==
  /\ pc[g] = "setup"
  /\ pc' = [pc EXCEPT ![g] = "note"]
  /\ UNCHANGED <<callVars, queueVars, cur, openSpans, helperVars>>

\* tryTakePendingRequest finds the queue empty; takePendingRequest goes on to
\* its select.
TakeNothing(g) ==
  /\ pc[g] = "take"
  /\ pendReq = <<>>
  /\ pc' = [pc EXCEPT ![g] = "select"]
  /\ UNCHANGED <<callVars, queueVars, cur, openSpans, helperVars>>

\* Mutant: the span of the request is not started.
TakeRequestNoSpan(g) ==
  /\ pc[g] = "take"
  /\ pendReq # <<>>
  /\ Head(pendReq) \in Reqs
  /\ cur' = [cur EXCEPT ![g] = Head(pendReq)]
  /\ pendReq' = Tail(pendReq)
  /\ pc' = [pc EXCEPT ![g] = "write"]
  /\ UNCHANGED <<callVars, wake, running, openSpans, helperVars>>

\* Mutant: the request taken is left in the queue.
TakeRequestPeek(g) ==
  /\ pc[g] = "take"
  /\ pendReq # <<>>
  /\ Head(pendReq) \in Reqs
  /\ cur' = [cur EXCEPT ![g] = Head(pendReq)]
  /\ pc' = [pc EXCEPT ![g] = "write"]
  /\ openSpans' = openSpans + 1
  /\ UNCHANGED <<callVars, pendReq, wake, running, helperVars>>

\* tryTakePendingRequest returns a getObject request, whose span starts.
TakeRequest(g) ==
  /\ pc[g] = "take"
  /\ pendReq # <<>>
  /\ Head(pendReq) \in Reqs
  /\ cur' = [cur EXCEPT ![g] = Head(pendReq)]
  /\ pendReq' = Tail(pendReq)
  /\ pc' = [pc EXCEPT ![g] = "write"]
  /\ openSpans' = openSpans + 1
  /\ UNCHANGED <<callVars, wake, running, helperVars>>

\* Mutant: the stop is answered as soon as it is taken.
TakeStopReplyEarly(g) ==
  /\ pc[g] = "take"
  /\ pendReq # <<>>
  /\ Head(pendReq) \in Stops
  /\ res' = [res EXCEPT ![Head(pendReq)] = [kind |-> "stopped", rev |-> None]]
  /\ pendReq' = Tail(pendReq)
  /\ pc' = [pc EXCEPT ![g] = "wait"]
  /\ UNCHANGED <<call, wake, running, cur, openSpans, helperVars>>

\* tryTakePendingRequest returns a stop: shutdownFunc is set and the function
\* returns, which closes stdin and waits for the process.
TakeStop(g) ==
  /\ pc[g] = "take"
  /\ pendReq # <<>>
  /\ Head(pendReq) \in Stops
  /\ cur' = [cur EXCEPT ![g] = Head(pendReq)]
  /\ pendReq' = Tail(pendReq)
  /\ pc' = [pc EXCEPT ![g] = "wait"]
  /\ UNCHANGED <<callVars, wake, running, openSpans, helperVars>>

\* The select of takePendingRequest receives the wake token and tries again.
Woken(g) ==
  /\ pc[g] = "select"
  /\ wake
  /\ wake' = FALSE
  /\ pc' = [pc EXCEPT ![g] = "take"]
  /\ UNCHANGED <<callVars, pendReq, running, cur, openSpans, helperVars>>

\* The 10 second timer of takePendingRequest fires: runCatFileBatch returns.
TakeTimeout(g) ==
  /\ pc[g] = "select"
  /\ pc' = [pc EXCEPT ![g] = "wait"]
  /\ UNCHANGED <<callVars, queueVars, cur, openSpans, helperVars>>

\* Mutant: the answer to a request whose caller gave up is left unread.
WriteRevSkipCancelled(g) ==
  /\ pc[g] = "write"
  /\ proc[g] = "ready"
  /\ stdin' = [stdin EXCEPT ![g] = Append(@, cur[g])]
  /\ IF call[cur[g]] = "gaveup"
       THEN /\ pc' = [pc EXCEPT ![g] = "take"]
            /\ cur' = [cur EXCEPT ![g] = None]
       ELSE /\ pc' = [pc EXCEPT ![g] = "header"]
            /\ UNCHANGED cur
  /\ UNCHANGED <<callVars, queueVars, proc, sending, stdout, openSpans>>

\* The revision is written to the helper's stdin.
WriteRev(g) ==
  /\ pc[g] = "write"
  /\ proc[g] = "ready"
  /\ stdin' = [stdin EXCEPT ![g] = Append(@, cur[g])]
  /\ pc' = [pc EXCEPT ![g] = "header"]
  /\ UNCHANGED <<callVars, queueVars, cur, proc, sending, stdout, openSpans>>

\* A send on the 1-buffered response channel; blocked while the buffer is full.
Reply(c, kind, rev) ==
  /\ res[c].kind = "none"
  /\ res' = [res EXCEPT ![c] = [kind |-> kind, rev |-> rev]]

\* sendErr: the span ends, the request is answered with an error, and the
\* function returns, which closes stdin and waits for the process.
SendErr(g) ==
  /\ Reply(cur[g], "error", None)
  /\ openSpans' = openSpans - 1
  /\ cur' = [cur EXCEPT ![g] = None]
  /\ pc' = [pc EXCEPT ![g] = "wait"]

\* Writing to a helper that is gone fails.
WriteFails(g) ==
  /\ pc[g] = "write"
  /\ proc[g] = "dead"
  /\ SendErr(g)
  /\ UNCHANGED <<call, queueVars, helperVars>>

\* Mutant: the function returns the read error without sendErr.
ReadFailsSilently(g) ==
  /\ pc[g] \in {"header", "body"}
  /\ proc[g] = "dead"
  /\ stdout[g] = <<>>
  /\ openSpans' = openSpans - 1
  /\ cur' = [cur EXCEPT ![g] = None]
  /\ pc' = [pc EXCEPT ![g] = "wait"]
  /\ UNCHANGED <<callVars, queueVars, helperVars>>

\* The helper is gone and all it wrote has been read: ReadBytes of the header
\* or ReadFull of the contents returns an error.
ReadFails(g) ==
  /\ pc[g] \in {"header", "body"}
  /\ proc[g] = "dead"
  /\ stdout[g] = <<>>
  /\ SendErr(g)
  /\ UNCHANGED <<call, queueVars, helperVars>>

\* What the next unit of the helper's output is, when there is one.
NextItem(g) == Head(stdout[g])

\* The header names an object of acceptable size: go on to its contents.
HeaderObject(g) ==
  /\ pc[g] = "header"
  /\ stdout[g] # <<>>
  /\ NextItem(g).part = "header"
  /\ Answer[NextItem(g).rev] = "object"
  /\ stdout' = [stdout EXCEPT ![g] = Tail(@)]
  /\ pc' = [pc EXCEPT ![g] = "body"]
  /\ UNCHANGED <<callVars, queueVars, cur, proc, sending, stdin, openSpans>>

\* "<rev> missing": the request is answered and the loop continues.  The span
\* started for the request is not ended on this path.
HeaderMissing(g) ==
  /\ pc[g] = "header"
  /\ stdout[g] # <<>>
  /\ NextItem(g).part = "header"
  /\ Answer[NextItem(g).rev] = "missing"
  /\ Reply(cur[g], "missing", NextItem(g).rev)
  /\ stdout' = [stdout EXCEPT ![g] = Tail(@)]
  /\ cur' = [cur EXCEPT ![g] = None]
  /\ pc' = [pc EXCEPT ![g] = "take"]
  /\ UNCHANGED <<call, queueVars, proc, sending, stdin, openSpans>>

\* A line that is no acceptable header: not two or three fields ("ambiguous"),
\* an unacceptable size ("huge"), or contents where a header was expected.
HeaderRejected(g) ==
  /\ pc[g] = "header"
  /\ stdout[g] # <<>>
  /\ ~ (/\ NextItem(g).part = "header"
        /\ Answer[NextItem(g).rev] \in {"object", "missing"})
  /\ SendErr(g)
  /\ stdout' = [stdout EXCEPT ![g] = Tail(@)]
  /\ UNCHANGED <<call, queueVars, proc, sending, stdin>>

\* The contents and their newline are read and the request is answered.  (Contents
\* without the newline, or a hash that is none, would be a helper that does not keep to
\* its format; sendErr follows then, as it does in ReadFails.)  A full response channel
\* would be a panic here; ExactlyOnePlace excludes it.
ReadBody(g) ==
  /\ pc[g] = "body"
  /\ stdout[g] # <<>>
  /\ Reply(cur[g], "object", NextItem(g).rev)
  /\ stdout' = [stdout EXCEPT ![g] = Tail(@)]
  /\ openSpans' = openSpans - 1
  /\ cur' = [cur EXCEPT ![g] = None]
  /\ pc' = [pc EXCEPT ![g] = "take"]
  /\ UNCHANGED <<call, queueVars, proc, sending, stdin>>

\* The deferred cmd.Process.Wait returns; then shutdownFunc answers the stop
\* request, if that is why the function returned.
WaitProcess(g) ==
  /\ pc[g] = "wait"
  /\ proc[g] = "dead"
  /\ IF cur[g] \in Stops THEN Reply(cur[g], "stopped", None) ELSE UNCHANGED res
  /\ cur' = [cur EXCEPT ![g] = None]
  /\ pc' = [pc EXCEPT ![g] = "note"]
  /\ UNCHANGED <<call, queueVars, openSpans, helperVars>>

\* The goroutine of runCatFileBatch ends, and with it its pipes.
EndRunner(g) ==
  /\ proc' = [proc EXCEPT ![g] = "none"]
  /\ sending' = [sending EXCEPT ![g] = None]
  /\ stdin' = [stdin EXCEPT ![g] = <<>>]
  /\ stdout' = [stdout EXCEPT ![g] = <<>>]

\* noteCatFileBatchDone with an empty queue: a new goroutine h is started (in
\* the slot of g or in a free one), the flag stays set, and it is woken.
NoteDoneEmpty(g, h) ==
  /\ pc[g] = "note"
  /\ pendReq = <<>>
  /\ h = g \/ pc[h] = "none"
  /\ pc' = [[pc EXCEPT ![g] = "none"] EXCEPT ![h] = "setup"]
  /\ wake' = TRUE
  /\ EndRunner(g)
  /\ UNCHANGED <<callVars, pendReq, running, cur, openSpans>>

\* noteCatFileBatchDone with requests in the queue: the flag is cleared.
NoteDonePending(g) ==
  /\ pc[g] = "note"
  /\ pendReq # <<>>
  /\ pc' = [pc EXCEPT ![g] = "none"]
  /\ running' = FALSE
  /\ EndRunner(g)
  /\ UNCHANGED <<callVars, pendReq, wake, cur, openSpans>>

NoteCatFileBatchDone(g) ==
  \/ \E h \in Runners : NoteDoneEmpty(g, h)
  \/ NoteDonePending(g)

RunCatFileBatch(g) ==
  \/ SetupOK(g) \/ SetupFails(g)
  \/ TakeNothing(g) \/ TakeRequest(g) \/ TakeStop(g)
  \/ Woken(g) \/ TakeTimeout(g)
  \/ WriteRev(g) \/ WriteFails(g) \/ ReadFails(g)
  \/ HeaderObject(g) \/ HeaderMissing(g) \/ HeaderRejected(g)
  \/ ReadBody(g)
  \/ WaitProcess(g)
  \/ NoteCatFileBatchDone(g)

-----------------------------------------------------------------------------
(* The helper process: git cat-file --batch (external) *)

\* The helper reads a revision and writes its header line; contents follow the
\* header of an object.
HelperHeader(g) ==
  /\ proc[g] = "ready"
  /\ sending[g] = None
  /\ stdin[g] # <<>>
  /\ LET rev == Head(stdin[g]) IN
       /\ stdout' = [stdout EXCEPT ![g] = Append(@, [part |-> "header", rev |-> rev])]
       /\ sending' = [sending EXCEPT
            ![g] = IF Answer[rev] \in {"object", "huge"} THEN rev ELSE None]
  /\ stdin' = [stdin EXCEPT ![g] = Tail(@)]
  /\ UNCHANGED <<callVars, queueVars, pc, cur, proc, openSpans>>

\* The helper writes the contents.  The contents of a "huge" object never fit
\* in the pipe, and runCatFileBatch does not read them.
HelperBody(g) ==
  /\ proc[g] = "ready"
  /\ sending[g] # None
  /\ Answer[sending[g]] # "huge"
  /\ stdout' = [stdout EXCEPT ![g] = Append(@, [part |-> "body", rev |-> sending[g]])]
  /\ sending' = [sending EXCEPT ![g] = None]
  /\ UNCHANGED <<callVars, queueVars, pc, cur, proc, stdin, openSpans>>

\* The helper exits when its stdin is closed and it has answered everything.
HelperExit(g) ==
  /\ pc[g] = "wait"
  /\ proc[g] = "ready"
  /\ sending[g] = None
  /\ stdin[g] = <<>>
  /\ proc' = [proc EXCEPT ![g] = "dead"]
  /\ UNCHANGED <<callVars, queueVars, pc, cur, sending, stdin, stdout, openSpans>>

\* The helper is killed, or fails on a damaged repository.
HelperDies(g) ==
  /\ proc[g] = "ready"
  /\ proc' = [proc EXCEPT ![g] = "dead"]
  /\ UNCHANGED <<callVars, queueVars, pc, cur, sending, stdin, stdout, openSpans>>

Helper(g) == HelperHeader(g) \/ HelperBody(g) \/ HelperExit(g)

-----------------------------------------------------------------------------
Next ==
  \/ \E c \in Calls : StartRequest(c) \/ Receive(c) \/ GiveUp(c)
  \/ \E g \in Runners : RunCatFileBatch(g) \/ Helper(g) \/ HelperDies(g)

Spec == Init /\ [][Next]_vars

\* Goroutines and the helper are scheduled; timers fire.  Nothing forces a
\* context to be cancelled or a helper to die.
Fairness ==
  /\ \A c \in Calls : WF_vars(Receive(c))
  /\ \A g \in Runners : WF_vars(RunCatFileBatch(g)) /\ WF_vars(Helper(g))

FairSpec == Spec /\ Fairness

-----------------------------------------------------------------------------
(* Properties *)

\* The type invariant.  In particular openSpans is never negative: no path of
\* runCatFileBatch ends the span of a request twice.
TypeOK ==
  /\ call \in [Calls -> CallStates]
  /\ res \in [Calls -> Responses]
  /\ pendReq \in Seq(Calls)
  /\ wake \in BOOLEAN
  /\ running \in BOOLEAN
  /\ pc \in [Runners -> RunnerStates]
  /\ cur \in [Runners -> Calls \cup {None}]
  /\ proc \in [Runners -> ProcStates]
  /\ sending \in [Runners -> Reqs \cup {None}]
  /\ stdin \in [Runners -> Seq(Reqs)]
  /\ stdout \in [Runners -> Seq(Items)]
  /\ openSpans \in Nat

Active(g) == pc[g] # "none"

\* catFileBatchRunning is set exactly while a runCatFileBatch goroutine exists,
\* and there is never a second one: neither a startRequest racing the end of
\* the goroutine nor the restart in noteCatFileBatchDone starts two.
OneRunner ==
  /\ running <=> \E g \in Runners : Active(g)
  /\ \A g, h \in Runners : Active(g) /\ Active(h) => g = h

Occurs(c, s) == \E i \in 1..Len(s) : s[i] = c
AtMostOnce(c, s) == \A i, j \in 1..Len(s) : s[i] = c /\ s[j] = c => i = j

InQueue(c) == Occurs(c, pendReq)
Held(c) == \E g \in Runners : cur[g] = c
Answered(c) == res[c].kind # "none"

\* A call that was started is in exactly one place: in the queue (once), held
\* by one goroutine, or answered.  So no request is dropped or answered twice,
\* whatever order startRequest, the errors, the stop and the restart take.
ExactlyOnePlace ==
  \A c \in Calls :
    /\ (call[c] # "idle") <=> (InQueue(c) \/ Held(c) \/ Answered(c))
    /\ ~(InQueue(c) /\ Held(c))
    /\ ~(Answered(c) /\ (InQueue(c) \/ Held(c)))
    /\ AtMostOnce(c, pendReq)
    /\ \A g, h \in Runners : cur[g] = c /\ cur[h] = c => g = h

\* The wake channel has one slot and is written best effort, yet a goroutine
\* that sleeps in takePendingRequest while the queue is not empty has a token
\* waiting: it does not sleep through a request.
NoLostWakeup ==
  \A g \in Runners : pc[g] = "select" /\ pendReq # <<>> => wake

\* A call gets what git says about its own revision, never the answer to
\* another one: one request is outstanding per helper, and after any
\* unexpected output the helper is abandoned with what it still had to say.
ReplyIsForRequest ==
  \A q \in Reqs :
    CASE res[q].kind = "object"  -> res[q].rev = q /\ Answer[q] = "object"
      [] res[q].kind = "missing" -> res[q].rev = q /\ Answer[q] = "missing"
      [] OTHER -> res[q].kind \in {"none", "error"}

\* "Send on this channel only after the process has exited": at the moment a
\* stop is answered no helper process is alive.
StopAnsweredAfterExit ==
  [][\A s \in Stops : ~Answered(s) /\ Answered(s)'
       => \A g \in Runners : proc[g] # "ready"]_vars

\* What a goroutine holds and the state of its helper, at each place in
\* runCatFileBatch.
RunnerState ==
  \A g \in Runners :
    /\ pc[g] \in {"write", "header", "body"} => cur[g] \in Reqs /\ openSpans > 0
    /\ pc[g] = "wait" => cur[g] \in Stops \cup {None}
    /\ pc[g] \in {"none", "setup", "take", "select", "note"} => cur[g] = None
    /\ pc[g] \in {"none", "setup"} => proc[g] = "none"
    /\ pc[g] = "note" => proc[g] # "ready"

\* The inductive invariant behind the theorems of CatFileBatchProofs.
IInv ==
  /\ TypeOK
  /\ OneRunner
  /\ ExactlyOnePlace
  /\ NoLostWakeup
  /\ RunnerState

\* The two pipes while a goroutine uses its helper: nothing is left in them
\* between requests, and during a request they hold only that request.
Line(q) == [part |-> "header", rev |-> q]
Contents(q) == [part |-> "body", rev |-> q]
PipeStateOf(g) ==
  /\ pc[g] \in {"none", "setup", "take", "select", "write"} =>
       stdin[g] = <<>> /\ stdout[g] = <<>> /\ sending[g] = None
  /\ pc[g] = "header" =>
       \/ stdin[g] = <<cur[g]>> /\ stdout[g] = <<>> /\ sending[g] = None
       \/ /\ stdin[g] = <<>>
          /\ stdout[g] = <<Line(cur[g])>>
          /\ sending[g] =
               IF Answer[cur[g]] \in {"object", "huge"} THEN cur[g] ELSE None
       \/ /\ stdin[g] = <<>>
          /\ stdout[g] = <<Line(cur[g]), Contents(cur[g])>>
          /\ sending[g] = None
          /\ Answer[cur[g]] = "object"
  /\ pc[g] = "body" =>
       /\ Answer[cur[g]] = "object"
       /\ stdin[g] = <<>>
       /\ \/ stdout[g] = <<>> /\ sending[g] = cur[g]
          \/ stdout[g] = <<Contents(cur[g])>> /\ sending[g] = None

PipeState == \A g \in Runners : PipeStateOf(g)

\* A request that a goroutine has taken is answered, even if the helper dies,
\* writes something unexpected or is asked for an object that is too large.
TakenIsAnswered ==
  \A q \in Reqs : Held(q) ~> Answered(q)

\* getObject "looks up the git object with the given rev ... err is errMissing
\* if the object is not found": every call gets an answer.
EveryRequestAnswered ==
  \A q \in Reqs : call[q] = "waiting" ~> call[q] # "waiting"

=============================================================================

------------------------- MODULE CatFileBatchProofs -------------------------
(***************************************************************************)
(* Proofs about CatFileBatch, for any sets of calls and goroutine slots    *)
(* and whatever git answers.                                               *)
(***************************************************************************)
EXTENDS CatFileBatch, SequenceTheorems, TLAPS

-----------------------------------------------------------------------------
(* Sequences as queues without duplicates *)

\* Appending to a queue adds exactly the appended element.
LEMMA AppendOccurs ==
  ASSUME NEW S, NEW s \in Seq(S), NEW e \in S, NEW c
  PROVE  Occurs(c, Append(s, e)) <=> (Occurs(c, s) \/ c = e)
<1>1. /\ Len(Append(s, e)) = Len(s) + 1
      /\ \A i \in 1..Len(s) : Append(s, e)[i] = s[i]
      /\ Append(s, e)[Len(s) + 1] = e
      /\ Len(s) \in Nat
  OBVIOUS
<1>2. ASSUME Occurs(c, Append(s, e)) PROVE Occurs(c, s) \/ c = e
  BY <1>1, <1>2 DEF Occurs
<1>3. ASSUME Occurs(c, s) \/ c = e PROVE Occurs(c, Append(s, e))
  <2>1. CASE c = e
    <3>1. Len(s) + 1 \in 1..Len(Append(s, e)) BY <1>1
    <3>2. QED BY <1>1, <2>1, <3>1 DEF Occurs
  <2>2. CASE Occurs(c, s)
    <3>1. PICK i \in 1..Len(s) : s[i] = c BY <2>2 DEF Occurs
    <3>2. i \in 1..Len(Append(s, e)) /\ Append(s, e)[i] = c BY <1>1, <3>1
    <3>3. QED BY <3>2 DEF Occurs
  <2>3. QED BY <1>3, <2>1, <2>2
<1>4. QED BY <1>2, <1>3

\* Appending an element that is not in the queue creates no duplicate.
LEMMA AppendAtMostOnce ==
  ASSUME NEW S, NEW s \in Seq(S), NEW e \in S, NEW c,
         AtMostOnce(c, s), ~Occurs(e, s)
  PROVE  AtMostOnce(c, Append(s, e))
<1>1. /\ Len(Append(s, e)) = Len(s) + 1
      /\ \A i \in 1..Len(s) : Append(s, e)[i] = s[i]
      /\ Append(s, e)[Len(s) + 1] = e
      /\ Len(s) \in Nat
  OBVIOUS
<1>2. QED BY <1>1 DEF AtMostOnce, Occurs

\* Taking the head of a queue without duplicates removes exactly the head.
LEMMA TailOccurs ==
  ASSUME NEW S, NEW s \in Seq(S), s # <<>>, NEW c, AtMostOnce(c, s)
  PROVE  /\ Head(s) \in S
         /\ Occurs(Head(s), s)
         /\ Tail(s) \in Seq(S)
         /\ Occurs(c, Tail(s)) <=> (Occurs(c, s) /\ c # Head(s))
         /\ AtMostOnce(c, Tail(s))
<1>1. /\ Len(s) \in Nat /\ Len(s) > 0
      /\ Len(Tail(s)) = Len(s) - 1
      /\ \A i \in 1..Len(Tail(s)) : Tail(s)[i] = s[i + 1]
      /\ Head(s) = s[1]
      /\ Tail(s) \in Seq(S)
      /\ Head(s) \in S
  OBVIOUS
<1>2. Occurs(Head(s), s)
  <2>1. 1 \in 1..Len(s) BY <1>1
  <2>2. QED BY <1>1, <2>1 DEF Occurs
<1>3. ASSUME Occurs(c, Tail(s)) PROVE Occurs(c, s) /\ c # Head(s)
  <2>1. PICK i \in 1..Len(Tail(s)) : Tail(s)[i] = c BY <1>3 DEF Occurs
  <2>2. i + 1 \in 1..Len(s) /\ s[i + 1] = c /\ i + 1 # 1 /\ 1 \in 1..Len(s)
    BY <1>1, <2>1
  <2>3. QED BY <1>1, <2>2 DEF Occurs, AtMostOnce
<1>4. ASSUME Occurs(c, s), c # Head(s) PROVE Occurs(c, Tail(s))
  <2>1. PICK i \in 1..Len(s) : s[i] = c BY <1>4 DEF Occurs
  <2>2. i # 1 BY <1>1, <1>4, <2>1
  <2>3. i - 1 \in 1..Len(Tail(s)) /\ (i - 1) + 1 = i BY <1>1, <2>1, <2>2
  <2>4. Tail(s)[i - 1] = c BY <1>1, <2>1, <2>3
  <2>5. QED BY <2>3, <2>4 DEF Occurs
<1>5. AtMostOnce(c, Tail(s))
  <2>1. SUFFICES ASSUME NEW i \in 1..Len(Tail(s)), NEW j \in 1..Len(Tail(s)),
                        Tail(s)[i] = c, Tail(s)[j] = c
                 PROVE  i = j
    BY DEF AtMostOnce
  <2>2. /\ i + 1 \in 1..Len(s) /\ j + 1 \in 1..Len(s)
        /\ s[i + 1] = c /\ s[j + 1] = c
    BY <1>1, <2>1
  <2>3. i + 1 = j + 1 BY <2>2 DEF AtMostOnce
  <2>4. QED BY <2>3, <1>1
<1>6. QED BY <1>1, <1>2, <1>3, <1>4, <1>5
-----------------------------------------------------------------------------
(* How a call moves from one place to the next *)

\* startRequest appends a new call: it enters the queue.
LEMMA EnqueueStep ==
  ASSUME TypeOK, ExactlyOnePlace, NEW c \in Calls, call[c] = "idle",
         call' = [call EXCEPT ![c] = "waiting"],
         pendReq' = Append(pendReq, c), UNCHANGED <<res, cur>>
  PROVE  ExactlyOnePlace'
<1>1. pendReq \in Seq(Calls) BY DEF TypeOK
<1>2. ~InQueue(c) /\ ~Held(c) /\ ~Answered(c) BY DEF ExactlyOnePlace
<1>3. ASSUME NEW d \in Calls
      PROVE  /\ InQueue(d)' <=> (InQueue(d) \/ d = c)
             /\ Held(d)' <=> Held(d)
             /\ Answered(d)' <=> Answered(d)
             /\ AtMostOnce(d, pendReq)'
  <2>1. AtMostOnce(d, pendReq) BY DEF ExactlyOnePlace
  <2>2. AtMostOnce(d, pendReq') BY <1>1, <1>2, <2>1, AppendAtMostOnce DEF InQueue
  <2>3. Occurs(d, pendReq') <=> (Occurs(d, pendReq) \/ d = c)
    BY <1>1, AppendOccurs
  <2>4. QED BY <2>2, <2>3 DEF InQueue, Held, Answered, Occurs, AtMostOnce
<1>4. \A d \in Calls : call'[d] # "idle" <=> (call[d] # "idle" \/ d = c)
  BY DEF TypeOK
<1>5. QED BY <1>2, <1>3, <1>4 DEF ExactlyOnePlace

\* A goroutine that holds nothing takes the head of the queue: the call moves
\* from the queue to the goroutine.
LEMMA TakeStep ==
  ASSUME TypeOK, ExactlyOnePlace, NEW g \in Runners, cur[g] = None,
         pendReq # <<>>,
         cur' = [cur EXCEPT ![g] = Head(pendReq)],
         pendReq' = Tail(pendReq), UNCHANGED <<call, res>>
  PROVE  ExactlyOnePlace'
<1>1. pendReq \in Seq(Calls) BY DEF TypeOK
<1>2. \A d \in Calls : AtMostOnce(d, pendReq) BY DEF ExactlyOnePlace
<1>3. Head(pendReq) \in Calls /\ InQueue(Head(pendReq))
  <2>1. Head(pendReq) \in Calls BY <1>1
  <2>2. QED BY <1>1, <1>2, <2>1, TailOccurs DEF InQueue
<1>4. ASSUME NEW d \in Calls
      PROVE  /\ InQueue(d)' <=> (InQueue(d) /\ d # Head(pendReq))
             /\ Held(d)' <=> (Held(d) \/ d = Head(pendReq))
             /\ Answered(d)' <=> Answered(d)
             /\ AtMostOnce(d, pendReq)'
             /\ \A a, b \in Runners : cur'[a] = d /\ cur'[b] = d => a = b
  <2>1. /\ Occurs(d, pendReq') <=> (Occurs(d, pendReq) /\ d # Head(pendReq))
        /\ AtMostOnce(d, pendReq')
    BY <1>1, <1>2, TailOccurs
  <2>2. Held(d)' <=> (Held(d) \/ d = Head(pendReq))
    BY CallsAssumption DEF Held, TypeOK, Calls
  <2>3. \A a, b \in Runners : cur'[a] = d /\ cur'[b] = d => a = b
    <3>1. ~Held(Head(pendReq)) BY <1>3 DEF ExactlyOnePlace
    <3>2. \A a, b \in Runners : cur[a] = d /\ cur[b] = d => a = b
      BY DEF ExactlyOnePlace
    <3>3. QED BY <3>1, <3>2 DEF Held, TypeOK
  <2>4. QED BY <2>1, <2>2, <2>3 DEF InQueue, Answered, Occurs, AtMostOnce
<1>5. QED BY <1>3, <1>4 DEF ExactlyOnePlace

\* A goroutine answers the call it holds: the call moves from the goroutine to
\* the answered ones.
LEMMA AnswerStep ==
  ASSUME TypeOK, ExactlyOnePlace, NEW g \in Runners, cur[g] \in Calls, NEW r,
         r.kind # "none",
         cur' = [cur EXCEPT ![g] = None],
         res' = [res EXCEPT ![cur[g]] = r], UNCHANGED <<call, pendReq>>
  PROVE  ExactlyOnePlace'
<1>1. Held(cur[g]) BY DEF Held
<1>2. ASSUME NEW d \in Calls
      PROVE  /\ InQueue(d)' <=> InQueue(d)
             /\ Held(d)' <=> (Held(d) /\ d # cur[g])
             /\ Answered(d)' <=> (Answered(d) \/ d = cur[g])
             /\ AtMostOnce(d, pendReq)' <=> AtMostOnce(d, pendReq)
             /\ \A a, b \in Runners : cur'[a] = d /\ cur'[b] = d => a = b
  <2>1. Held(d)' <=> (Held(d) /\ d # cur[g])
    <3>1. \A a, b \in Runners : cur[a] = d /\ cur[b] = d => a = b
      BY DEF ExactlyOnePlace
    <3>2. d # None BY CallsAssumption DEF Calls
    <3>3. QED BY <3>1, <3>2 DEF Held, TypeOK
  <2>2. Answered(d)' <=> (Answered(d) \/ d = cur[g])
    <3>1. res'[d] = IF d = cur[g] THEN r ELSE res[d] BY DEF TypeOK
    <3>2. QED BY <3>1 DEF Answered
  <2>3. \A a, b \in Runners : cur'[a] = d /\ cur'[b] = d => a = b
    BY CallsAssumption DEF ExactlyOnePlace, TypeOK, Calls
  <2>4. QED BY <2>1, <2>2, <2>3 DEF InQueue, Occurs, AtMostOnce
<1>3. QED BY <1>1, <1>2 DEF ExactlyOnePlace

\* A step that moves no call keeps every call in its place.
LEMMA SamePlaces ==
  ASSUME ExactlyOnePlace, UNCHANGED <<call, res, pendReq, cur>>
  PROVE  ExactlyOnePlace'
BY DEF ExactlyOnePlace, InQueue, Held, Answered, Occurs, AtMostOnce

-----------------------------------------------------------------------------
(* The inductive invariant *)

\* The initial state satisfies the inductive invariant: every call is idle, no
\* goroutine runs and nothing is queued, held or answered.
LEMMA InitIInv == Init => IInv
<1>. SUFFICES ASSUME Init PROVE IInv OBVIOUS
<1>. USE CallsAssumption DEF Init
<1>1. TypeOK
  <2>1. NoResponse \in Responses BY DEF NoResponse, Responses
  <2>2. /\ <<>> \in Seq(Calls)
        /\ [x \in Runners |-> <<>>] \in [Runners -> Seq(Reqs)]
        /\ [x \in Runners |-> <<>>] \in [Runners -> Seq(Items)]
    OBVIOUS
  <2>3. QED BY <2>1, <2>2 DEF TypeOK, CallStates, RunnerStates, ProcStates
<1>2. OneRunner BY DEF OneRunner, Active
<1>3. ExactlyOnePlace
  <2>1. \A c \in Calls : ~InQueue(c) /\ AtMostOnce(c, pendReq)
    BY DEF InQueue, Occurs, AtMostOnce
  <2>2. \A c \in Calls : ~Held(c) BY DEF Held, Calls
  <2>3. \A c \in Calls : ~Answered(c) BY DEF Answered, NoResponse
  <2>4. QED BY <2>1, <2>2, <2>3 DEF ExactlyOnePlace, Held
<1>4. NoLostWakeup BY DEF NoLostWakeup
<1>5. RunnerState BY DEF RunnerState
<1>6. QED BY <1>1, <1>2, <1>3, <1>4, <1>5 DEF IInv

\* startRequest with the flag set: the call enters the queue, the token is set.
LEMMA StartRequestQueuedIInv ==
  ASSUME IInv, NEW c \in Calls, StartRequestQueued(c)
  PROVE  IInv'
<1>. USE CallsAssumption DEF IInv, StartRequestQueued, callVars, queueVars, helperVars
<1>1. TypeOK'
  BY DEF TypeOK, CallStates, RunnerStates
<1>2. OneRunner'
  BY DEF TypeOK, OneRunner, Active
<1>3. ExactlyOnePlace'
  BY EnqueueStep
<1>4. NoLostWakeup'
  BY DEF TypeOK, NoLostWakeup, OneRunner, Active
<1>5. RunnerState'
  BY DEF TypeOK, RunnerState, OneRunner, Active
<1>6. QED BY <1>1, <1>2, <1>3, <1>4, <1>5

\* startRequest with the flag clear: no goroutine existed, one does now.
LEMMA StartRequestSpawnIInv ==
  ASSUME IInv, NEW c \in Calls, NEW g \in Runners, StartRequestSpawn(c, g)
  PROVE  IInv'
<1>. USE CallsAssumption DEF IInv, StartRequestSpawn, callVars, queueVars, helperVars
<1>1. TypeOK'
  BY DEF TypeOK, CallStates, RunnerStates
<1>2. OneRunner'
  BY DEF TypeOK, OneRunner, Active
<1>3. ExactlyOnePlace'
  BY EnqueueStep
<1>4. NoLostWakeup'
  BY DEF TypeOK, NoLostWakeup, OneRunner, Active
<1>5. RunnerState'
  BY DEF TypeOK, RunnerState, OneRunner, Active
<1>6. QED BY <1>1, <1>2, <1>3, <1>4, <1>5

\* A stop with the flag clear is answered and never queued.
LEMMA StartStopIdleIInv ==
  ASSUME IInv, NEW c \in Calls, StartStopIdle(c)
  PROVE  IInv'
<1>. USE CallsAssumption DEF IInv, StartStopIdle, callVars, queueVars, helperVars
<1>1. TypeOK'
  <2>1. [kind |-> "stopped", rev |-> None] \in Responses BY DEF Responses
  <2>2. QED BY <2>1 DEF TypeOK, CallStates
<1>2. OneRunner'
  BY DEF TypeOK, OneRunner, Active
<1>3. ExactlyOnePlace'
  <2>1. \A d \in Calls : /\ Answered(d)' <=> (Answered(d) \/ d = c)
                         /\ call'[d] # "idle" <=> (call[d] # "idle" \/ d = c)
    BY DEF TypeOK, Answered
  <2>2. \A d \in Calls : /\ InQueue(d)' <=> InQueue(d)
                         /\ Held(d)' <=> Held(d)
                         /\ AtMostOnce(d, pendReq)' <=> AtMostOnce(d, pendReq)
    <3>1. pendReq' = pendReq /\ cur' = cur OBVIOUS
    <3>2. QED BY ONLY <3>1 DEF InQueue, Held, Occurs, AtMostOnce
  <2>3. ~InQueue(c) /\ ~Held(c) /\ ~Answered(c) BY DEF ExactlyOnePlace
  <2>4. cur' = cur OBVIOUS
  <2>5. ExactlyOnePlace BY DEF IInv
  <2>6. QED BY ONLY <2>1, <2>2, <2>3, <2>4, <2>5 DEF ExactlyOnePlace
<1>4. NoLostWakeup'
  BY DEF TypeOK, NoLostWakeup, OneRunner, Active
<1>5. RunnerState'
  BY DEF TypeOK, RunnerState, OneRunner, Active
<1>6. QED BY <1>1, <1>2, <1>3, <1>4, <1>5

\* The caller takes the answer; the call stays answered.
LEMMA ReceiveIInv ==
  ASSUME IInv, NEW c \in Calls, Receive(c)
  PROVE  IInv'
<1>. USE CallsAssumption DEF IInv, Receive, callVars, queueVars, helperVars
<1>1. TypeOK'
  BY DEF TypeOK, CallStates, RunnerStates, ProcStates
<1>2. OneRunner'
  BY DEF TypeOK, OneRunner, Active
<1>3. ExactlyOnePlace'
  <2>1. \A d \in Calls : call'[d] # "idle" <=> call[d] # "idle" BY DEF TypeOK
  <2>2. pendReq' = pendReq /\ cur' = cur /\ res' = res OBVIOUS
  <2>3. ExactlyOnePlace OBVIOUS
  <2>4. QED BY ONLY <2>1, <2>2, <2>3 DEF ExactlyOnePlace, InQueue, Held, Answered, Occurs, AtMostOnce
<1>4. NoLostWakeup'
  BY DEF TypeOK, NoLostWakeup, OneRunner, Active
<1>5. RunnerState'
  BY DEF TypeOK, RunnerState, OneRunner, Active
<1>6. QED BY <1>1, <1>2, <1>3, <1>4, <1>5

\* The caller leaves; the call stays where it is.
LEMMA GiveUpIInv ==
  ASSUME IInv, NEW c \in Calls, GiveUp(c)
  PROVE  IInv'
<1>. USE CallsAssumption DEF IInv, GiveUp, callVars, queueVars, helperVars
<1>1. TypeOK'
  BY DEF TypeOK, CallStates, RunnerStates, ProcStates
<1>2. OneRunner'
  BY DEF TypeOK, OneRunner, Active
<1>3. ExactlyOnePlace'
  <2>1. \A d \in Calls : call'[d] # "idle" <=> call[d] # "idle" BY DEF TypeOK
  <2>2. pendReq' = pendReq /\ cur' = cur /\ res' = res OBVIOUS
  <2>3. ExactlyOnePlace OBVIOUS
  <2>4. QED BY ONLY <2>1, <2>2, <2>3 DEF ExactlyOnePlace, InQueue, Held, Answered, Occurs, AtMostOnce
<1>4. NoLostWakeup'
  BY DEF TypeOK, NoLostWakeup, OneRunner, Active
<1>5. RunnerState'
  BY DEF TypeOK, RunnerState, OneRunner, Active
<1>6. QED BY <1>1, <1>2, <1>3, <1>4, <1>5

\* The goroutine starts its helper.
LEMMA SetupOKIInv ==
  ASSUME IInv, NEW g \in Runners, SetupOK(g)
  PROVE  IInv'
<1>. USE CallsAssumption DEF IInv, SetupOK, callVars, queueVars, helperVars
<1>1. TypeOK'
  BY DEF TypeOK, CallStates, RunnerStates, ProcStates
<1>2. OneRunner'
  BY DEF TypeOK, OneRunner, Active
<1>3. ExactlyOnePlace'
  BY SamePlaces
<1>4. NoLostWakeup'
  BY DEF TypeOK, NoLostWakeup, OneRunner, Active
<1>5. RunnerState'
  BY DEF TypeOK, RunnerState, OneRunner, Active
<1>6. QED BY <1>1, <1>2, <1>3, <1>4, <1>5

\* The goroutine returns with no helper.
LEMMA SetupFailsIInv ==
  ASSUME IInv, NEW g \in Runners, SetupFails(g)
  PROVE  IInv'
<1>. USE CallsAssumption DEF IInv, SetupFails, callVars, queueVars, helperVars
<1>1. TypeOK'
  BY DEF TypeOK, CallStates, RunnerStates, ProcStates
<1>2. OneRunner'
  BY DEF TypeOK, OneRunner, Active
<1>3. ExactlyOnePlace'
  BY SamePlaces
<1>4. NoLostWakeup'
  BY DEF TypeOK, NoLostWakeup, OneRunner, Active
<1>5. RunnerState'
  BY DEF TypeOK, RunnerState, OneRunner, Active
<1>6. QED BY <1>1, <1>2, <1>3, <1>4, <1>5

\* The queue is empty, so no token is needed.
LEMMA TakeNothingIInv ==
  ASSUME IInv, NEW g \in Runners, TakeNothing(g)
  PROVE  IInv'
<1>. USE CallsAssumption DEF IInv, TakeNothing, callVars, queueVars, helperVars
<1>1. TypeOK'
  BY DEF TypeOK, CallStates, RunnerStates, ProcStates
<1>2. OneRunner'
  BY DEF TypeOK, OneRunner, Active
<1>3. ExactlyOnePlace'
  BY SamePlaces
<1>4. NoLostWakeup'
  BY DEF TypeOK, NoLostWakeup, OneRunner, Active
<1>5. RunnerState'
  BY DEF TypeOK, RunnerState, OneRunner, Active
<1>6. QED BY <1>1, <1>2, <1>3, <1>4, <1>5

\* A getObject call moves from the queue to the goroutine.
LEMMA TakeRequestIInv ==
  ASSUME IInv, NEW g \in Runners, TakeRequest(g)
  PROVE  IInv'
<1>. USE CallsAssumption DEF IInv, TakeRequest, callVars, queueVars, helperVars
<1>1. TypeOK'
  <2>1. Head(pendReq) \in Calls /\ Tail(pendReq) \in Seq(Calls) BY DEF TypeOK
  <2>2. QED BY <2>1 DEF TypeOK, RunnerStates
<1>2. OneRunner'
  BY DEF TypeOK, OneRunner, Active
<1>3. ExactlyOnePlace'
  <2>1. cur[g] = None BY DEF RunnerState
  <2>2. QED BY <2>1, TakeStep
<1>4. NoLostWakeup'
  BY DEF TypeOK, NoLostWakeup, OneRunner, Active
<1>5. RunnerState'
  BY DEF TypeOK, RunnerState, OneRunner, Active
<1>6. QED BY <1>1, <1>2, <1>3, <1>4, <1>5

\* A stop moves from the queue to the goroutine.
LEMMA TakeStopIInv ==
  ASSUME IInv, NEW g \in Runners, TakeStop(g)
  PROVE  IInv'
<1>. USE CallsAssumption DEF IInv, TakeStop, callVars, queueVars, helperVars
<1>1. TypeOK'
  <2>1. Head(pendReq) \in Calls /\ Tail(pendReq) \in Seq(Calls) BY DEF TypeOK
  <2>2. QED BY <2>1 DEF TypeOK, RunnerStates
<1>2. OneRunner'
  BY DEF TypeOK, OneRunner, Active
<1>3. ExactlyOnePlace'
  <2>1. cur[g] = None BY DEF RunnerState
  <2>2. QED BY <2>1, TakeStep
<1>4. NoLostWakeup'
  BY DEF TypeOK, NoLostWakeup, OneRunner, Active
<1>5. RunnerState'
  BY DEF TypeOK, RunnerState, OneRunner, Active
<1>6. QED BY <1>1, <1>2, <1>3, <1>4, <1>5

\* The token is consumed and the queue is looked at again.
LEMMA WokenIInv ==
  ASSUME IInv, NEW g \in Runners, Woken(g)
  PROVE  IInv'
<1>. USE CallsAssumption DEF IInv, Woken, callVars, queueVars, helperVars
<1>1. TypeOK'
  BY DEF TypeOK, CallStates, RunnerStates, ProcStates
<1>2. OneRunner'
  BY DEF TypeOK, OneRunner, Active
<1>3. ExactlyOnePlace'
  BY SamePlaces
<1>4. NoLostWakeup'
  BY DEF TypeOK, NoLostWakeup, OneRunner, Active
<1>5. RunnerState'
  BY DEF TypeOK, RunnerState, OneRunner, Active
<1>6. QED BY <1>1, <1>2, <1>3, <1>4, <1>5

\* The goroutine leaves its loop holding nothing.
LEMMA TakeTimeoutIInv ==
  ASSUME IInv, NEW g \in Runners, TakeTimeout(g)
  PROVE  IInv'
<1>. USE CallsAssumption DEF IInv, TakeTimeout, callVars, queueVars, helperVars
<1>1. TypeOK'
  BY DEF TypeOK, CallStates, RunnerStates, ProcStates
<1>2. OneRunner'
  BY DEF TypeOK, OneRunner, Active
<1>3. ExactlyOnePlace'
  BY SamePlaces
<1>4. NoLostWakeup'
  BY DEF TypeOK, NoLostWakeup, OneRunner, Active
<1>5. RunnerState'
  BY DEF TypeOK, RunnerState, OneRunner, Active
<1>6. QED BY <1>1, <1>2, <1>3, <1>4, <1>5

\* The held call's revision enters the pipe.
LEMMA WriteRevIInv ==
  ASSUME IInv, NEW g \in Runners, WriteRev(g)
  PROVE  IInv'
<1>. USE CallsAssumption DEF IInv, WriteRev, callVars, queueVars, helperVars
<1>1. TypeOK'
  <2>1. cur[g] \in Reqs BY DEF RunnerState
  <2>2. Append(stdin[g], cur[g]) \in Seq(Reqs) BY <2>1 DEF TypeOK
  <2>3. QED BY <2>2 DEF TypeOK, RunnerStates
<1>2. OneRunner'
  BY DEF TypeOK, OneRunner, Active
<1>3. ExactlyOnePlace'
  BY SamePlaces
<1>4. NoLostWakeup'
  BY DEF TypeOK, NoLostWakeup, OneRunner, Active
<1>5. RunnerState'
  BY DEF TypeOK, RunnerState, OneRunner, Active
<1>6. QED BY <1>1, <1>2, <1>3, <1>4, <1>5

\* The held call is answered with an error.
LEMMA WriteFailsIInv ==
  ASSUME IInv, NEW g \in Runners, WriteFails(g)
  PROVE  IInv'
<1>. USE CallsAssumption DEF IInv, WriteFails, SendErr, Reply, callVars, queueVars, helperVars
<1>1. TypeOK'
  <2>1. cur[g] \in Reqs /\ openSpans - 1 \in Nat BY DEF RunnerState, TypeOK
  <2>2. [kind |-> "error", rev |-> None] \in Responses BY DEF Responses
  <2>3. QED BY <2>1, <2>2 DEF TypeOK, RunnerStates
<1>2. OneRunner'
  BY DEF TypeOK, OneRunner, Active
<1>3. ExactlyOnePlace'
  <2>1. cur[g] \in Calls BY DEF RunnerState, Calls
  <2>2. [kind |-> "error", rev |-> None].kind # "none" OBVIOUS
  <2>3. QED BY <2>1, <2>2, AnswerStep
<1>4. NoLostWakeup'
  BY DEF TypeOK, NoLostWakeup, OneRunner, Active
<1>5. RunnerState'
  BY DEF TypeOK, RunnerState, OneRunner, Active
<1>6. QED BY <1>1, <1>2, <1>3, <1>4, <1>5

\* The held call is answered with an error.
LEMMA ReadFailsIInv ==
  ASSUME IInv, NEW g \in Runners, ReadFails(g)
  PROVE  IInv'
<1>. USE CallsAssumption DEF IInv, ReadFails, SendErr, Reply, callVars, queueVars, helperVars
<1>1. TypeOK'
  <2>1. cur[g] \in Reqs /\ openSpans - 1 \in Nat BY DEF RunnerState, TypeOK
  <2>2. [kind |-> "error", rev |-> None] \in Responses BY DEF Responses
  <2>3. QED BY <2>1, <2>2 DEF TypeOK, RunnerStates
<1>2. OneRunner'
  BY DEF TypeOK, OneRunner, Active
<1>3. ExactlyOnePlace'
  <2>1. cur[g] \in Calls BY DEF RunnerState, Calls
  <2>2. [kind |-> "error", rev |-> None].kind # "none" OBVIOUS
  <2>3. QED BY <2>1, <2>2, AnswerStep
<1>4. NoLostWakeup'
  BY DEF TypeOK, NoLostWakeup, OneRunner, Active
<1>5. RunnerState'
  BY DEF TypeOK, RunnerState, OneRunner, Active
<1>6. QED BY <1>1, <1>2, <1>3, <1>4, <1>5

\* The header is consumed.
LEMMA HeaderObjectIInv ==
  ASSUME IInv, NEW g \in Runners, HeaderObject(g)
  PROVE  IInv'
<1>. USE CallsAssumption DEF IInv, HeaderObject, NextItem, callVars, queueVars, helperVars
<1>1. TypeOK'
  <2>1. Tail(stdout[g]) \in Seq(Items) BY DEF TypeOK
  <2>2. QED BY <2>1 DEF TypeOK, RunnerStates
<1>2. OneRunner'
  BY DEF TypeOK, OneRunner, Active
<1>3. ExactlyOnePlace'
  BY SamePlaces
<1>4. NoLostWakeup'
  BY DEF TypeOK, NoLostWakeup, OneRunner, Active
<1>5. RunnerState'
  BY DEF TypeOK, RunnerState, OneRunner, Active
<1>6. QED BY <1>1, <1>2, <1>3, <1>4, <1>5

\* The held call is answered; its span stays open.
LEMMA HeaderMissingIInv ==
  ASSUME IInv, NEW g \in Runners, HeaderMissing(g)
  PROVE  IInv'
<1>. USE CallsAssumption DEF IInv, HeaderMissing, Reply, NextItem, callVars, queueVars, helperVars
<1>1. TypeOK'
  <2>1. Tail(stdout[g]) \in Seq(Items) /\ NextItem(g) \in Items BY DEF TypeOK
  <2>2. cur[g] \in Reqs BY DEF RunnerState, TypeOK
  <2>3. [kind |-> "missing", rev |-> NextItem(g).rev] \in Responses BY <2>1 DEF Responses, Items
  <2>4. QED BY <2>1, <2>2, <2>3 DEF TypeOK, RunnerStates
<1>2. OneRunner'
  BY DEF TypeOK, OneRunner, Active
<1>3. ExactlyOnePlace'
  <2>1. cur[g] \in Calls BY DEF RunnerState, Calls
  <2>2. [kind |-> "missing", rev |-> NextItem(g).rev].kind # "none" OBVIOUS
  <2>3. QED BY <2>1, <2>2, AnswerStep
<1>4. NoLostWakeup'
  BY DEF TypeOK, NoLostWakeup, OneRunner, Active
<1>5. RunnerState'
  BY DEF TypeOK, RunnerState, OneRunner, Active
<1>6. QED BY <1>1, <1>2, <1>3, <1>4, <1>5

\* The held call is answered with an error.
LEMMA HeaderRejectedIInv ==
  ASSUME IInv, NEW g \in Runners, HeaderRejected(g)
  PROVE  IInv'
<1>. USE CallsAssumption DEF IInv, HeaderRejected, SendErr, Reply, NextItem, callVars, queueVars, helperVars
<1>1. TypeOK'
  <2>1. Tail(stdout[g]) \in Seq(Items) /\ NextItem(g) \in Items BY DEF TypeOK
  <2>2. cur[g] \in Reqs /\ openSpans - 1 \in Nat BY DEF RunnerState, TypeOK
  <2>3. [kind |-> "error", rev |-> None] \in Responses BY <2>1 DEF Responses, Items
  <2>4. QED BY <2>1, <2>2, <2>3 DEF TypeOK, RunnerStates
<1>2. OneRunner'
  BY DEF TypeOK, OneRunner, Active
<1>3. ExactlyOnePlace'
  <2>1. cur[g] \in Calls BY DEF RunnerState, Calls
  <2>2. [kind |-> "error", rev |-> None].kind # "none" OBVIOUS
  <2>3. QED BY <2>1, <2>2, AnswerStep
<1>4. NoLostWakeup'
  BY DEF TypeOK, NoLostWakeup, OneRunner, Active
<1>5. RunnerState'
  BY DEF TypeOK, RunnerState, OneRunner, Active
<1>6. QED BY <1>1, <1>2, <1>3, <1>4, <1>5

\* The held call is answered with the object.
LEMMA ReadBodyIInv ==
  ASSUME IInv, NEW g \in Runners, ReadBody(g)
  PROVE  IInv'
<1>. USE CallsAssumption DEF IInv, ReadBody, Reply, NextItem, callVars, queueVars, helperVars
<1>1. TypeOK'
  <2>1. Tail(stdout[g]) \in Seq(Items) /\ NextItem(g) \in Items BY DEF TypeOK
  <2>2. cur[g] \in Reqs /\ openSpans - 1 \in Nat BY DEF RunnerState, TypeOK
  <2>3. [kind |-> "object", rev |-> NextItem(g).rev] \in Responses BY <2>1 DEF Responses, Items
  <2>4. QED BY <2>1, <2>2, <2>3 DEF TypeOK, RunnerStates
<1>2. OneRunner'
  BY DEF TypeOK, OneRunner, Active
<1>3. ExactlyOnePlace'
  <2>1. cur[g] \in Calls BY DEF RunnerState, Calls
  <2>2. [kind |-> "object", rev |-> NextItem(g).rev].kind # "none" OBVIOUS
  <2>3. QED BY <2>1, <2>2, AnswerStep
<1>4. NoLostWakeup'
  BY DEF TypeOK, NoLostWakeup, OneRunner, Active
<1>5. RunnerState'
  BY DEF TypeOK, RunnerState, OneRunner, Active
<1>6. QED BY <1>1, <1>2, <1>3, <1>4, <1>5

\* The helper is gone; a held stop is answered.
LEMMA WaitProcessIInv ==
  ASSUME IInv, NEW g \in Runners, WaitProcess(g)
  PROVE  IInv'
<1>. USE CallsAssumption DEF IInv, WaitProcess, Reply, callVars, queueVars, helperVars
<1>1. TypeOK'
  <2>1. [kind |-> "stopped", rev |-> None] \in Responses BY DEF Responses
  <2>2. res' \in [Calls -> Responses] BY <2>1 DEF TypeOK
  <2>3. QED BY <2>2 DEF TypeOK, RunnerStates
<1>2. OneRunner'
  BY DEF TypeOK, OneRunner, Active
<1>3. ExactlyOnePlace'
  <2>1. CASE cur[g] \in Stops
    <3>1. cur[g] \in Calls BY <2>1 DEF Calls
    <3>2. [kind |-> "stopped", rev |-> None].kind # "none" OBVIOUS
    <3>3. QED BY <2>1, <3>1, <3>2, AnswerStep
  <2>2. CASE cur[g] = None
    <3>1. cur' = cur BY <2>2 DEF TypeOK
    <3>2. QED BY <2>2, <3>1
      DEF ExactlyOnePlace, InQueue, Held, Answered, Occurs, AtMostOnce
  <2>3. QED BY <2>1, <2>2 DEF RunnerState
<1>4. NoLostWakeup'
  BY DEF TypeOK, NoLostWakeup, OneRunner, Active
<1>5. RunnerState'
  BY DEF TypeOK, RunnerState, OneRunner, Active
<1>6. QED BY <1>1, <1>2, <1>3, <1>4, <1>5

\* One goroutine ends and one starts in the same critical section.
LEMMA NoteDoneEmptyIInv ==
  ASSUME IInv, NEW g \in Runners, NEW h \in Runners, NoteDoneEmpty(g, h)
  PROVE  IInv'
<1>. USE CallsAssumption DEF IInv, NoteDoneEmpty, EndRunner, callVars, queueVars, helperVars
<1>1. TypeOK'
  <2>1. <<>> \in Seq(Reqs) /\ <<>> \in Seq(Items) OBVIOUS
  <2>2. QED BY <2>1 DEF TypeOK, RunnerStates, ProcStates
<1>2. OneRunner'
  BY DEF TypeOK, OneRunner, Active
<1>3. ExactlyOnePlace'
  BY SamePlaces
<1>4. NoLostWakeup'
  BY DEF TypeOK, NoLostWakeup, OneRunner, Active
<1>5. RunnerState'
  BY DEF TypeOK, RunnerState, OneRunner, Active
<1>6. QED BY <1>1, <1>2, <1>3, <1>4, <1>5

\* The only goroutine ends and the flag is cleared.
LEMMA NoteDonePendingIInv ==
  ASSUME IInv, NEW g \in Runners, NoteDonePending(g)
  PROVE  IInv'
<1>. USE CallsAssumption DEF IInv, NoteDonePending, EndRunner, callVars, queueVars, helperVars
<1>1. TypeOK'
  <2>1. <<>> \in Seq(Reqs) /\ <<>> \in Seq(Items) OBVIOUS
  <2>2. QED BY <2>1 DEF TypeOK, RunnerStates, ProcStates
<1>2. OneRunner'
  BY DEF TypeOK, OneRunner, Active
<1>3. ExactlyOnePlace'
  BY SamePlaces
<1>4. NoLostWakeup'
  BY DEF TypeOK, NoLostWakeup, OneRunner, Active
<1>5. RunnerState'
  BY DEF TypeOK, RunnerState, OneRunner, Active
<1>6. QED BY <1>1, <1>2, <1>3, <1>4, <1>5

\* The helper touches only its pipes.
LEMMA HelperHeaderIInv ==
  ASSUME IInv, NEW g \in Runners, HelperHeader(g)
  PROVE  IInv'
<1>. USE CallsAssumption DEF IInv, HelperHeader, callVars, queueVars, helperVars
<1>1. TypeOK'
  <2>1. Head(stdin[g]) \in Reqs /\ Tail(stdin[g]) \in Seq(Reqs) BY DEF TypeOK
  <2>2. [part |-> "header", rev |-> Head(stdin[g])] \in Items BY <2>1 DEF Items
  <2>3. Append(stdout[g], [part |-> "header", rev |-> Head(stdin[g])]) \in Seq(Items)
    BY <2>2 DEF TypeOK
  <2>4. QED BY <2>1, <2>3 DEF TypeOK
<1>2. OneRunner'
  BY DEF TypeOK, OneRunner, Active
<1>3. ExactlyOnePlace'
  BY SamePlaces
<1>4. NoLostWakeup'
  BY DEF TypeOK, NoLostWakeup, OneRunner, Active
<1>5. RunnerState'
  BY DEF TypeOK, RunnerState, OneRunner, Active
<1>6. QED BY <1>1, <1>2, <1>3, <1>4, <1>5

\* The helper touches only its pipes.
LEMMA HelperBodyIInv ==
  ASSUME IInv, NEW g \in Runners, HelperBody(g)
  PROVE  IInv'
<1>. USE CallsAssumption DEF IInv, HelperBody, callVars, queueVars, helperVars
<1>1. TypeOK'
  <2>1. sending[g] \in Reqs BY DEF TypeOK
  <2>2. [part |-> "body", rev |-> sending[g]] \in Items BY <2>1 DEF Items
  <2>3. Append(stdout[g], [part |-> "body", rev |-> sending[g]]) \in Seq(Items)
    BY <2>2 DEF TypeOK
  <2>4. QED BY <2>3 DEF TypeOK
<1>2. OneRunner'
  BY DEF TypeOK, OneRunner, Active
<1>3. ExactlyOnePlace'
  BY SamePlaces
<1>4. NoLostWakeup'
  BY DEF TypeOK, NoLostWakeup, OneRunner, Active
<1>5. RunnerState'
  BY DEF TypeOK, RunnerState, OneRunner, Active
<1>6. QED BY <1>1, <1>2, <1>3, <1>4, <1>5

\* The helper of a waiting goroutine exits.
LEMMA HelperExitIInv ==
  ASSUME IInv, NEW g \in Runners, HelperExit(g)
  PROVE  IInv'
<1>. USE CallsAssumption DEF IInv, HelperExit, callVars, queueVars, helperVars
<1>1. TypeOK'
  BY DEF TypeOK, CallStates, RunnerStates, ProcStates
<1>2. OneRunner'
  BY DEF TypeOK, OneRunner, Active
<1>3. ExactlyOnePlace'
  BY SamePlaces
<1>4. NoLostWakeup'
  BY DEF TypeOK, NoLostWakeup, OneRunner, Active
<1>5. RunnerState'
  BY DEF TypeOK, RunnerState, OneRunner, Active
<1>6. QED BY <1>1, <1>2, <1>3, <1>4, <1>5

\* A helper dies.
LEMMA HelperDiesIInv ==
  ASSUME IInv, NEW g \in Runners, HelperDies(g)
  PROVE  IInv'
<1>. USE CallsAssumption DEF IInv, HelperDies, callVars, queueVars, helperVars
<1>1. TypeOK'
  BY DEF TypeOK, CallStates, RunnerStates, ProcStates
<1>2. OneRunner'
  BY DEF TypeOK, OneRunner, Active
<1>3. ExactlyOnePlace'
  BY SamePlaces
<1>4. NoLostWakeup'
  BY DEF TypeOK, NoLostWakeup, OneRunner, Active
<1>5. RunnerState'
  BY DEF TypeOK, RunnerState, OneRunner, Active
<1>6. QED BY <1>1, <1>2, <1>3, <1>4, <1>5

\* Every step keeps the inductive invariant.
LEMMA NextIInv == IInv /\ [Next]_vars => IInv'
<1>1. SUFFICES ASSUME IInv, [Next]_vars PROVE IInv' OBVIOUS
<1>2. CASE UNCHANGED vars
  <2>1. ExactlyOnePlace' BY <1>1, <1>2, SamePlaces DEF IInv, vars
  <2>2. QED BY <1>1, <1>2, <2>1 DEF vars, IInv, TypeOK, OneRunner, Active, NoLostWakeup, RunnerState
<1>3. ASSUME NEW c \in Calls, StartRequest(c) \/ Receive(c) \/ GiveUp(c) PROVE IInv'
  BY <1>1, <1>3, StartRequestQueuedIInv, StartRequestSpawnIInv, StartStopIdleIInv,
    ReceiveIInv, GiveUpIInv DEF StartRequest
<1>4. ASSUME NEW g \in Runners, RunCatFileBatch(g) PROVE IInv'
  BY <1>1, <1>4, SetupOKIInv, SetupFailsIInv, TakeNothingIInv, TakeRequestIInv,
    TakeStopIInv, WokenIInv, TakeTimeoutIInv, WriteRevIInv, WriteFailsIInv,
    ReadFailsIInv, HeaderObjectIInv, HeaderMissingIInv, HeaderRejectedIInv,
    ReadBodyIInv, WaitProcessIInv, NoteDoneEmptyIInv, NoteDonePendingIInv
    DEF RunCatFileBatch, NoteCatFileBatchDone
<1>5. ASSUME NEW g \in Runners, Helper(g) \/ HelperDies(g) PROVE IInv'
  BY <1>1, <1>5, HelperHeaderIInv, HelperBodyIInv, HelperExitIInv, HelperDiesIInv DEF Helper
<1>6. QED BY <1>1, <1>2, <1>3, <1>4, <1>5 DEF Next

\* Initially and after every step: the inductive invariant always holds.
LEMMA InvariantIInv == Spec => []IInv
BY InitIInv, NextIInv, PTL DEF Spec

-----------------------------------------------------------------------------
(* The theorems *)

\* Every variable keeps its type; in particular a span is never ended more
\* often than it was started, and a response always has the right shape.
THEOREM TypeCorrect == Spec => []TypeOK
BY InvariantIInv, PTL DEF IInv

\* catFileBatchRunning is set exactly while a runCatFileBatch goroutine exists,
\* and two of them never exist at the same time.
THEOREM AtMostOneRunner == Spec => []OneRunner
BY InvariantIInv, PTL DEF IInv

\* Each started call is queued once, held by one goroutine, or answered: none
\* is lost and none is answered twice.
THEOREM CallsHaveOnePlace == Spec => []ExactlyOnePlace
BY InvariantIInv, PTL DEF IInv

\* A goroutine never sleeps in takePendingRequest beside a queued request
\* without a wake token waiting for it.
THEOREM WakeupsAreNotLost == Spec => []NoLostWakeup
BY InvariantIInv, PTL DEF IInv

\* At the step that answers a stop no helper process is alive.
LEMMA StopAnsweredStep ==
  ASSUME IInv, [Next]_vars, NEW s \in Stops, ~Answered(s), Answered(s)'
  PROVE  \A g \in Runners : proc[g] # "ready"
<1>. USE CallsAssumption DEF IInv, RunnerState, OneRunner, Active
<1>1. ASSUME NEW q \in Reqs, NEW r, res' = [res EXCEPT ![q] = r] PROVE FALSE
  <2>1. s \in Calls /\ s # q BY DEF Calls
  <2>2. res'[s] = res[s] BY <1>1, <2>1 DEF TypeOK
  <2>3. QED BY <2>2 DEF Answered
<1>2. res' # res BY DEF Answered
<1>3. ASSUME NEW c \in Calls, StartRequest(c) \/ Receive(c) \/ GiveUp(c)
      PROVE  \A g \in Runners : proc[g] # "ready"
  BY <1>2, <1>3 DEF StartRequest, StartRequestQueued, StartRequestSpawn,
    StartStopIdle, Receive, GiveUp, TypeOK
<1>4. ASSUME NEW g \in Runners, RunCatFileBatch(g)
      PROVE  \A h \in Runners : proc[h] # "ready"
  <2>a. ~(WriteFails(g) \/ ReadFails(g) \/ HeaderRejected(g))
    <3>1. SUFFICES ASSUME WriteFails(g) \/ ReadFails(g) \/ HeaderRejected(g)
                   PROVE  FALSE
      OBVIOUS
    <3>2. pc[g] \in {"write", "header", "body"} /\ SendErr(g)
      BY <3>1 DEF WriteFails, ReadFails, HeaderRejected
    <3>3. cur[g] \in Reqs BY <3>2
    <3>4. QED BY <1>1, <3>2, <3>3 DEF SendErr, Reply
  <2>b. ~(HeaderMissing(g) \/ ReadBody(g))
    BY <1>1 DEF HeaderMissing, ReadBody, Reply
  <2>1. WaitProcess(g)
    BY <1>2, <1>4, <2>a, <2>b DEF RunCatFileBatch, SetupOK, SetupFails,
      TakeNothing, TakeRequest, TakeStop, Woken, TakeTimeout, WriteRev,
      HeaderObject, NoteCatFileBatchDone, NoteDoneEmpty, NoteDonePending, callVars
  <2>2. proc[g] = "dead" /\ pc[g] = "wait" BY <2>1 DEF WaitProcess
  <2>3. QED BY <2>2 DEF TypeOK
<1>5. ASSUME NEW g \in Runners, Helper(g) \/ HelperDies(g) PROVE FALSE
  BY <1>2, <1>5 DEF Helper, HelperHeader, HelperBody, HelperExit, HelperDies, callVars
<1>6. ~UNCHANGED vars BY <1>2 DEF vars
<1>7. QED BY <1>3, <1>4, <1>5, <1>6 DEF Next

\* StopGitHelperProcess returns success only after the helper has exited.
THEOREM StopsAreAnsweredAfterExit == Spec => StopAnsweredAfterExit
<1>1. IInv /\ [Next]_vars =>
        [\A s \in Stops : ~Answered(s) /\ Answered(s)'
           => \A g \in Runners : proc[g] # "ready"]_vars
  BY StopAnsweredStep
<1>2. QED BY <1>1, InvariantIInv, PTL DEF Spec, StopAnsweredAfterExit

-----------------------------------------------------------------------------
(* What the pipes hold, and that a reply is about its request *)

\* The pipes as queues of at most two elements.
LEMMA ShortPipes ==
  ASSUME NEW a, NEW b
  PROVE  /\ Append(<<>>, a) = <<a>>
         /\ Append(<<a>>, b) = <<a, b>>
         /\ <<a>> # <<>> /\ Head(<<a>>) = a /\ Tail(<<a>>) = <<>>
         /\ <<a, b>> # <<>> /\ Head(<<a, b>>) = a /\ Tail(<<a, b>>) = <<b>>
<1>1. Append(<<>>, a) = <<a>> OBVIOUS
<1>2. Append(<<a>>, b) = <<a, b>>
  <2>. DEFINE s == Append(<<a>>, b)
              t == <<a, b>>
  <2>1. s \in Seq({a, b}) /\ t \in Seq({a, b}) OBVIOUS
  <2>2. Len(s) = 2 /\ Len(t) = 2 OBVIOUS
  <2>3. s[1] = a /\ s[2] = b OBVIOUS
  <2>4. t[1] = a /\ t[2] = b OBVIOUS
  <2>5. \A i \in 1..Len(s) : s[i] = t[i] BY <2>2, <2>3, <2>4
  <2>. HIDE DEF s, t
  <2>6. s = t BY <2>1, <2>2, <2>5, SeqEqual
  <2>7. QED BY <2>6 DEF s, t
<1>3. <<a>> # <<>> /\ Head(<<a>>) = a /\ Tail(<<a>>) = <<>> OBVIOUS
<1>4. <<a, b>> # <<>> /\ Head(<<a, b>>) = a OBVIOUS
<1>5. Tail(<<a, b>>) = <<b>> OBVIOUS
<1>6. QED BY <1>1, <1>2, <1>3, <1>4, <1>5

\* A goroutine whose place, request and pipes do not change keeps its pipe state.
LEMMA SamePipes ==
  ASSUME NEW g \in Runners, PipeStateOf(g),
         pc'[g] = pc[g], cur'[g] = cur[g], stdin'[g] = stdin[g],
         stdout'[g] = stdout[g], sending'[g] = sending[g]
  PROVE  PipeStateOf(g)'
BY DEF PipeStateOf, Line, Contents

\* The steps of the calls do not touch the goroutines' pipes; a goroutine that is started
\* has empty ones.
LEMMA CallPipes ==
  ASSUME IInv, PipeState, NEW c \in Calls, StartRequest(c) \/ Receive(c) \/ GiveUp(c)
  PROVE  PipeState'
<1>. USE DEF callVars, queueVars, helperVars
<1>1. SUFFICES ASSUME NEW h \in Runners PROVE PipeStateOf(h)' BY DEF PipeState
<1>2. PipeStateOf(h) BY DEF PipeState
<1>3. CASE StartRequestQueued(c) \/ StartStopIdle(c) \/ Receive(c) \/ GiveUp(c)
  BY <1>2, <1>3, SamePipes DEF StartRequestQueued, StartStopIdle, Receive, GiveUp
<1>4. ASSUME NEW g \in Runners, StartRequestSpawn(c, g) PROVE PipeStateOf(h)'
  <2>1. CASE h = g
    BY <1>2, <1>4, <2>1 DEF StartRequestSpawn, PipeStateOf, IInv, TypeOK
  <2>2. CASE h # g
    BY <1>2, <1>4, <2>2, SamePipes DEF StartRequestSpawn, IInv, TypeOK
  <2>3. QED BY <2>1, <2>2
<1>5. QED BY <1>3, <1>4 DEF StartRequest

\* A step of a goroutine leaves the pipes of the others alone.
LEMMA OtherPipes ==
  ASSUME IInv, PipeState, NEW g \in Runners, NEW h \in Runners, h # g,
         RunCatFileBatch(g) \/ Helper(g) \/ HelperDies(g)
  PROVE  PipeStateOf(h)'
<1>. USE DEF callVars, queueVars, helperVars, IInv, TypeOK
<1>1. PipeStateOf(h) BY DEF PipeState
<1>2. CASE SetupOK(g) \/ SetupFails(g) \/ TakeNothing(g) \/ TakeRequest(g) \/ TakeStop(g)
             \/ Woken(g) \/ TakeTimeout(g) \/ WriteRev(g)
  BY <1>1, <1>2, SamePipes DEF SetupOK, SetupFails, TakeNothing, TakeRequest, TakeStop,
    Woken, TakeTimeout, WriteRev
<1>3. CASE WriteFails(g) \/ ReadFails(g) \/ HeaderObject(g) \/ HeaderMissing(g)
             \/ HeaderRejected(g) \/ ReadBody(g) \/ WaitProcess(g)
  BY <1>1, <1>3, SamePipes DEF WriteFails, ReadFails, HeaderObject, HeaderMissing,
    HeaderRejected, ReadBody, WaitProcess, SendErr
<1>4. ASSUME NEW k \in Runners, NoteDoneEmpty(g, k) PROVE PipeStateOf(h)'
  <2>1. CASE h = k
    BY <1>1, <1>4, <2>1 DEF NoteDoneEmpty, EndRunner, PipeStateOf
  <2>2. CASE h # k
    BY <1>1, <1>4, <2>2, SamePipes DEF NoteDoneEmpty, EndRunner
  <2>3. QED BY <2>1, <2>2
<1>5. CASE NoteDonePending(g)
  BY <1>1, <1>5, SamePipes DEF NoteDonePending, EndRunner
<1>6. CASE Helper(g) \/ HelperDies(g)
  BY <1>1, <1>6, SamePipes DEF Helper, HelperHeader, HelperBody, HelperExit, HelperDies
<1>7. QED BY <1>2, <1>3, <1>4, <1>5, <1>6 DEF RunCatFileBatch, NoteCatFileBatchDone

\* A goroutine and its helper keep the pipes to the request that the goroutine holds: it
\* is written into empty pipes, and what is read is the line, and then the contents, that
\* the helper wrote for it.
LEMMA OwnPipes ==
  ASSUME IInv, PipeState, NEW g \in Runners,
         RunCatFileBatch(g) \/ Helper(g) \/ HelperDies(g)
  PROVE  PipeStateOf(g)'
<1>. USE DEF callVars, queueVars, helperVars
<1>1. PipeStateOf(g) BY DEF PipeState
<1>t. TypeOK /\ RunnerState BY DEF IInv
<1>2. CASE SetupOK(g) \/ SetupFails(g) \/ TakeNothing(g) \/ TakeRequest(g) \/ TakeStop(g)
             \/ Woken(g) \/ TakeTimeout(g)
  BY <1>1, <1>2, <1>t DEF SetupOK, SetupFails, TakeNothing, TakeRequest, TakeStop,
    Woken, TakeTimeout, PipeStateOf, TypeOK
<1>3. CASE WriteRev(g)
  <2>1. stdin[g] = <<>> /\ stdout[g] = <<>> /\ sending[g] = None
    BY <1>1, <1>3 DEF WriteRev, PipeStateOf
  <2>2. stdin'[g] = <<cur[g]>> BY <1>3, <1>t, <2>1, ShortPipes DEF WriteRev, TypeOK
  <2>3. QED BY <1>3, <1>t, <2>1, <2>2 DEF WriteRev, PipeStateOf, TypeOK
<1>4. CASE WriteFails(g) \/ ReadFails(g) \/ HeaderRejected(g) \/ WaitProcess(g)
  BY <1>4, <1>t DEF WriteFails, ReadFails, HeaderRejected, WaitProcess, SendErr, PipeStateOf, TypeOK
<1>5. CASE HeaderObject(g)
  <2>1. PICK q : q = cur[g] OBVIOUS
  <2>2. stdin[g] = <<>> /\ NextItem(g) = Line(q)
    BY <1>1, <1>5, <2>1, ShortPipes DEF HeaderObject, PipeStateOf, NextItem
  <2>3. Answer[q] = "object" BY <1>5, <2>2 DEF HeaderObject, Line
  <2>4. \/ Tail(stdout[g]) = <<>> /\ sending[g] = q
        \/ Tail(stdout[g]) = <<Contents(q)>> /\ sending[g] = None
    <3>1. Tail(<<Line(q)>>) = <<>> /\ Tail(<<Line(q), Contents(q)>>) = <<Contents(q)>>
      BY ShortPipes
    <3>2. QED BY <1>1, <1>5, <2>1, <2>3, <3>1 DEF HeaderObject, PipeStateOf
  <2>5. QED BY <1>5, <1>t, <2>1, <2>2, <2>3, <2>4 DEF HeaderObject, PipeStateOf, TypeOK
<1>6. CASE HeaderMissing(g)
  <2>1. PICK q : q = cur[g] OBVIOUS
  <2>2. stdin[g] = <<>> /\ NextItem(g) = Line(q)
    BY <1>1, <1>6, <2>1, ShortPipes DEF HeaderMissing, PipeStateOf, NextItem
  <2>3. Answer[q] = "missing" BY <1>6, <2>2 DEF HeaderMissing, Line
  <2>4. Tail(stdout[g]) = <<>> /\ sending[g] = None
    BY <1>1, <1>6, <2>1, <2>3, ShortPipes DEF HeaderMissing, PipeStateOf
  <2>5. QED BY <1>6, <1>t, <2>2, <2>4 DEF HeaderMissing, PipeStateOf, TypeOK
<1>7. CASE ReadBody(g)
  <2>1. stdin[g] = <<>> /\ stdout[g] = <<Contents(cur[g])>> /\ sending[g] = None
    BY <1>1, <1>7 DEF ReadBody, PipeStateOf
  <2>2. Tail(stdout[g]) = <<>> BY <2>1, ShortPipes
  <2>3. QED BY <1>7, <1>t, <2>1, <2>2 DEF ReadBody, PipeStateOf, TypeOK
<1>8. ASSUME NEW k \in Runners, NoteDoneEmpty(g, k) PROVE PipeStateOf(g)'
  BY <1>8, <1>t DEF NoteDoneEmpty, EndRunner, PipeStateOf, TypeOK
<1>9. CASE NoteDonePending(g)
  BY <1>9, <1>t DEF NoteDonePending, EndRunner, PipeStateOf, TypeOK
<1>10. CASE HelperHeader(g)
  <2>1. PICK q : q = cur[g] OBVIOUS
  <2>2. CASE pc[g] = "header"
    <3>1. stdin[g] = <<q>> /\ stdout[g] = <<>>
      BY <1>1, <1>10, <2>1, <2>2 DEF HelperHeader, PipeStateOf
    <3>2. Head(stdin[g]) = q /\ Tail(stdin[g]) = <<>> BY <3>1, ShortPipes
    <3>3. stdout'[g] = <<Line(q)>> BY <1>10, <1>t, <3>1, <3>2, ShortPipes DEF HelperHeader, TypeOK, Line
    <3>4. stdin'[g] = <<>> BY <1>10, <1>t, <3>2 DEF HelperHeader, TypeOK
    <3>5. sending'[g] = IF Answer[q] \in {"object", "huge"} THEN q ELSE None
      BY <1>10, <1>t, <3>2 DEF HelperHeader, TypeOK
    <3>6. QED BY <1>10, <2>1, <2>2, <3>3, <3>4, <3>5 DEF HelperHeader, PipeStateOf, Line
  <2>3. CASE pc[g] # "header"
    BY <1>1, <1>10, <1>t, <2>3 DEF HelperHeader, PipeStateOf, TypeOK
  <2>4. QED BY <2>2, <2>3
<1>11. CASE HelperBody(g)
  <2>1. PICK q : q = cur[g] OBVIOUS
  <2>2. CASE pc[g] = "header"
    <3>1. /\ stdin[g] = <<>> /\ stdout[g] = <<Line(q)>> /\ sending[g] = q
          /\ Answer[q] = "object"
      BY <1>1, <1>11, <2>1, <2>2 DEF HelperBody, PipeStateOf
    <3>2. stdout'[g] = Append(stdout[g], Contents(q))
      BY <1>11, <1>t, <3>1 DEF HelperBody, TypeOK, Contents
    <3>3. stdout'[g] = <<Line(q), Contents(q)>>
      <4>1. Append(<<Line(q)>>, Contents(q)) = <<Line(q), Contents(q)>> BY ShortPipes
      <4>2. QED BY <3>1, <3>2, <4>1
    <3>4. QED BY <1>11, <1>t, <2>1, <2>2, <3>1, <3>3 DEF HelperBody, PipeStateOf, TypeOK, Line, Contents
  <2>3. CASE pc[g] = "body"
    <3>1. stdin[g] = <<>> /\ stdout[g] = <<>> /\ sending[g] = q /\ Answer[q] = "object"
      BY <1>1, <1>11, <2>1, <2>3 DEF HelperBody, PipeStateOf
    <3>2. stdout'[g] = <<Contents(q)>>
      BY <1>11, <1>t, <3>1, ShortPipes DEF HelperBody, TypeOK, Contents
    <3>3. QED BY <1>11, <1>t, <2>1, <2>3, <3>1, <3>2 DEF HelperBody, PipeStateOf, TypeOK, Contents
  <2>4. CASE pc[g] \notin {"header", "body"}
    BY <1>1, <1>11, <1>t, <2>4 DEF HelperBody, PipeStateOf, TypeOK
  <2>5. QED BY <2>2, <2>3, <2>4
<1>12. CASE HelperExit(g) \/ HelperDies(g)
  BY <1>1, <1>12, SamePipes DEF HelperExit, HelperDies
<1>13. QED BY <1>2, <1>3, <1>4, <1>5, <1>6, <1>7, <1>8, <1>9, <1>10, <1>11, <1>12
  DEF RunCatFileBatch, NoteCatFileBatchDone, Helper

\* The only replies with an answer of git are those of HeaderMissing and ReadBody, and
\* there the pipes hold the request that is answered.
LEMMA ReplyStep ==
  ASSUME IInv, PipeState, ReplyIsForRequest, [Next]_vars
  PROVE  ReplyIsForRequest'
<1>. USE CallsAssumption DEF callVars, queueVars, helperVars
<1>t. TypeOK /\ RunnerState BY DEF IInv
<1>1. SUFFICES ASSUME NEW q \in Reqs, res'[q] # res[q]
               PROVE  CASE res'[q].kind = "object" -> res'[q].rev = q /\ Answer[q] = "object"
                        [] res'[q].kind = "missing" -> res'[q].rev = q /\ Answer[q] = "missing"
                        [] OTHER -> res'[q].kind \in {"none", "error"}
  BY DEF ReplyIsForRequest
<1>2. q \in Calls /\ q \notin Stops BY DEF Calls
<1>3. ASSUME NEW c \in Calls, StartRequest(c) \/ Receive(c) \/ GiveUp(c) PROVE FALSE
  BY <1>1, <1>2, <1>3, <1>t DEF StartRequest, StartRequestQueued, StartRequestSpawn, StartStopIdle,
    Receive, GiveUp, TypeOK
<1>4. ASSUME NEW g \in Runners, SendErr(g) PROVE res'[q].kind = "error"
  BY <1>1, <1>2, <1>4, <1>t DEF SendErr, Reply, TypeOK
<1>5. ASSUME NEW g \in Runners, HeaderMissing(g)
      PROVE  res'[q] = [kind |-> "missing", rev |-> q] /\ Answer[q] = "missing"
  <2>1. PipeStateOf(g) BY DEF PipeState
  <2>2. q = cur[g] /\ res'[q] = [kind |-> "missing", rev |-> NextItem(g).rev]
    BY <1>1, <1>2, <1>5, <1>t DEF HeaderMissing, Reply, TypeOK
  <2>3. NextItem(g) = Line(q)
    BY <1>5, <2>1, <2>2, ShortPipes DEF HeaderMissing, PipeStateOf, NextItem
  <2>4. QED BY <1>5, <2>2, <2>3 DEF HeaderMissing, Line
<1>6. ASSUME NEW g \in Runners, ReadBody(g)
      PROVE  res'[q] = [kind |-> "object", rev |-> q] /\ Answer[q] = "object"
  <2>1. PipeStateOf(g) BY DEF PipeState
  <2>2. q = cur[g] /\ res'[q] = [kind |-> "object", rev |-> NextItem(g).rev]
    BY <1>1, <1>2, <1>6, <1>t DEF ReadBody, Reply, TypeOK
  <2>3. NextItem(g) = Contents(q) /\ Answer[q] = "object"
    BY <1>6, <2>1, <2>2, ShortPipes DEF ReadBody, PipeStateOf, NextItem
  <2>4. QED BY <2>2, <2>3 DEF Contents
<1>7. ASSUME NEW g \in Runners, WaitProcess(g) PROVE FALSE
  BY <1>1, <1>2, <1>7, <1>t DEF WaitProcess, Reply, TypeOK
<1>8. ASSUME NEW g \in Runners, RunCatFileBatch(g)
      PROVE  SendErr(g) \/ HeaderMissing(g) \/ ReadBody(g)
  BY <1>1, <1>7, <1>8 DEF RunCatFileBatch, SetupOK, SetupFails, TakeNothing, TakeRequest,
    TakeStop, Woken, TakeTimeout, WriteRev, WriteFails, ReadFails, HeaderObject, HeaderRejected,
    NoteCatFileBatchDone, NoteDoneEmpty, NoteDonePending
<1>9. ASSUME NEW g \in Runners, Helper(g) \/ HelperDies(g) PROVE FALSE
  BY <1>1, <1>9 DEF Helper, HelperHeader, HelperBody, HelperExit, HelperDies
<1>10. CASE Next
  <2>1. PICK g \in Runners : SendErr(g) \/ HeaderMissing(g) \/ ReadBody(g)
    BY <1>3, <1>8, <1>9, <1>10 DEF Next
  <2>2. QED BY <1>4, <1>5, <1>6, <2>1
<1>11. CASE UNCHANGED vars BY <1>1, <1>11 DEF vars
<1>12. QED BY <1>10, <1>11

\* A getObject call is answered with what git says about its own revision, whatever
\* requests were cancelled, helpers lost or restarted before: the pipes hold only the
\* request that the goroutine holds.
THEOREM RepliesAreForRequests == Spec => []ReplyIsForRequest
<1>1. Init => PipeState /\ ReplyIsForRequest
  BY CallsAssumption DEF Init, PipeState, PipeStateOf, ReplyIsForRequest, NoResponse, Calls
<1>2. IInv /\ PipeState /\ [Next]_vars => PipeState'
  <2>1. SUFFICES ASSUME IInv, PipeState, [Next]_vars PROVE PipeState' OBVIOUS
  <2>2. ASSUME NEW c \in Calls, StartRequest(c) \/ Receive(c) \/ GiveUp(c) PROVE PipeState'
    BY <2>1, <2>2, CallPipes
  <2>3. ASSUME NEW g \in Runners, RunCatFileBatch(g) \/ Helper(g) \/ HelperDies(g)
        PROVE  PipeState'
    <3>1. SUFFICES ASSUME NEW h \in Runners PROVE PipeStateOf(h)' BY DEF PipeState
    <3>2. QED BY <2>1, <2>3, OwnPipes, OtherPipes
  <2>4. CASE UNCHANGED vars
    BY <2>1, <2>4 DEF vars, PipeState, PipeStateOf, Line, Contents
  <2>5. QED BY <2>1, <2>2, <2>3, <2>4 DEF Next
<1>3. IInv /\ PipeState /\ ReplyIsForRequest /\ [Next]_vars => ReplyIsForRequest'
  BY ReplyStep
<1>4. QED BY <1>1, <1>2, <1>3, InvariantIInv, PTL DEF Spec

=============================================================================

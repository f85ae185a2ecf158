--------------------------- MODULE LLMQueueProofs ---------------------------
(***************************************************************************)
(* Proofs about the LLM request queue, for every number of requests and     *)
(* every limit: type correctness, slot accounting, one answer per request,  *)
(* no empty answer, no lost wakeup, one place per unanswered request,       *)
(* counters that add up, and that the queue implements the bounded FIFO of  *)
(* LLMQueueAbs.  The inductive invariant IInv says who owns a request       *)
(* (queue, scheduler or worker), how far a scan of cleanup is, which slot   *)
(* the scheduler has reserved and which channels have been used; a step     *)
(* changes few of its parts, so each part has its own step lemma.           *)
(***************************************************************************)
EXTENDS LLMQueue, FiniteSetTheorems, TLAPS

(* Type correctness.                                                         *)

\* The steps that actions share keep the types of what they change.
LEMMA CountType ==
  ASSUME total \in [Counters -> Nat], NEW C, Count(C)
  PROVE  total' \in [Counters -> Nat]
BY DEF Count

\* Generate moves on, or returns, to one of its states.
LEMMA GotoType ==
  ASSUME ClientType, NEW r \in Requests,
         NEW pc \in {"idle", "ctxErr", "zeroResponse"} \cup Running \cup Refused \cup Answers,
         Goto(r, pc) \/ Return(r, pc)
  PROVE  ClientType'
BY DEF ClientType, Goto, Return

\* A send puts an answer on a ResponseCh.
LEMMA SendType ==
  ASSUME reply \in [Requests -> Seq(Answers)],
         NEW r \in Requests, NEW a \in Answers, Send(r, a)
  PROVE  reply' \in [Requests -> Seq(Answers)]
BY DEF Send

\* A close counts on closes.
LEMMA CloseType ==
  ASSUME closes \in [Requests -> Nat], NEW r \in Requests, CloseCh(r)
  PROVE  closes' \in [Requests -> Nat]
BY DEF CloseCh

\* The attempt loop ends with an answer.
LEMMA FinishType ==
  ASSUME LoopType, NEW r \in Requests, NEW a \in Answers, Finish(r, a),
         inFlight' \subseteq Requests
  PROVE  LoopType'
BY DEF LoopType, Finish

\* What Append and Tail do to the elements and the length of a sequence.
LEMMA AppendFacts ==
  ASSUME NEW S, NEW s \in Seq(S), NEW e \in S
  PROVE  /\ Append(s, e) \in Seq(S) /\ Len(Append(s, e)) = Len(s) + 1
         /\ \A i \in 1..Len(s) : Append(s, e)[i] = s[i]
         /\ Append(s, e)[Len(s) + 1] = e
OBVIOUS

\* The same for the tail of a non-empty sequence.
LEMMA TailFacts ==
  ASSUME NEW S, NEW s \in Seq(S), s # <<>>
  PROVE  /\ Len(s) \in Nat \ {0} /\ Tail(s) \in Seq(S) /\ Len(Tail(s)) = Len(s) - 1
         /\ Head(s) \in S /\ Head(s) = s[1]
         /\ \A i \in 1..Len(Tail(s)) : Tail(s)[i] = s[i + 1]
OBVIOUS

\* A part of the state that does not change keeps its type.
LEMMA TypeFrame ==
  /\ ClientType /\ UNCHANGED clientVars => ClientType'
  /\ QueueType /\ UNCHANGED queueVars => QueueType'
  /\ SlotType /\ UNCHANGED slotVars => SlotType'
  /\ LoopType /\ UNCHANGED loopVars => LoopType'
  /\ ChanType /\ UNCHANGED chanVars => ChanType'
  /\ SchedType /\ UNCHANGED schedVars => SchedType'
  /\ ScanType /\ UNCHANGED scanVars => ScanType'
  /\ CtlType /\ UNCHANGED ctlVars => CtlType'
BY DEF ClientType, QueueType, SlotType, LoopType, ChanType, SchedType, ScanType, CtlType,
   clientVars, queueVars, slotVars, loopVars, chanVars, schedVars, scanVars, ctlVars

\* The initial state has the types.
LEMMA InitType == Init => TypeOK
<1> SUFFICES ASSUME Init PROVE TypeOK
  OBVIOUS
<1>1. ClientType /\ QueueType /\ SlotType
  BY DEF Init, ClientType, QueueType, SlotType
<1>2. LoopType /\ ChanType
  BY DEF Init, LoopType, ChanType
<1>3. SchedType /\ ScanType
  BY DEF Init, SchedType, ScanType
<1>4. CtlType
  <2>1. closed \in BOOLEAN /\ doneClosed \in BOOLEAN
    BY Zenon DEF Init
  <2> QED
    BY <2>1, QueueAssumption DEF Init, CtlType
<1>5. dispatchCh \in {0, 1} /\ total \in [Counters -> Nat]
  BY DEF Init
<1> QED
  BY <1>1, <1>2, <1>3, <1>4, <1>5 DEF TypeOK

\* A step keeps the types: per action, the parts it changes; TypeFrame has the rest.
LEMMA TypeStep ==
  ASSUME TypeOK, [Next]_vars
  PROVE  TypeOK'
<1> USE DEF TypeOK
<1>1. ASSUME NEW r \in Requests, \/ Generate(r) \/ SubmitCheck(r) \/ SubmitReject(r)
                                \/ SubmitTrigger(r) \/ AwaitCtx(r)
      PROVE  TypeOK'
  <2>1. ClientType'
    BY <1>1, GotoType DEF Generate, SubmitCheck, SubmitReject, SubmitTrigger, AwaitCtx,
      Running, Refused
  <2>2. dispatchCh' \in {0, 1} /\ total' \in [Counters -> Nat]
    BY <1>1, CountType DEF Generate, SubmitCheck, SubmitReject, SubmitTrigger, AwaitCtx,
      TriggerDispatch
  <2> QED
    BY <1>1, <2>1, <2>2, TypeFrame DEF Generate, SubmitCheck, SubmitReject, SubmitTrigger, AwaitCtx
<1>2. ASSUME NEW r \in Requests, AwaitReply(r) PROVE  TypeOK'
  <2>1. reply[r] # <<>> => reply[r][1] \in Answers
    BY DEF ChanType
  <2>2. ClientType'
    BY <1>2, <2>1, GotoType DEF AwaitReply
  <2> QED
    BY <1>2, <2>1, <2>2, TypeFrame DEF AwaitReply
<1>3. ASSUME NEW r \in Requests, SubmitEnqueue(r) PROVE TypeOK'
  <2>1. Append(pending, r) \in Seq(Requests)
    BY AppendFacts DEF QueueType
  <2>2. QueueType' /\ ClientType'
    <3>1. CASE Len(pending) >= MaxQueueSize
      BY <1>3, <3>1, GotoType DEF SubmitEnqueue, QueueType, Running
    <3>2. CASE ~(Len(pending) >= MaxQueueSize)
      BY <1>3, <3>2, <2>1, GotoType DEF SubmitEnqueue, Enqueue, QueueType, Running
    <3> QED
      BY <3>1, <3>2
  <2> QED
    BY <1>3, <2>2, TypeFrame DEF SubmitEnqueue
<1>4. ASSUME NEW r \in Requests, CtxEnd(r) \/ WaitExpires(r) PROVE TypeOK'
  <2>1. ClientType' /\ QueueType'
    BY <1>4, TypeFrame DEF CtxEnd, WaitExpires, ClientType, QueueType
  <2> QED
    BY <1>4, <2>1, TypeFrame DEF CtxEnd, WaitExpires
<1>5. ASSUME NEW r \in Requests, WorkerCtx(r) PROVE TypeOK'
  <2>1. ChanType'
    BY <1>5, SendType DEF WorkerCtx, SendCanceled, ChanType, Answers
  <2>2. SlotType'
    BY <1>5 DEF WorkerCtx, SlotType
  <2> QED
    BY <1>5, <2>1, <2>2, TypeFrame DEF WorkerCtx
<1>6. ASSUME NEW r \in Requests, WorkerResult(r) PROVE TypeOK'
  <2>1. resultCh[r] \in Answers
    BY <1>6 DEF WorkerResult, LoopType
  <2>2. ChanType'
    BY <1>6, <2>1, SendType DEF WorkerResult, ChanType
  <2>3. SlotType' /\ LoopType'
    BY <1>6 DEF WorkerResult, SlotType, LoopType
  <2> QED
    BY <1>6, <2>2, <2>3, TypeFrame DEF WorkerResult
<1>7. ASSUME NEW r \in Requests, WorkerRelease(r) PROVE TypeOK'
  <2>1. SlotType' /\ total' \in [Counters -> Nat]
    BY <1>7, CountType DEF WorkerRelease, SlotType
  <2> QED
    BY <1>7, <2>1, TypeFrame DEF WorkerRelease
<1>8. ASSUME NEW r \in Requests, WorkerExit(r) PROVE TypeOK'
  <2>1. SlotType' /\ ChanType'
    BY <1>8, CloseType DEF WorkerExit, SlotType, ChanType
  <2> QED
    BY <1>8, <2>1, TypeFrame DEF WorkerExit, TriggerDispatch
<1>9. ASSUME NEW r \in Requests, Launch(r) PROVE TypeOK'
  <2>1. LoopType'
    BY <1>9 DEF Launch, LoopType
  <2> QED
    BY <1>9, <2>1, TypeFrame DEF Launch
<1>10. ASSUME NEW r \in Requests, LoopCtx(r) PROVE TypeOK'
  <2>1. "ctxEnded" \in Answers /\ inFlight' \subseteq Requests
    BY <1>10 DEF LoopCtx, LoopType, Answers
  <2>2. LoopType'
    BY <1>10, <2>1, FinishType DEF LoopCtx
  <2> QED
    BY <1>10, <2>2, TypeFrame DEF LoopCtx
<1>11. ASSUME NEW r \in Requests, NEW k \in HandlerResults, HandlerReturn(r, k)
       PROVE  TypeOK'
  <2>1. k \in Answers
    BY QueueAssumption DEF Answers
  <2>2. inFlight' \subseteq Requests
    BY <1>11 DEF HandlerReturn, LoopType
  <2>3. LoopType'
    <3>1. CASE Finish(r, k)
      BY <2>1, <2>2, <3>1, FinishType
    <3>2. CASE UNCHANGED <<tries, resultCh>> /\ loop' \in {loop, [loop EXCEPT ![r] = "launch"]}
      BY <2>2, <3>2 DEF LoopType
    <3> QED
      BY <1>11, <3>1, <3>2 DEF HandlerReturn
  <2> QED
    BY <1>11, <2>3, TypeFrame DEF HandlerReturn
<1>12. ASSUME SchedWake \/ SchedStop \/ SchedSlots PROVE TypeOK'
  <2>1. SchedType' /\ dispatchCh' \in {0, 1}
    BY <1>12 DEF SchedWake, SchedStop, SchedSlots, SchedType
  <2> QED
    BY <1>12, <2>1, TypeFrame DEF SchedWake, SchedStop, SchedSlots
<1>13. ASSUME SchedPop PROVE TypeOK'
  <2>1. pending # <<>> => Head(pending) \in Requests /\ Tail(pending) \in Seq(Requests)
    BY TailFacts DEF QueueType
  <2>2. QueueType'
    BY <1>13, <2>1 DEF SchedPop, QueueType
  <2>3. SchedType'
    BY <1>13, <2>1, QueueAssumption DEF SchedPop, SchedType
  <2> QED
    BY <1>13, <2>2, <2>3, TypeFrame DEF SchedPop
<1>14. ASSUME SchedDrop PROVE TypeOK'
  <2>1. sreq \in Requests /\ SchedType'
    BY <1>14 DEF SchedDrop, SchedType
  <2>2. ChanType'
    BY <1>14, <2>1, SendType, CloseType DEF SchedDrop, ChanType, Answers
  <2> QED
    BY <1>14, <2>1, <2>2, TypeFrame DEF SchedDrop
<1>15. ASSUME SchedCount PROVE TypeOK'
  <2>1. SchedType' /\ total' \in [Counters -> Nat]
    BY <1>15, CountType DEF SchedCount, SchedType
  <2> QED
    BY <1>15, <2>1, TypeFrame DEF SchedCount
<1>16. ASSUME SchedStart PROVE TypeOK'
  <2>1. SchedType' /\ sreq \in Requests
    BY <1>16 DEF SchedStart, SchedType
  <2>2. SlotType' /\ LoopType'
    BY <1>16, <2>1 DEF SchedStart, SlotType, LoopType
  <2> QED
    BY <1>16, <2>1, <2>2, TypeFrame DEF SchedStart
<1>17. ASSUME CleanupTick PROVE TypeOK'
  <2>1. ScanType' /\ CtlType'
    BY <1>17 DEF CleanupTick, LockForScan, ScanType, CtlType, QueueType
  <2> QED
    BY <1>17, <2>1, TypeFrame DEF CleanupTick
<1>18. ASSUME CleanupKeep PROVE TypeOK'
  <2>1. pending[scanPos] \in Requests
    BY <1>18 DEF CleanupKeep, QueueType, ScanType
  <2>2. Append(newPending, pending[scanPos]) \in Seq(Requests)
    BY <2>1, AppendFacts DEF ScanType
  <2>3. ScanType'
    BY <1>18, <2>2 DEF CleanupKeep, Keep, ScanType
  <2> QED
    BY <1>18, <2>3, TypeFrame DEF CleanupKeep
<1>19. ASSUME CleanupAnswer PROVE TypeOK'
  <2>1. pending[scanPos] \in Requests
    BY <1>19 DEF CleanupAnswer, QueueType, ScanType
  <2>2. ChanType'
    BY <1>19, <2>1, SendType, CloseType DEF CleanupAnswer, ChanType, Answers
  <2>3. ScanType'
    BY <1>19 DEF CleanupAnswer, ScanType
  <2> QED
    BY <1>19, <2>2, <2>3, TypeFrame DEF CleanupAnswer
<1>20. ASSUME CleanupCount PROVE TypeOK'
  <2>1. ScanType' /\ total' \in [Counters -> Nat]
    BY <1>20, CountType DEF CleanupCount, ScanType
  <2> QED
    BY <1>20, <2>1, TypeFrame DEF CleanupCount
<1>21. ASSUME CleanupCommit PROVE TypeOK'
  <2>1. QueueType' /\ ScanType' /\ CtlType'
    BY <1>21 DEF CleanupCommit, QueueType, ScanType, CtlType
  <2> QED
    BY <1>21, <2>1, TypeFrame DEF CleanupCommit
<1>22. ASSUME CleanupTrigger \/ CleanupStop PROVE TypeOK'
  <2>1. ScanType' /\ dispatchCh' \in {0, 1}
    BY <1>22 DEF CleanupTrigger, CleanupStop, TriggerDispatch, ScanType
  <2> QED
    BY <1>22, <2>1, TypeFrame DEF CleanupTrigger, CleanupStop
<1>23. ASSUME Stop \/ StopDone \/ GetStatsLock \/ GetStatsRead PROVE TypeOK'
  <2>1. CtlType'
    <3>1. CASE Stop \/ StopDone
      BY <1>23, <3>1, Zenon DEF Stop, StopDone, otherVars, CtlType
    <3>2. CASE GetStatsLock
      BY <3>2 DEF GetStatsLock, otherVars, CtlType
    <3>3. CASE GetStatsRead
      BY <3>3 DEF GetStatsRead, otherVars, CtlType
    <3> QED
      BY <1>23, <3>1, <3>2, <3>3
  <2> QED
    BY <1>23, <2>1, TypeFrame DEF Stop, StopDone, GetStatsLock, GetStatsRead, otherVars
<1>24. CASE UNCHANGED vars
  BY <1>24, TypeFrame DEF vars
<1> QED
  BY <1>1, <1>2, <1>3, <1>4, <1>5, <1>6, <1>7, <1>8, <1>9, <1>10, <1>11, <1>12, <1>13,
     <1>14, <1>15, <1>16, <1>17, <1>18, <1>19, <1>20, <1>21, <1>22, <1>23, <1>24
  DEF Next, ClientStep, Scheduler, WorkerStep, LoopStep, Cleanup

\* Every variable keeps its type; in particular dispatchCh never holds two
\* tokens, and the scheduler holds a request exactly between popping it and
\* being done with it (triggerDispatch, tryDispatch).
THEOREM TypeCorrect == Spec => []TypeOK
<1>1. Init => TypeOK
  BY InitType
<1>2. TypeOK /\ [Next]_vars => TypeOK'
  BY TypeStep
<1> QED
  BY <1>1, <1>2, PTL DEF Spec

-----------------------------------------------------------------------------
(* The inductive invariant behind SlotAccounting and AnsweredOnce.          *)

\* r is not in the hands of the queue yet; nothing was sent to r.
Fresh(r)     == client[r] \in {"idle", "check", "enqueue"}
Untouched(r) == reply[r] = <<>> /\ closes[r] = 0

\* A request is in the queue once, and then neither in the scheduler's hands
\* nor with a worker; nothing happens to a request before it is queued.
Ownership ==
  /\ \A i, j \in 1..Len(pending) : pending[i] = pending[j] => i = j
  /\ \A i \in 1..Len(pending) : /\ worker[pending[i]] = "none"
                                /\ ~Fresh(pending[i])
                                /\ pending[i] # sreq
  /\ sreq \in Requests => worker[sreq] = "none" /\ ~Fresh(sreq)
  /\ \A r \in Requests : Fresh(r) => worker[r] = "none" /\ Untouched(r)

\* While cleanup scans it holds pendingMu, and newPending has what it passed
\* and did not answer, in the order of the queue.
Scanning == cpc \in {"scan", "count"}
ScanState ==
  /\ Scanning => pendingMu = "cleanup"
  /\ ~Scanning => scanPos = 1 /\ newPending = <<>> /\ cutoff = {}
  /\ scanPos <= Len(pending) + 1 /\ Len(newPending) < scanPos
  /\ cpc = "count" => scanPos <= Len(pending)
  /\ \A i, j \in 1..Len(newPending) : newPending[i] = newPending[j] => i = j
  /\ \A i \in 1..Len(newPending) : \E j \in 1..(scanPos - 1) :
       j <= Len(pending) /\ newPending[i] = pending[j] /\ pending[j] \notin cutoff

\* The scheduler tested for a free slot and has not used it yet.
Holders == {r \in Requests : HoldsSlot(r)}
SlotReserved ==
  /\ activeCount = Cardinality(Holders)
  /\ activeCount <= MaxConcurrency
  /\ spc \notin {"select", "slots", "stopped"} => activeCount < MaxConcurrency
  /\ Len(pending) <= MaxQueueSize

\* What was sent and closed, by where the request is: in the queue and not
\* passed by the scan, with the scheduler, with a worker, anywhere.
AnsweredAt(i) == pending[i] \in cutoff /\ (i < scanPos \/ (i = scanPos /\ cpc = "count"))
QueuedUntouched == \A i \in 1..Len(pending) : AnsweredAt(i) \/ Untouched(pending[i])
HeldUntouched   == spc \in {"start", "dropTimeout", "dropCanceled"} => Untouched(sreq)
ReplyState(r) ==
  /\ worker[r] = "select" => Untouched(r)
  /\ worker[r] \in {"canceled", "answered", "exit"} => Len(reply[r]) = 1 /\ closes[r] = 0
  /\ Len(reply[r]) <= 1 /\ closes[r] <= Len(reply[r])
ReplyStates == \A r \in Requests : ReplyState(r)

IInv == /\ TypeOK /\ Ownership /\ ScanState /\ SlotReserved
        /\ QueuedUntouched /\ HeldUntouched /\ ReplyStates

-----------------------------------------------------------------------------
(* Facts about the steps several actions share.                            *)

\* A send and a close touch the channel of one request.
LEMMA SendFacts ==
  ASSUME TypeOK, NEW r \in Requests, NEW a, Send(r, a)
  PROVE  /\ \A q \in Requests \ {r} : reply'[q] = reply[q]
         /\ Len(reply'[r]) = Len(reply[r]) + 1
BY DEF TypeOK, ChanType, Send

\* The same for the close.
LEMMA CloseFacts ==
  ASSUME TypeOK, NEW r \in Requests, CloseCh(r)
  PROVE  /\ \A q \in Requests \ {r} : closes'[q] = closes[q]
         /\ closes'[r] = closes[r] + 1
BY DEF TypeOK, ChanType, CloseCh

\* Who is in the queue keeps its place when nobody comes in, starts to work or
\* is answered before it was queued.
LEMMA OwnershipFrame ==
  ASSUME TypeOK, Ownership, pending' = pending, sreq' = sreq,
         \A q \in Requests : Fresh(q)' => Fresh(q),
         \A q \in Requests : worker[q] = "none" => worker'[q] = "none",
         \A q \in Requests : Fresh(q) => reply'[q] = reply[q] /\ closes'[q] = closes[q]
  PROVE  Ownership'
<1>1. \A i \in 1..Len(pending) : pending[i] \in Requests
  BY DEF TypeOK, QueueType
<1> QED
  BY <1>1 DEF Ownership, Untouched

\* Scheduler, cleanup and workers never own one request together: every step
\* keeps Ownership.
LEMMA OwnershipStep ==
  ASSUME IInv, TypeOK', [Next]_vars
  PROVE  Ownership'
<1> USE DEF IInv, clientVars, queueVars, slotVars, loopVars, chanVars,
        schedVars, scanVars, ctlVars
<1>1. ASSUME pending' = pending, sreq' = sreq, worker' = worker, chanVars' = chanVars,
             \A q \in Requests : Fresh(q)' => Fresh(q)
      PROVE  Ownership'
  BY <1>1, OwnershipFrame
<1>2. ASSUME NEW r \in Requests, \/ Generate(r) \/ SubmitCheck(r) \/ SubmitReject(r)
                                \/ SubmitTrigger(r) \/ AwaitReply(r) \/ AwaitCtx(r)
      PROVE  Ownership'
  <2>1. \A q \in Requests : Fresh(q)' => Fresh(q)
    <3>1. ASSUME AwaitReply(r) PROVE \A q \in Requests : Fresh(q)' => Fresh(q)
      <4>1. reply[r] # <<>> => reply[r][1] \in Answers
        BY DEF TypeOK, ChanType
      <4>2. client'[r] \notin {"idle", "check", "enqueue"}
        BY <3>1, <4>1 DEF AwaitReply, Return, TypeOK, ClientType, Answers, ErrorTypes
      <4> QED
        BY <3>1, <4>2 DEF AwaitReply, Return, TypeOK, ClientType, Fresh
    <3>2. CASE ~AwaitReply(r)
      <4>1. client = [q \in Requests |-> client[q]]
        BY DEF TypeOK, ClientType
      <4>2. CASE Generate(r)
        BY <4>1, <4>2 DEF Fresh, Generate, Goto
      <4>3. CASE SubmitCheck(r)
        BY <4>1, <4>3 DEF Fresh, SubmitCheck, Goto, Return
      <4>4. CASE SubmitReject(r) \/ SubmitTrigger(r) \/ AwaitCtx(r)
        BY <4>1, <4>4 DEF Fresh, SubmitReject, SubmitTrigger, AwaitCtx, Goto, Return
      <4> QED
        BY <1>2, <3>2, <4>2, <4>3, <4>4
    <3> QED
      BY <3>1, <3>2
  <2> QED
    BY <1>1, <1>2, <2>1
    DEF Generate, SubmitCheck, SubmitReject, SubmitTrigger, AwaitReply, AwaitCtx
<1>3. ASSUME NEW r \in Requests, SubmitEnqueue(r) PROVE Ownership'
  <2>1. \A q \in Requests : Fresh(q)' => Fresh(q) /\ q # r
    BY <1>3 DEF TypeOK, ClientType, Fresh, SubmitEnqueue, Goto
  <2>2. CASE pending' = pending
    BY <1>1, <1>3, <2>1, <2>2 DEF SubmitEnqueue
  <2>3. CASE pending' = Append(pending, r)
    <3>1. Fresh(r) /\ r # sreq /\ worker[r] = "none"
      BY <1>3, QueueAssumption DEF SubmitEnqueue, Fresh, Ownership, TypeOK, SchedType
    <3>2. /\ Len(pending') = Len(pending) + 1 /\ Len(pending) \in Nat
          /\ \A i \in 1..Len(pending) : pending'[i] = pending[i] /\ pending[i] \in Requests
          /\ pending'[Len(pending) + 1] = r
      <4>1. pending \in Seq(Requests)
        BY DEF TypeOK, QueueType
      <4> QED
        BY <2>3, <4>1, AppendFacts
    <3>3. UNCHANGED <<worker, sreq, reply, closes>>
      BY <1>3 DEF SubmitEnqueue
    <3>7. \A i \in 1..Len(pending) : pending[i] # r
      BY <3>1, <3>2 DEF Ownership
    <3>4. \A i \in 1..Len(pending') : i \in 1..Len(pending) \/ i = Len(pending) + 1
      BY <3>2
    <3>5. \A i, j \in 1..Len(pending') : pending'[i] = pending'[j] => i = j
      BY <3>2, <3>4, <3>7 DEF Ownership
    <3>6. \A i \in 1..Len(pending') : /\ worker'[pending'[i]] = "none"
                                     /\ ~Fresh(pending[i])'
                                     /\ pending'[i] # sreq'
      BY <2>1, <3>1, <3>2, <3>3, <3>4, <3>7 DEF Ownership
    <3> QED
      BY <2>1, <3>1, <3>3, <3>5, <3>6 DEF Ownership, Untouched
  <2> QED
    BY <1>3, <2>2, <2>3 DEF SubmitEnqueue, Enqueue
<1>4. ASSUME NEW r \in Requests, WorkerStep(r) PROVE Ownership'
  <2>1. worker[r] # "none" /\ ~Fresh(r)
    BY <1>4 DEF Ownership, WorkerStep, WorkerCtx, WorkerResult, WorkerRelease, WorkerExit
  <2>2. /\ UNCHANGED <<pending, sreq, client>>
        /\ \A q \in Requests \ {r} : worker'[q] = worker[q]
    BY <1>4 DEF TypeOK, SlotType, WorkerStep, WorkerCtx, WorkerResult, WorkerRelease, WorkerExit
  <2>3. \A q \in Requests \ {r} : reply'[q] = reply[q] /\ closes'[q] = closes[q]
    BY <1>4, SendFacts, CloseFacts
    DEF WorkerStep, WorkerCtx, SendCanceled, WorkerResult, WorkerRelease, WorkerExit
  <2> QED
    BY <2>1, <2>2, <2>3, OwnershipFrame DEF Fresh
<1>5. ASSUME SchedPop PROVE Ownership'
  <2>1. CASE pending = <<>>
    BY <1>1, <1>5, <2>1 DEF SchedPop, Fresh
  <2>2. CASE pending # <<>>
    <3>1. /\ pending' = Tail(pending) /\ sreq' = pending[1]
          /\ Len(pending) \in Nat \ {0} /\ Len(pending') = Len(pending) - 1
          /\ \A i \in 1..Len(pending') : pending'[i] = pending[i + 1]
      <4>1. pending \in Seq(Requests)
        BY DEF TypeOK, QueueType
      <4>2. pending' = Tail(pending) /\ sreq' = Head(pending)
        BY <1>5, <2>2 DEF SchedPop
      <4> QED
        BY <2>2, <4>1, <4>2, TailFacts
    <3>2. UNCHANGED <<client, worker, reply, closes>>
      BY <1>5 DEF SchedPop
    <3>3. \A i \in 1..Len(pending') : i + 1 \in 1..Len(pending) /\ i + 1 # 1
      BY <3>1
    <3> QED
      BY <3>1, <3>2, <3>3 DEF Ownership, Fresh, Untouched
  <2> QED
    BY <2>1, <2>2
<1>6. ASSUME SchedDrop PROVE Ownership'
  <2>1. sreq \in Requests /\ ~Fresh(sreq)
    BY <1>6 DEF SchedDrop, TypeOK, SchedType, Ownership
  <2>2. /\ UNCHANGED <<pending, sreq, client, worker>>
        /\ \A q \in Requests \ {sreq} : reply'[q] = reply[q] /\ closes'[q] = closes[q]
    BY <1>6, <2>1, SendFacts, CloseFacts DEF SchedDrop
  <2> QED
    BY <2>1, <2>2, OwnershipFrame DEF Fresh
<1>7. ASSUME SchedCount PROVE Ownership'
  BY <1>7, QueueAssumption DEF SchedCount, TypeOK, QueueType, SchedType, Ownership, Fresh, Untouched
<1>8. ASSUME SchedStart PROVE Ownership'
  BY <1>8, QueueAssumption DEF SchedStart, TypeOK, QueueType, SchedType, SlotType, Ownership, Fresh, Untouched
<1>9. ASSUME CleanupAnswer PROVE Ownership'
  <2>1. pending[scanPos] \in Requests /\ ~Fresh(pending[scanPos])
    BY <1>9 DEF CleanupAnswer, TypeOK, QueueType, ScanType, Ownership
  <2>2. /\ UNCHANGED <<pending, sreq, client, worker>>
        /\ \A q \in Requests \ {pending[scanPos]} :
             reply'[q] = reply[q] /\ closes'[q] = closes[q]
    BY <1>9, <2>1, SendFacts, CloseFacts DEF CleanupAnswer
  <2> QED
    BY <2>1, <2>2, OwnershipFrame DEF Fresh
<1>10. ASSUME CleanupCommit PROVE Ownership'
  <2>1. pending' = newPending /\ UNCHANGED <<client, worker, sreq, reply, closes>>
    BY <1>10 DEF CleanupCommit
  <2>2. \A i \in 1..Len(newPending) : \E j \in 1..Len(pending) : newPending[i] = pending[j]
    BY DEF ScanState, TypeOK, QueueType, ScanType
  <2> QED
    BY <2>1, <2>2 DEF Ownership, Fresh, Untouched, ScanState
<1>11. ASSUME \/ UNCHANGED vars
             \/ SchedWake \/ SchedStop \/ SchedSlots \/ CleanupTick \/ CleanupKeep
             \/ CleanupCount \/ CleanupTrigger \/ CleanupStop \/ Stop \/ StopDone
             \/ GetStatsLock \/ GetStatsRead
             \/ \E r \in Requests : \/ CtxEnd(r)
                  \/ WaitExpires(r)
                  \/ Launch(r)
                  \/ LoopCtx(r)
                  \/ \E k \in HandlerResults : HandlerReturn(r, k)
       PROVE  Ownership'
  BY <1>1, <1>11
  DEF vars, CtxEnd, WaitExpires, Launch, LoopCtx, HandlerReturn, SchedWake,
      SchedStop, SchedSlots, SlotsFull, CleanupTick, LockForScan, CleanupKeep,
      Keep, CleanupCount, CleanupTrigger, CleanupStop, Stop, otherVars,
      StopDone, GetStatsLock, GetStatsRead, Fresh
<1> QED
  BY <1>2, <1>3, <1>4, <1>5, <1>6, <1>7, <1>8, <1>9, <1>10, <1>11
  DEF Next, ClientStep, Scheduler, LoopStep, Cleanup

\* Every step keeps ScanState: the queue does not move under a scan of cleanup.
LEMMA ScanStateStep ==
  ASSUME IInv, TypeOK', [Next]_vars
  PROVE  ScanState'
<1> USE DEF IInv, clientVars, queueVars, slotVars, loopVars, chanVars,
        schedVars, scanVars, ctlVars
<1>1. ASSUME UNCHANGED <<cpc, scanPos, newPending, cutoff, pending, pendingMu>>
      PROVE  ScanState'
  BY <1>1 DEF ScanState, Scanning
<1>2. ASSUME UNCHANGED <<cpc, scanPos, newPending, cutoff, pendingMu>>, pendingMu = "free"
      PROVE  ScanState'
  <2>1. ~Scanning /\ scanPos = 1 /\ newPending = <<>> /\ cutoff = {}
    BY <1>2 DEF ScanState
  <2>2. Len(pending') \in Nat
    BY DEF TypeOK, QueueType
  <2> QED
    BY <1>2, <2>1, <2>2 DEF ScanState, Scanning
<1>3. ASSUME NEW r \in Requests, SubmitEnqueue(r) PROVE ScanState'
  BY <1>2, <1>3 DEF SubmitEnqueue
<1>4. ASSUME SchedPop PROVE ScanState'
  BY <1>2, <1>4 DEF SchedPop
<1>5. ASSUME CleanupTick PROVE ScanState'
  BY <1>5 DEF CleanupTick, LockForScan, ScanState, Scanning, TypeOK, QueueType, ScanType
<1>6. ASSUME CleanupKeep PROVE ScanState'
  <2>0. pending \in Seq(Requests) /\ newPending \in Seq(Requests)
    BY DEF TypeOK, QueueType, ScanType
  <2>1. /\ pending \in Seq(Requests) /\ newPending \in Seq(Requests)
        /\ scanPos \in Nat \ {0} /\ Len(pending) \in Nat /\ Len(newPending) \in Nat
    <3>1. scanPos \in Nat \ {0}
      BY DEF TypeOK, ScanType
    <3> QED
      BY <2>0, <3>1
  <2> DEFINE x == pending[scanPos]
             n == Len(newPending)
  <2>2. /\ cpc = "scan" /\ cpc' = "scan" /\ scanPos <= Len(pending) /\ scanPos' = scanPos + 1
        /\ x \notin cutoff /\ newPending' = Append(newPending, x)
        /\ UNCHANGED <<pending, pendingMu, cutoff>>
    BY <1>6 DEF CleanupKeep, Keep
  <2>3. x \in Requests
    BY <2>1, <2>2
  <2>4. /\ Len(newPending') = n + 1 /\ newPending'[n + 1] = x
        /\ \A i \in 1..n : newPending'[i] = newPending[i]
    BY <2>1, <2>2, <2>3, AppendFacts
  <2>5. \A i \in 1..n : \E j \in 1..(scanPos - 1) :
          j <= Len(pending) /\ newPending[i] = pending[j] /\ pending[j] \notin cutoff
    BY DEF ScanState
  <2>6. \A i \in 1..n : newPending[i] # x
    BY <2>1, <2>2, <2>5 DEF Ownership
  <2>7. \A i, j \in 1..(n + 1) : newPending'[i] = newPending'[j] => i = j
    <3>1. \A i \in 1..(n + 1) : i \in 1..n \/ i = n + 1
      BY <2>1
    <3> QED
      BY <2>4, <2>6, <3>1 DEF ScanState
  <2>8. \A i \in 1..(n + 1) : \E j \in 1..scanPos :
          j <= Len(pending) /\ newPending'[i] = pending[j] /\ pending[j] \notin cutoff
    <3>1. \A i \in 1..(n + 1) : i \in 1..n \/ i = n + 1
      BY <2>1
    <3>2. scanPos \in 1..scanPos /\ \A j \in 1..(scanPos - 1) : j \in 1..scanPos
      BY <2>1
    <3>3. \A i \in 1..n : newPending'[i] = newPending[i]
      BY <2>4
    <3>4. ASSUME NEW i \in 1..n
          PROVE  \E j \in 1..scanPos :
                   j <= Len(pending) /\ newPending'[i] = pending[j] /\ pending[j] \notin cutoff
      BY <2>5, <3>2, <3>3
    <3>5. \E j \in 1..scanPos :
            j <= Len(pending) /\ newPending'[n + 1] = pending[j] /\ pending[j] \notin cutoff
      BY <2>2, <2>4, <3>2
    <3> QED
      BY ONLY <3>1, <3>4, <3>5
  <2>9. n < scanPos /\ pendingMu = "cleanup"
    BY <2>2 DEF ScanState, Scanning
  <2> HIDE DEF x, n
  <2> QED
    BY <2>1, <2>2, <2>4, <2>7, <2>8, <2>9 DEF ScanState, Scanning, n
<1>7. ASSUME CleanupAnswer PROVE ScanState'
  BY <1>7 DEF CleanupAnswer, ScanState, Scanning, TypeOK, QueueType, ScanType
<1>8. ASSUME CleanupCount PROVE ScanState'
  <2>0. pending \in Seq(Requests) /\ newPending \in Seq(Requests) /\ scanPos \in Nat \ {0}
    BY DEF TypeOK, QueueType, ScanType
  <2>1. Len(pending) \in Nat /\ Len(newPending) \in Nat
    BY <2>0
  <2>2. /\ cpc = "count" /\ cpc' = "scan" /\ scanPos' = scanPos + 1
        /\ UNCHANGED <<pending, pendingMu, newPending, cutoff>>
    BY <1>8 DEF CleanupCount
  <2>3. \A j \in 1..(scanPos - 1) : j \in 1..(scanPos' - 1)
    BY <2>0, <2>2
  <2> QED
    BY <2>0, <2>1, <2>2, <2>3 DEF ScanState, Scanning
<1>9. ASSUME CleanupCommit PROVE ScanState'
  BY <1>9 DEF CleanupCommit, ScanState, Scanning, TypeOK, QueueType, ScanType
<1>10. ASSUME CleanupTrigger \/ CleanupStop PROVE ScanState'
  <2>1. /\ cpc \notin {"scan", "count"} /\ cpc' \notin {"scan", "count"}
        /\ UNCHANGED <<scanPos, newPending, cutoff, pending>>
    BY <1>10 DEF CleanupTrigger, CleanupStop
  <2> QED
    BY <2>1 DEF ScanState, Scanning
<1>11. ASSUME \/ UNCHANGED vars
             \/ SchedWake \/ SchedStop \/ SchedSlots \/ SchedDrop \/ SchedCount
             \/ SchedStart \/ Stop \/ StopDone \/ GetStatsLock \/ GetStatsRead
             \/ \E r \in Requests : \/ Generate(r)
                  \/ SubmitCheck(r)
                  \/ SubmitReject(r)
                  \/ SubmitTrigger(r)
                  \/ AwaitReply(r)
                  \/ AwaitCtx(r)
                  \/ CtxEnd(r)
                  \/ WaitExpires(r)
                  \/ WorkerCtx(r)
                  \/ WorkerResult(r)
                  \/ WorkerRelease(r)
                  \/ WorkerExit(r)
                  \/ Launch(r)
                  \/ LoopCtx(r)
                  \/ \E k \in HandlerResults : HandlerReturn(r, k)
       PROVE  ScanState'
  BY <1>1, <1>11
  DEF vars, Generate, Goto, SubmitCheck, Return, SubmitReject, SubmitTrigger,
      AwaitReply, AwaitCtx, CtxEnd, WaitExpires, WorkerCtx, SendCanceled,
      Send, WorkerResult, WorkerRelease, WorkerExit, CloseCh, Launch, LoopCtx,
      HandlerReturn, SchedWake, SchedStop, SchedSlots, SlotsFull, SchedDrop,
      SchedCount, SchedStart, Stop, otherVars, StopDone, GetStatsLock,
      GetStatsRead
<1> QED
  BY <1>3, <1>4, <1>5, <1>6, <1>7, <1>8, <1>9, <1>10, <1>11
  DEF Next, ClientStep, Scheduler, WorkerStep, LoopStep, Cleanup

\* The workers that hold a slot are finitely many.
LEMMA HoldersFinite == IsFiniteSet(Holders) /\ Cardinality(Holders) \in Nat
BY QueueAssumption, FS_Subset, FS_CardinalityType DEF Holders

\* Every step keeps SlotReserved: only the scheduler raises activeCount, and it
\* has tested for a free slot since it did so last.
LEMMA SlotReservedStep ==
  ASSUME IInv, TypeOK', [Next]_vars
  PROVE  SlotReserved'
<1> USE DEF IInv, clientVars, queueVars, slotVars, loopVars, chanVars,
        schedVars, scanVars, ctlVars
<1>1. ASSUME UNCHANGED <<activeCount, worker, spc, pending>> PROVE SlotReserved'
  BY <1>1 DEF SlotReserved, Holders, HoldsSlot
<1>2. Len(pending) \in Nat /\ MaxQueueSize \in Nat /\ MaxConcurrency \in Nat /\ activeCount \in Int
  BY QueueAssumption DEF TypeOK, QueueType, SlotType
<1>3. ASSUME NEW r \in Requests, SubmitEnqueue(r) PROVE SlotReserved'
  <2>1. pending' = pending \/ (Len(pending) < MaxQueueSize /\ pending' = Append(pending, r))
    BY <1>2, <1>3 DEF SubmitEnqueue, Enqueue
  <2>2. Len(pending') <= MaxQueueSize
    <3>1. pending \in Seq(Requests)
      BY DEF TypeOK, QueueType
    <3>2. Len(Append(pending, r)) = Len(pending) + 1
      BY <3>1, AppendFacts
    <3> QED
      BY <1>2, <2>1, <3>2 DEF SlotReserved
  <2> QED
    BY <1>3, <2>2 DEF SubmitEnqueue, SlotReserved, Holders, HoldsSlot
<1>4. ASSUME SchedWake \/ SchedStop \/ SchedSlots \/ SchedDrop \/ SchedCount
      PROVE  SlotReserved'
  <2>1. UNCHANGED <<activeCount, worker, pending>>
    BY <1>4 DEF SchedWake, SchedStop, SchedSlots, SchedDrop, SchedCount
  <2>2. spc' \notin {"select", "slots", "stopped"} => activeCount < MaxConcurrency
    <3>1. CASE SchedSlots
      BY <1>2, <3>1 DEF SchedSlots, SlotsFull
    <3>2. CASE SchedDrop
      BY <3>2 DEF SchedDrop, SlotReserved
    <3>3. CASE SchedWake \/ SchedStop \/ SchedCount
      BY <3>3 DEF SchedWake, SchedStop, SchedCount
    <3> QED
      BY <1>4, <3>1, <3>2, <3>3
  <2> QED
    BY <2>1, <2>2 DEF SlotReserved, Holders, HoldsSlot
<1>5. ASSUME SchedPop PROVE SlotReserved'
  <2>1. Len(pending') <= Len(pending)
    <3>1. pending \in Seq(Requests)
      BY DEF TypeOK, QueueType
    <3>2. pending # <<>> => Len(Tail(pending)) = Len(pending) - 1
      BY <3>1, TailFacts
    <3> QED
      BY <1>2, <1>5, <3>2 DEF SchedPop
  <2>2. Len(pending') \in Nat
    BY DEF TypeOK, QueueType
  <2> QED
    BY <1>2, <1>5, <2>1, <2>2 DEF SchedPop, SlotReserved, Holders, HoldsSlot
<1>6. ASSUME SchedStart PROVE SlotReserved'
  <2>1. sreq \in Requests /\ worker[sreq] = "none"
    BY <1>6 DEF SchedStart, TypeOK, SchedType, Ownership
  <2>2. sreq \notin Holders /\ Holders' = Holders \cup {sreq}
    BY <1>6, <2>1 DEF SchedStart, TypeOK, SlotType, Holders, HoldsSlot
  <2>3. Cardinality(Holders') = Cardinality(Holders) + 1
    BY <2>2, HoldersFinite, FS_AddElement
  <2> QED
    BY <1>2, <1>6, <2>3 DEF SchedStart, SlotReserved
<1>7. ASSUME NEW r \in Requests, WorkerCtx(r) \/ WorkerResult(r) \/ WorkerExit(r)
      PROVE  SlotReserved'
  <2>1. \A q \in Requests : HoldsSlot(q)' <=> HoldsSlot(q)
    <3>1. worker = [q \in Requests |-> worker[q]]
      BY DEF TypeOK, SlotType
    <3> QED
      BY <1>7, <3>1 DEF WorkerCtx, WorkerResult, WorkerExit, HoldsSlot
  <2>2. Holders' = Holders
    BY <2>1 DEF Holders
  <2> QED
    BY <1>7, <2>2 DEF WorkerCtx, WorkerResult, WorkerExit, SlotReserved
<1>8. ASSUME NEW r \in Requests, WorkerRelease(r) PROVE SlotReserved'
  <2>1. r \in Holders /\ Holders' = Holders \ {r}
    BY <1>8 DEF WorkerRelease, TypeOK, SlotType, Holders, HoldsSlot
  <2>2. Cardinality(Holders') = Cardinality(Holders) - 1
    BY <2>1, HoldersFinite, FS_RemoveElement
  <2> QED
    BY <1>2, <1>8, <2>2, HoldersFinite DEF WorkerRelease, SlotReserved
<1>9. ASSUME CleanupCommit PROVE SlotReserved'
  <2>1. Len(newPending) <= Len(pending)
    BY <1>2 DEF ScanState, TypeOK, QueueType, ScanType
  <2>2. Len(newPending) \in Nat /\ pending' = newPending
    BY <1>9 DEF CleanupCommit, TypeOK, ScanType
  <2> QED
    BY <1>2, <1>9, <2>1, <2>2 DEF CleanupCommit, SlotReserved, Holders, HoldsSlot
<1>10. ASSUME \/ UNCHANGED vars
             \/ CleanupTick \/ CleanupKeep \/ CleanupAnswer \/ CleanupCount \/ CleanupTrigger
             \/ CleanupStop \/ Stop \/ StopDone \/ GetStatsLock \/ GetStatsRead
             \/ \E r \in Requests : \/ Generate(r)
                  \/ SubmitCheck(r)
                  \/ SubmitReject(r)
                  \/ SubmitTrigger(r)
                  \/ AwaitReply(r)
                  \/ AwaitCtx(r)
                  \/ CtxEnd(r)
                  \/ WaitExpires(r)
                  \/ Launch(r)
                  \/ LoopCtx(r)
                  \/ \E k \in HandlerResults : HandlerReturn(r, k)
       PROVE  SlotReserved'
  BY <1>1, <1>10
  DEF vars, Generate, Goto, SubmitCheck, Return, SubmitReject, SubmitTrigger,
      AwaitReply, AwaitCtx, CtxEnd, WaitExpires, Launch, LoopCtx,
      HandlerReturn, CleanupTick, LockForScan, CleanupKeep, Keep,
      CleanupAnswer, Send, CloseCh, CleanupCount, CleanupTrigger, CleanupStop,
      Stop, otherVars, StopDone, GetStatsLock, GetStatsRead
<1> QED
  BY <1>3, <1>4, <1>5, <1>6, <1>7, <1>8, <1>9, <1>10
  DEF Next, ClientStep, Scheduler, WorkerStep, LoopStep, Cleanup

\* Who is in the queue is a request.
LEMMA QueueRange ==
  ASSUME TypeOK
  PROVE  \A i \in 1..Len(pending) : pending[i] \in Requests
BY DEF TypeOK, QueueType

\* What the answer of a worker changes.
LEMMA WorkerFacts ==
  ASSUME IInv, NEW r \in Requests, WorkerStep(r)
  PROVE  /\ UNCHANGED <<pending, sreq, spc, cpc, scanPos, cutoff>>
         /\ worker[r] # "none" /\ r # sreq /\ \A i \in 1..Len(pending) : pending[i] # r
         /\ \A q \in Requests \ {r} :
              worker'[q] = worker[q] /\ reply'[q] = reply[q] /\ closes'[q] = closes[q]
<1> USE DEF IInv, clientVars, queueVars, slotVars, loopVars, chanVars,
        schedVars, scanVars, ctlVars
<1>1. worker[r] # "none"
  BY DEF WorkerStep, WorkerCtx, WorkerResult, WorkerRelease, WorkerExit
<1>2. r # sreq /\ \A i \in 1..Len(pending) : pending[i] # r
  BY <1>1 DEF Ownership
<1>3. /\ UNCHANGED <<pending, sreq, spc, cpc, scanPos, cutoff>>
      /\ \A q \in Requests \ {r} : worker'[q] = worker[q]
  BY DEF TypeOK, SlotType, WorkerStep, WorkerCtx, WorkerResult, WorkerRelease, WorkerExit
<1>4. \A q \in Requests \ {r} : reply'[q] = reply[q] /\ closes'[q] = closes[q]
  BY SendFacts, CloseFacts
  DEF WorkerStep, WorkerCtx, SendCanceled, WorkerResult, WorkerRelease, WorkerExit
<1> QED
  BY <1>1, <1>2, <1>3, <1>4

\* Outside a scan nobody in the queue has an answer.
LEMMA FreeUntouched ==
  ASSUME IInv, ~Scanning
  PROVE  \A i \in 1..Len(pending) : Untouched(pending[i])
BY DEF IInv, ScanState, QueuedUntouched, AnsweredAt

\* Every step keeps QueuedUntouched: in the queue only cleanup answers.
LEMMA QueuedUntouchedStep ==
  ASSUME IInv, TypeOK', [Next]_vars
  PROVE  QueuedUntouched'
<1> USE DEF IInv, clientVars, queueVars, slotVars, loopVars, chanVars,
        schedVars, scanVars, ctlVars
<1>1. ASSUME pending' = pending,
             \A i \in 1..Len(pending) : AnsweredAt(i) => AnsweredAt(i)',
             \A i \in 1..Len(pending) : ~AnsweredAt(i)' =>
               reply'[pending[i]] = reply[pending[i]] /\ closes'[pending[i]] = closes[pending[i]]
      PROVE  QueuedUntouched'
  BY <1>1 DEF QueuedUntouched, Untouched
<1>2. ASSUME UNCHANGED <<pending, cutoff, scanPos, cpc, reply, closes>>
      PROVE  QueuedUntouched'
  BY <1>2 DEF QueuedUntouched, AnsweredAt, Untouched
<1>3. ASSUME NEW r \in Requests, SubmitEnqueue(r) PROVE QueuedUntouched'
  <2>1. ~Scanning /\ Fresh(r) /\ Untouched(r) /\ UNCHANGED <<cutoff, scanPos, cpc, reply, closes>>
    BY <1>3 DEF SubmitEnqueue, ScanState, Scanning, Ownership, Fresh
  <2>2. pending \in Seq(Requests) /\ (pending' = pending \/ pending' = Append(pending, r))
    BY <1>3 DEF SubmitEnqueue, Enqueue, TypeOK, QueueType
  <2>3. CASE pending' = pending
    BY <1>2, <2>1, <2>3
  <2>4. CASE pending' = Append(pending, r)
    <3>1. \A i \in 1..Len(pending') : pending'[i] = r \/ (i \in 1..Len(pending) /\ pending'[i] = pending[i])
      BY <2>2, <2>4, AppendFacts
    <3>2. \A i \in 1..Len(pending') : Untouched(pending[i])'
      BY <2>1, <3>1, FreeUntouched DEF Untouched
    <3> QED
      BY <3>2 DEF QueuedUntouched
  <2> QED
    BY <2>2, <2>3, <2>4
<1>4. ASSUME SchedPop PROVE QueuedUntouched'
  <2>1. ~Scanning /\ UNCHANGED <<cutoff, scanPos, cpc, reply, closes>>
    BY <1>4 DEF SchedPop, ScanState, Scanning
  <2>2. CASE pending = <<>>
    BY <1>2, <1>4, <2>1, <2>2 DEF SchedPop
  <2>3. CASE pending # <<>>
    <3>1. pending \in Seq(Requests) /\ pending' = Tail(pending)
      BY <1>4, <2>3 DEF SchedPop, TypeOK, QueueType
    <3>2. \A i \in 1..Len(pending') : i + 1 \in 1..Len(pending) /\ pending'[i] = pending[i + 1]
      BY <2>3, <3>1, TailFacts
    <3>3. \A i \in 1..Len(pending') : Untouched(pending[i])'
      BY <2>1, <3>2, FreeUntouched DEF Untouched
    <3> QED
      BY <3>3 DEF QueuedUntouched
  <2> QED
    BY <2>2, <2>3
<1>5. ASSUME SchedDrop PROVE QueuedUntouched'
  <2>1. sreq \in Requests /\ UNCHANGED <<pending, cutoff, scanPos, cpc>>
    BY <1>5 DEF SchedDrop, TypeOK, SchedType
  <2>2. \A q \in Requests \ {sreq} : reply'[q] = reply[q] /\ closes'[q] = closes[q]
    BY <1>5, <2>1, SendFacts, CloseFacts DEF SchedDrop
  <2>3. \A i \in 1..Len(pending) : pending[i] \in Requests \ {sreq}
    BY QueueRange DEF Ownership
  <2> QED
    BY <1>1, <2>1, <2>2, <2>3 DEF AnsweredAt
<1>6. ASSUME NEW r \in Requests, WorkerStep(r) PROVE QueuedUntouched'
  <2>1. \A i \in 1..Len(pending) : pending[i] \in Requests
    BY DEF TypeOK, QueueType
  <2> QED
    BY <1>1, <1>6, <2>1, WorkerFacts DEF AnsweredAt
<1>7. ASSUME CleanupTick \/ CleanupTrigger \/ CleanupStop PROVE QueuedUntouched'
  <2>1. ~Scanning /\ UNCHANGED <<pending, reply, closes>>
    BY <1>7 DEF CleanupTick, CleanupTrigger, CleanupStop, Scanning
  <2> QED
    BY <2>1, FreeUntouched DEF QueuedUntouched, Untouched
<1>8. ASSUME CleanupKeep \/ CleanupCount PROVE QueuedUntouched'
  <2>1. /\ scanPos' = scanPos + 1 /\ cpc' = "scan" /\ cpc \in {"scan", "count"}
        /\ UNCHANGED <<pending, cutoff, reply, closes>>
    BY <1>8 DEF CleanupKeep, CleanupCount
  <2>2. \A i \in 1..Len(pending) : AnsweredAt(i) => AnsweredAt(i)'
    BY <2>1 DEF AnsweredAt, TypeOK, QueueType, ScanType
  <2> QED
    BY <1>1, <2>1, <2>2
<1>9. ASSUME CleanupAnswer PROVE QueuedUntouched'
  <2> DEFINE x == pending[scanPos]
  <2>1. /\ scanPos \in 1..Len(pending) /\ x \in cutoff /\ x \in Requests
        /\ cpc = "scan" /\ cpc' = "count" /\ UNCHANGED <<pending, cutoff, scanPos>>
    BY <1>9 DEF CleanupAnswer, TypeOK, QueueType, ScanType
  <2>2. \A q \in Requests \ {x} : reply'[q] = reply[q] /\ closes'[q] = closes[q]
    BY <1>9, <2>1, SendFacts, CloseFacts DEF CleanupAnswer
  <2>3. \A i \in 1..Len(pending) : pending[i] \in Requests /\ (i # scanPos => pending[i] # x)
    BY <2>1, QueueRange DEF Ownership
  <2>4. AnsweredAt(scanPos)' /\ \A i \in 1..Len(pending) : AnsweredAt(i) => AnsweredAt(i)'
    BY <2>1 DEF AnsweredAt
  <2> QED
    BY <1>1, <2>1, <2>2, <2>3, <2>4
<1>10. ASSUME CleanupCommit PROVE QueuedUntouched'
  <2>1. /\ scanPos > Len(pending) /\ cpc = "scan" /\ pending' = newPending
        /\ UNCHANGED <<reply, closes>>
    BY <1>10 DEF CleanupCommit
  <2>2. \A i \in 1..Len(newPending) : \E j \in 1..Len(pending) :
          newPending[i] = pending[j] /\ pending[j] \notin cutoff
    BY DEF ScanState, TypeOK, QueueType, ScanType
  <2>3. \A i \in 1..Len(newPending) : Untouched(newPending[i])
    BY <2>2 DEF QueuedUntouched, AnsweredAt
  <2> QED
    BY <2>1, <2>3 DEF QueuedUntouched, Untouched
<1>11. ASSUME \/ UNCHANGED vars
             \/ SchedWake \/ SchedStop \/ SchedSlots \/ SchedCount \/ SchedStart
             \/ Stop \/ StopDone \/ GetStatsLock \/ GetStatsRead
             \/ \E r \in Requests : \/ Generate(r)
                  \/ SubmitCheck(r)
                  \/ SubmitReject(r)
                  \/ SubmitTrigger(r)
                  \/ AwaitReply(r)
                  \/ AwaitCtx(r)
                  \/ CtxEnd(r)
                  \/ WaitExpires(r)
                  \/ Launch(r)
                  \/ LoopCtx(r)
                  \/ \E k \in HandlerResults : HandlerReturn(r, k)
       PROVE  QueuedUntouched'
  BY <1>2, <1>11
  DEF vars, Generate, Goto, SubmitCheck, Return, SubmitReject, SubmitTrigger,
      AwaitReply, AwaitCtx, CtxEnd, WaitExpires, Launch, LoopCtx,
      HandlerReturn, SchedWake, SchedStop, SchedSlots, SlotsFull, SchedCount,
      SchedStart, Stop, otherVars, StopDone, GetStatsLock, GetStatsRead
<1> QED
  BY <1>3, <1>4, <1>5, <1>6, <1>7, <1>8, <1>9, <1>10, <1>11
  DEF Next, ClientStep, Scheduler, LoopStep, Cleanup

\* Every step keeps HeldUntouched: nobody answers what the scheduler holds.
LEMMA HeldUntouchedStep ==
  ASSUME IInv, TypeOK', [Next]_vars
  PROVE  HeldUntouched'
<1> USE DEF IInv, clientVars, queueVars, slotVars, loopVars, chanVars,
        schedVars, scanVars, ctlVars
<1>1. ASSUME UNCHANGED <<spc, sreq, reply, closes>> PROVE HeldUntouched'
  BY <1>1 DEF HeldUntouched, Untouched
<1>2. ASSUME SchedWake \/ SchedStop \/ SchedSlots \/ SchedDrop \/ SchedCount \/ SchedStart
      PROVE  HeldUntouched'
  BY <1>2 DEF HeldUntouched, SchedWake, SchedStop, SchedSlots, SchedDrop, SchedCount, SchedStart
<1>3. ASSUME SchedPop PROVE HeldUntouched'
  <2>1. CASE pending = <<>>
    BY <1>3, <2>1 DEF SchedPop, HeldUntouched
  <2>2. CASE pending # <<>>
    <3>1. pending \in Seq(Requests) /\ sreq' = Head(pending) /\ ~Scanning /\ UNCHANGED <<reply, closes>>
      BY <1>3, <2>2 DEF SchedPop, TypeOK, QueueType, ScanState, Scanning
    <3>2. sreq' = pending[1] /\ 1 \in 1..Len(pending)
      BY <2>2, <3>1, TailFacts
    <3> QED
      BY <3>1, <3>2, FreeUntouched DEF HeldUntouched, Untouched
  <2> QED
    BY <2>1, <2>2
<1>4. ASSUME NEW r \in Requests, WorkerStep(r) PROVE HeldUntouched'
  <2>1. spc \in {"start", "dropTimeout", "dropCanceled"} => sreq \in Requests
    BY DEF TypeOK, SchedType
  <2> QED
    BY <1>4, <2>1, WorkerFacts DEF HeldUntouched, Untouched
<1>5. ASSUME CleanupAnswer PROVE HeldUntouched'
  <2> DEFINE x == pending[scanPos]
  <2>0. scanPos \in 1..Len(pending) /\ UNCHANGED <<spc, sreq>>
    BY <1>5 DEF CleanupAnswer, TypeOK, QueueType, ScanType
  <2>1. x \in Requests /\ x # sreq
    BY <2>0, QueueRange DEF Ownership
  <2>2. \A q \in Requests \ {x} : reply'[q] = reply[q] /\ closes'[q] = closes[q]
    BY <1>5, <2>1, SendFacts, CloseFacts DEF CleanupAnswer
  <2>3. spc \in {"start", "dropTimeout", "dropCanceled"} => sreq \in Requests
    BY DEF TypeOK, SchedType
  <2> QED
    BY <2>0, <2>1, <2>2, <2>3 DEF HeldUntouched, Untouched
<1>6. ASSUME \/ UNCHANGED vars
             \/ CleanupTick \/ CleanupKeep \/ CleanupCount \/ CleanupCommit \/ CleanupTrigger
             \/ CleanupStop \/ Stop \/ StopDone \/ GetStatsLock \/ GetStatsRead
             \/ \E r \in Requests : \/ Generate(r)
                  \/ SubmitCheck(r)
                  \/ SubmitEnqueue(r)
                  \/ SubmitReject(r)
                  \/ SubmitTrigger(r)
                  \/ AwaitReply(r)
                  \/ AwaitCtx(r)
                  \/ CtxEnd(r)
                  \/ WaitExpires(r)
                  \/ Launch(r)
                  \/ LoopCtx(r)
                  \/ \E k \in HandlerResults : HandlerReturn(r, k)
       PROVE  HeldUntouched'
  BY <1>1, <1>6
  DEF vars, Generate, Goto, SubmitCheck, Return, SubmitEnqueue, Enqueue,
      SubmitReject, SubmitTrigger, AwaitReply, AwaitCtx, CtxEnd, WaitExpires,
      Launch, LoopCtx, HandlerReturn, CleanupTick, LockForScan, CleanupKeep,
      Keep, CleanupCount, CleanupCommit, CleanupTrigger, CleanupStop, Stop,
      otherVars, StopDone, GetStatsLock, GetStatsRead
<1> QED
  BY <1>2, <1>3, <1>4, <1>5, <1>6
  DEF Next, ClientStep, Scheduler, LoopStep, Cleanup

\* Every step keeps ReplyStates: one answer per request, then one close.
LEMMA ReplyStatesStep ==
  ASSUME IInv, TypeOK', [Next]_vars
  PROVE  ReplyStates'
<1> USE DEF IInv, clientVars, queueVars, slotVars, loopVars, chanVars,
        schedVars, scanVars, ctlVars
<1>1. ASSUME UNCHANGED <<worker, reply, closes>> PROVE ReplyStates'
  BY <1>1 DEF ReplyStates, ReplyState, Untouched
\* Only r is touched, it has no worker, and it gets its one answer.
<1>2. ASSUME NEW r \in Requests, Untouched(r), worker[r] = "none", worker' = worker,
             NEW a, Send(r, a), CloseCh(r)
      PROVE  ReplyStates'
  <2>1. Len(reply[r]) = 0 /\ closes[r] = 0
    BY <1>2 DEF Untouched
  <2>2. /\ Len(reply'[r]) = Len(reply[r]) + 1 /\ closes'[r] = closes[r] + 1
        /\ \A q \in Requests \ {r} : reply'[q] = reply[q] /\ closes'[q] = closes[q]
    <3>1. TypeOK
      OBVIOUS
    <3> QED
      BY ONLY <1>2, <3>1, SendFacts, CloseFacts
  <2>3. SUFFICES ASSUME NEW q \in Requests
                 PROVE  ReplyState(q)'
    BY DEF ReplyStates
  <2>6. Len(reply'[r]) = 1 /\ closes'[r] = 1
    BY ONLY <2>1, <2>2
  <2>4. CASE q = r
    <3>1. worker'[q] = "none"
      BY <1>2, <2>4
    <3>2. Len(reply'[q]) = 1 /\ closes'[q] = 1
      BY <2>4, <2>6
    <3> QED
      BY ONLY <3>1, <3>2 DEF ReplyState
  <2>5. CASE q # r
    BY <1>2, <2>2, <2>5 DEF ReplyStates, ReplyState, Untouched
  <2> QED
    BY <2>4, <2>5
<1>3. ASSUME SchedDrop PROVE ReplyStates'
  <2>1. /\ sreq \in Requests /\ Untouched(sreq) /\ worker[sreq] = "none" /\ worker' = worker
        /\ CloseCh(sreq) /\ (Send(sreq, "waitTimeout") \/ Send(sreq, "ctxEnded"))
    BY <1>3 DEF SchedDrop, TypeOK, SchedType, Ownership, HeldUntouched
  <2> QED
    BY <1>2, <2>1
<1>4. ASSUME CleanupAnswer PROVE ReplyStates'
  <2>1. /\ scanPos \in 1..Len(pending) /\ pending[scanPos] \in Requests
        /\ worker[pending[scanPos]] = "none" /\ worker' = worker
        /\ Send(pending[scanPos], "waitTimeout") /\ CloseCh(pending[scanPos])
    BY <1>4 DEF CleanupAnswer, TypeOK, QueueType, ScanType, Ownership
  <2>2. ~AnsweredAt(scanPos)
    BY <1>4, <2>1 DEF CleanupAnswer, AnsweredAt
  <2>3. Untouched(pending[scanPos])
    BY <2>1, <2>2 DEF QueuedUntouched
  <2> QED
    BY <1>2, <2>1, <2>3
<1>5. ASSUME SchedStart PROVE ReplyStates'
  <2>1. sreq \in Requests /\ Untouched(sreq) /\ UNCHANGED <<reply, closes>>
    BY <1>5 DEF SchedStart, TypeOK, SchedType, HeldUntouched
  <2>2. worker'[sreq] = "select" /\ \A q \in Requests \ {sreq} : worker'[q] = worker[q]
    BY <1>5, <2>1 DEF SchedStart, TypeOK, SlotType
  <2> QED
    BY <2>1, <2>2 DEF ReplyStates, ReplyState, Untouched
<1>6. ASSUME NEW r \in Requests, WorkerCtx(r) \/ WorkerResult(r) PROVE ReplyStates'
  <2>1. worker[r] = "select" /\ worker'[r] \in {"canceled", "answered"} /\ closes' = closes
    BY <1>6 DEF WorkerCtx, WorkerResult, TypeOK, SlotType
  <2>2. Len(reply'[r]) = Len(reply[r]) + 1
    BY <1>6, SendFacts DEF WorkerCtx, SendCanceled, WorkerResult
  <2>3. reply[r] = <<>> /\ closes[r] = 0
    BY <2>1 DEF ReplyStates, ReplyState, Untouched
  <2> QED
    <3>1. SUFFICES ASSUME NEW q \in Requests
                   PROVE  ReplyState(q)'
      BY DEF ReplyStates
    <3>2. WorkerStep(r)
      BY <1>6 DEF WorkerStep
    <3>3. CASE q = r
      <4>1. Len(reply'[r]) = 1
        BY ONLY <2>2, <2>3
      <4> QED
        BY ONLY <2>1, <2>3, <3>3, <4>1 DEF ReplyState
    <3>4. CASE q # r
      BY <3>2, <3>4, WorkerFacts DEF ReplyStates, ReplyState, Untouched
    <3> QED
      BY <3>3, <3>4
<1>7. ASSUME NEW r \in Requests, WorkerRelease(r) PROVE ReplyStates'
  <2>1. worker[r] \in {"canceled", "answered"} /\ worker'[r] = "exit" /\ UNCHANGED <<reply, closes>>
    BY <1>7 DEF WorkerRelease, TypeOK, SlotType
  <2> QED
    BY <1>7, <2>1, WorkerFacts DEF WorkerStep, ReplyStates, ReplyState, Untouched
<1>8. ASSUME NEW r \in Requests, WorkerExit(r) PROVE ReplyStates'
  <2>1. worker[r] = "exit" /\ worker'[r] = "done" /\ reply' = reply
    BY <1>8 DEF WorkerExit, TypeOK, SlotType
  <2>2. closes'[r] = closes[r] + 1
    BY <1>8, CloseFacts DEF WorkerExit
  <2> QED
    <3>1. SUFFICES ASSUME NEW q \in Requests
                   PROVE  ReplyState(q)'
      BY DEF ReplyStates
    <3>2. WorkerStep(r)
      BY <1>8 DEF WorkerStep
    <3>3. CASE q = r
      <4>1. Len(reply[r]) = 1 /\ closes[r] = 0
        BY <2>1 DEF ReplyStates, ReplyState
      <4> QED
        BY ONLY <2>1, <2>2, <3>3, <4>1 DEF ReplyState
    <3>4. CASE q # r
      BY <3>2, <3>4, WorkerFacts DEF ReplyStates, ReplyState, Untouched
    <3> QED
      BY <3>3, <3>4
<1>9. ASSUME \/ UNCHANGED vars
             \/ SchedWake \/ SchedStop \/ SchedSlots \/ SchedPop \/ SchedCount
             \/ CleanupTick \/ CleanupKeep \/ CleanupCount \/ CleanupCommit \/ CleanupTrigger
             \/ CleanupStop \/ Stop \/ StopDone \/ GetStatsLock \/ GetStatsRead
             \/ \E r \in Requests : \/ Generate(r)
                  \/ SubmitCheck(r)
                  \/ SubmitEnqueue(r)
                  \/ SubmitReject(r)
                  \/ SubmitTrigger(r)
                  \/ AwaitReply(r)
                  \/ AwaitCtx(r)
                  \/ CtxEnd(r)
                  \/ WaitExpires(r)
                  \/ Launch(r)
                  \/ LoopCtx(r)
                  \/ \E k \in HandlerResults : HandlerReturn(r, k)
       PROVE  ReplyStates'
  BY <1>1, <1>9
  DEF vars, Generate, Goto, SubmitCheck, Return, SubmitEnqueue, Enqueue,
      SubmitReject, SubmitTrigger, AwaitReply, AwaitCtx, CtxEnd, WaitExpires,
      Launch, LoopCtx, HandlerReturn, SchedWake, SchedStop, SchedSlots,
      SlotsFull, SchedPop, SchedCount, CleanupTick, LockForScan, CleanupKeep,
      Keep, CleanupCount, CleanupCommit, CleanupTrigger, CleanupStop, Stop,
      otherVars, StopDone, GetStatsLock, GetStatsRead
<1> QED
  BY <1>3, <1>4, <1>5, <1>6, <1>7, <1>8, <1>9
  DEF Next, ClientStep, Scheduler, WorkerStep, LoopStep, Cleanup

-----------------------------------------------------------------------------
(* The theorems.                                                            *)

\* The initial state satisfies the inductive invariant.
LEMMA InitInv == Init => IInv
<1> SUFFICES ASSUME Init PROVE IInv
  OBVIOUS
<1>1. TypeOK
  BY InitType
<1>2. /\ pending = <<>> /\ newPending = <<>> /\ cutoff = {} /\ scanPos = 1 /\ cpc = "tick"
      /\ sreq = NoRequest /\ spc = "select" /\ activeCount = 0
      /\ \A r \in Requests : worker[r] = "none" /\ reply[r] = <<>> /\ closes[r] = 0
  BY DEF Init
<1>3. Ownership /\ ScanState
  BY <1>2, QueueAssumption DEF Ownership, ScanState, Scanning, Untouched
<1>4. Holders = {}
  BY <1>2 DEF Holders, HoldsSlot
<1>5. SlotReserved
  BY <1>2, <1>4, FS_EmptySet, QueueAssumption DEF SlotReserved
<1>6. QueuedUntouched /\ HeldUntouched /\ ReplyStates
  BY <1>2 DEF QueuedUntouched, HeldUntouched, ReplyStates, ReplyState, Untouched
<1> QED
  BY <1>1, <1>3, <1>5, <1>6 DEF IInv

\* The inductive invariant holds in every reachable state.
LEMMA InductiveInvariant == Spec => []IInv
<1>1. IInv /\ [Next]_vars => IInv'
  <2> SUFFICES ASSUME IInv, [Next]_vars PROVE IInv'
    OBVIOUS
  <2>1. TypeOK'
    BY TypeStep DEF IInv
  <2> QED
    BY <2>1, OwnershipStep, ScanStateStep, SlotReservedStep, QueuedUntouchedStep,
       HeldUntouchedStep, ReplyStatesStep DEF IInv
<1> QED
  BY <1>1, InitInv, PTL DEF Spec

\* activeCount counts the workers that hold a slot, and neither it nor the
\* queue passes its limit, for any number of requests and any limits.
THEOREM SlotsCorrect == Spec => []SlotAccounting
<1>1. IInv => SlotAccounting
  BY DEF IInv, SlotReserved, SlotAccounting, Holders
<1> QED
  BY <1>1, InductiveInvariant, PTL

\* No ResponseCh is sent to twice, closed twice or closed before the send,
\* although scheduler, cleanup and workers all answer requests.
THEOREM AnswersCorrect == Spec => []AnsweredOnce
<1>1. IInv => AnsweredOnce
  BY DEF IInv, ReplyStates, ReplyState, AnsweredOnce
<1> QED
  BY <1>1, InductiveInvariant, PTL

\* No Generate call takes the zero Response of a closed channel for an answer.
THEOREM NoEmptyAnswer == Spec => []NoSilentEmptyAnswer
<1>1. Init => NoSilentEmptyAnswer
  BY DEF Init, NoSilentEmptyAnswer
<1>2. IInv /\ NoSilentEmptyAnswer /\ [Next]_vars => NoSilentEmptyAnswer'
  <2> SUFFICES ASSUME IInv, NoSilentEmptyAnswer, [Next]_vars PROVE NoSilentEmptyAnswer'
    OBVIOUS
  <2> USE DEF clientVars, queueVars, slotVars, loopVars, chanVars,
          schedVars, scanVars, ctlVars
  <2>1. client = [q \in Requests |-> client[q]]
    BY DEF IInv, TypeOK, ClientType
  <2>2. ASSUME UNCHANGED client PROVE NoSilentEmptyAnswer'
    BY <2>2 DEF NoSilentEmptyAnswer
  <2>3. ASSUME NEW r \in Requests, AwaitReply(r) PROVE NoSilentEmptyAnswer'
    <3>1. reply[r] # <<>>
      BY <2>3 DEF AwaitReply, IInv, TypeOK, ChanType, ReplyStates, ReplyState
    <3>2. reply[r][1] \in Answers
      BY <3>1 DEF IInv, TypeOK, ChanType
    <3>3. client' = [client EXCEPT ![r] = reply[r][1]]
      BY <2>3, <3>1 DEF AwaitReply, Return
    <3> QED
      BY <2>1, <3>2, <3>3 DEF NoSilentEmptyAnswer, Answers, ErrorTypes
  <2>4. ASSUME NEW r \in Requests, \/ Generate(r) \/ SubmitReject(r)
                                  \/ SubmitTrigger(r) \/ AwaitCtx(r)
        PROVE  NoSilentEmptyAnswer'
    BY <2>1, <2>4 DEF Generate, SubmitReject, SubmitTrigger, AwaitCtx, Goto, Return,
      NoSilentEmptyAnswer
  <2>5. ASSUME NEW r \in Requests, SubmitCheck(r) PROVE NoSilentEmptyAnswer'
    BY <2>1, <2>5 DEF SubmitCheck, Goto, Return, NoSilentEmptyAnswer
  <2>6. ASSUME NEW r \in Requests, SubmitEnqueue(r) PROVE NoSilentEmptyAnswer'
    BY <2>1, <2>6 DEF SubmitEnqueue, Goto, Enqueue, NoSilentEmptyAnswer
  <2>7. ASSUME \/ UNCHANGED vars
               \/ SchedWake \/ SchedStop \/ SchedSlots \/ SchedPop \/ SchedDrop
               \/ SchedCount \/ SchedStart \/ CleanupTick \/ CleanupKeep \/ CleanupAnswer
               \/ CleanupCount \/ CleanupCommit \/ CleanupTrigger \/ CleanupStop \/ Stop
               \/ StopDone \/ GetStatsLock \/ GetStatsRead
               \/ \E r \in Requests : \/ CtxEnd(r)
                    \/ WaitExpires(r)
                    \/ WorkerCtx(r)
                    \/ WorkerResult(r)
                    \/ WorkerRelease(r)
                    \/ WorkerExit(r)
                    \/ Launch(r)
                    \/ LoopCtx(r)
                    \/ \E k \in HandlerResults : HandlerReturn(r, k)
         PROVE  NoSilentEmptyAnswer'
    BY <2>2, <2>7
    DEF vars, CtxEnd, WaitExpires, WorkerCtx, SendCanceled, Send, WorkerResult,
        WorkerRelease, WorkerExit, CloseCh, Launch, LoopCtx, HandlerReturn,
        SchedWake, SchedStop, SchedSlots, SlotsFull, SchedPop, SchedDrop,
        SchedCount, SchedStart, CleanupTick, LockForScan, CleanupKeep, Keep,
        CleanupAnswer, CleanupCount, CleanupCommit, CleanupTrigger, CleanupStop,
        Stop, otherVars, StopDone, GetStatsLock, GetStatsRead
  <2> QED
    BY <2>3, <2>4, <2>5, <2>6, <2>7
    DEF Next, ClientStep, Scheduler, WorkerStep, LoopStep, Cleanup
<1> QED
  BY <1>1, <1>2, InductiveInvariant, PTL DEF Spec

\* The scheduler never sleeps on work: every step that queues a request or
\* frees a slot while it waits leaves a token or the step that puts one.
THEOREM WakeupsKept == Spec => []NoLostWakeup
<1>1. Init => NoLostWakeup
  BY DEF Init, NoLostWakeup
<1>2. TypeOK /\ NoLostWakeup /\ [Next]_vars => NoLostWakeup'
  <2> SUFFICES ASSUME TypeOK, NoLostWakeup, [Next]_vars PROVE NoLostWakeup'
    OBVIOUS
  <2> USE DEF clientVars, queueVars, slotVars, loopVars, chanVars,
          schedVars, scanVars, ctlVars
  <2>1. ASSUME UNCHANGED <<spc, pending, activeCount, dispatchCh, client, worker, cpc>>
        PROVE  NoLostWakeup'
    BY <2>1 DEF NoLostWakeup
  <2>2. ASSUME dispatchCh' = 1 PROVE NoLostWakeup'
    BY <2>2 DEF NoLostWakeup
  <2>3. ASSUME NEW r \in Requests, client'[r] = "submitted" PROVE NoLostWakeup'
    BY <2>3 DEF NoLostWakeup
  <2>4. ASSUME NEW r \in Requests, UNCHANGED <<spc, pending, activeCount, dispatchCh, worker, cpc>>,
               client[r] # "submitted", \A q \in Requests \ {r} : client'[q] = client[q]
        PROVE  NoLostWakeup'
    BY <2>4 DEF NoLostWakeup
  <2>5. ASSUME NEW r \in Requests, \/ Generate(r) \/ SubmitCheck(r) \/ SubmitReject(r)
                                  \/ AwaitReply(r) \/ AwaitCtx(r)
        PROVE  NoLostWakeup'
    <3>1. /\ client[r] # "submitted"
          /\ UNCHANGED <<spc, pending, activeCount, dispatchCh, worker, cpc>>
      BY <2>5 DEF Generate, SubmitCheck, SubmitReject, AwaitReply, AwaitCtx
    <3>2. \A q \in Requests \ {r} : client'[q] = client[q]
      <4>1. client = [q \in Requests |-> client[q]]
        BY DEF TypeOK, ClientType
      <4> QED
        BY <2>5, <4>1
        DEF Generate, SubmitCheck, SubmitReject, AwaitReply, AwaitCtx, Goto, Return
    <3> QED
      BY <2>4, <3>1, <3>2
  <2>6. ASSUME NEW r \in Requests, SubmitEnqueue(r) PROVE NoLostWakeup'
    <3>1. client = [q \in Requests |-> client[q]]
      BY DEF TypeOK, ClientType
    <3>2. CASE Len(pending) >= MaxQueueSize
      BY <2>4, <2>6, <3>1, <3>2 DEF SubmitEnqueue, Goto
    <3>3. CASE ~(Len(pending) >= MaxQueueSize)
      BY <2>3, <2>6, <3>1, <3>3 DEF SubmitEnqueue, Goto
    <3> QED
      BY <3>2, <3>3
  <2>7. ASSUME NEW r \in Requests, SubmitTrigger(r) \/ WorkerExit(r) PROVE NoLostWakeup'
    BY <2>2, <2>7 DEF SubmitTrigger, WorkerExit, TriggerDispatch
  <2>8. ASSUME NEW r \in Requests, WorkerCtx(r) \/ WorkerResult(r) PROVE NoLostWakeup'
    <3>1. /\ UNCHANGED <<spc, pending, activeCount, dispatchCh, client, cpc>>
          /\ worker[r] = "select" /\ \A q \in Requests \ {r} : worker'[q] = worker[q]
      BY <2>8 DEF WorkerCtx, WorkerResult, TypeOK, SlotType
    <3> QED
      BY <3>1 DEF NoLostWakeup
  <2>9. ASSUME NEW r \in Requests, WorkerRelease(r) PROVE NoLostWakeup'
    <3>1. worker'[r] = "exit"
      BY <2>9 DEF WorkerRelease, TypeOK, SlotType
    <3> QED
      BY <3>1 DEF NoLostWakeup
  <2>10. ASSUME SchedWake \/ SchedStop \/ SchedDrop \/ SchedCount \/ SchedStart
         PROVE  NoLostWakeup'
    BY <2>10 DEF SchedWake, SchedStop, SchedDrop, SchedCount, SchedStart, NoLostWakeup
  <2>11. ASSUME SchedSlots PROVE NoLostWakeup'
    BY <2>11, QueueAssumption DEF SchedSlots, SlotsFull, NoLostWakeup, TypeOK, SlotType
  <2>12. ASSUME SchedPop PROVE NoLostWakeup'
    BY <2>12 DEF SchedPop, NoLostWakeup
  <2>13. ASSUME CleanupCommit PROVE NoLostWakeup'
    BY <2>13 DEF CleanupCommit, NoLostWakeup
  <2>14. ASSUME CleanupTrigger PROVE NoLostWakeup'
    BY <2>2, <2>14 DEF CleanupTrigger, TriggerDispatch
  <2>15. ASSUME CleanupTick \/ CleanupKeep \/ CleanupAnswer \/ CleanupCount \/ CleanupStop
         PROVE  NoLostWakeup'
    BY <2>15 DEF CleanupTick, CleanupKeep, CleanupAnswer, CleanupCount, CleanupStop,
      NoLostWakeup
  <2>16. ASSUME \/ UNCHANGED vars
               \/ Stop \/ StopDone \/ GetStatsLock \/ GetStatsRead
               \/ \E r \in Requests : \/ CtxEnd(r)
                    \/ WaitExpires(r)
                    \/ Launch(r)
                    \/ LoopCtx(r)
                    \/ \E k \in HandlerResults : HandlerReturn(r, k)
         PROVE  NoLostWakeup'
    BY <2>1, <2>16
    DEF vars, CtxEnd, WaitExpires, Launch, LoopCtx, HandlerReturn, Stop,
        otherVars, StopDone, GetStatsLock, GetStatsRead
  <2> QED
    BY <2>5, <2>6, <2>7, <2>8, <2>9, <2>10, <2>11, <2>12, <2>13, <2>14, <2>15, <2>16
    DEF Next, ClientStep, Scheduler, WorkerStep, LoopStep, Cleanup
<1> QED
  BY <1>1, <1>2, TypeCorrect, PTL DEF Spec

-----------------------------------------------------------------------------
(* Nothing the queue accepted is lost.                                      *)

\* Where OnePlace says a request is, without the counting.
InQueue(r) == \E i \in 1..Len(pending) : pending[i] = r
Somewhere(r) == InQueue(r) \/ InHand(r) \/ worker[r] = "select"
Placed == \A r \in Requests : Accepted(r) /\ reply[r] = <<>> => Somewhere(r)

\* The scan has kept what it passed, unless it has answered it.
ScanKeeps ==
  \A i \in 1..Len(pending) : i < scanPos /\ pending[i] \notin cutoff =>
    \E j \in 1..Len(newPending) : newPending[j] = pending[i]
ScanAnswers == \A i \in 1..Len(pending) : AnsweredAt(i) => reply[pending[i]] # <<>>
ScanCounts == cpc = "count" => pending[scanPos] \in cutoff

PInv == Placed /\ ScanKeeps /\ ScanAnswers /\ ScanCounts

\* What was sent stays sent.
LEMMA RepliesStay ==
  ASSUME TypeOK, [Next]_vars, NEW r \in Requests, reply[r] # <<>>
  PROVE  reply'[r] # <<>>
<1>1. ASSUME NEW q \in Requests, NEW a, Send(q, a) PROVE reply'[r] # <<>>
  BY <1>1 DEF Send, TypeOK, ChanType
<1>2. ASSUME UNCHANGED reply PROVE reply'[r] # <<>>
  BY <1>2
<1>3. CASE SchedDrop
  BY <1>1, <1>3 DEF SchedDrop, TypeOK, SchedType
<1>4. CASE CleanupAnswer
  BY <1>1, <1>4 DEF CleanupAnswer, TypeOK, QueueType, ScanType
<1>5. ASSUME NEW q \in Requests, WorkerCtx(q) \/ WorkerResult(q) PROVE reply'[r] # <<>>
  BY <1>1, <1>5 DEF WorkerCtx, WorkerResult, SendCanceled
<1>6. ASSUME \/ UNCHANGED vars
             \/ SchedWake \/ SchedStop \/ SchedSlots \/ SchedPop \/ SchedCount \/ SchedStart
             \/ CleanupTick \/ CleanupKeep \/ CleanupCount \/ CleanupCommit \/ CleanupTrigger
             \/ CleanupStop \/ Stop \/ StopDone \/ GetStatsLock \/ GetStatsRead
             \/ \E q \in Requests : \/ Generate(q) \/ ClientStep(q) \/ CtxEnd(q) \/ WaitExpires(q)
                                    \/ WorkerRelease(q) \/ WorkerExit(q) \/ LoopStep(q)
                                    \/ \E k \in HandlerResults : HandlerReturn(q, k)
      PROVE  reply'[r] # <<>>
  <2>1. UNCHANGED reply
    BY <1>6 DEF vars, chanVars, otherVars, SchedWake, SchedStop, SchedSlots, SchedPop, SchedCount,
      SchedStart, CleanupTick, CleanupKeep, CleanupCount, CleanupCommit, CleanupTrigger, CleanupStop,
      Stop, StopDone, GetStatsLock, GetStatsRead, Generate, ClientStep, SubmitCheck, SubmitEnqueue,
      SubmitReject, SubmitTrigger, AwaitReply, AwaitCtx, CtxEnd, WaitExpires, WorkerRelease,
      WorkerExit, LoopStep, Launch, LoopCtx, HandlerReturn
  <2> QED
    BY <1>2, <2>1
<1> QED
  BY <1>3, <1>4, <1>5, <1>6 DEF Next, Scheduler, WorkerStep, Cleanup

\* The queue, the scan and where it is change in these steps only.
LEMMA ScanFrame ==
  ASSUME IInv, [Next]_vars
  PROVE  \/ UNCHANGED <<pending, scanPos, newPending, cutoff, cpc>>
         \/ \E r \in Requests : SubmitEnqueue(r)
         \/ SchedPop \/ CleanupTick \/ CleanupKeep \/ CleanupAnswer \/ CleanupCount
         \/ CleanupCommit \/ CleanupTrigger \/ CleanupStop
BY DEF vars, queueVars, scanVars, otherVars, Next, Scheduler, WorkerStep, Cleanup, ClientStep,
  LoopStep, SchedWake, SchedStop, SchedSlots, SchedDrop, SchedCount, SchedStart, Stop, StopDone,
  GetStatsLock, GetStatsRead, Generate, SubmitCheck, SubmitReject, SubmitTrigger, AwaitReply,
  AwaitCtx, CtxEnd, WaitExpires, WorkerCtx, WorkerResult, WorkerRelease, WorkerExit, Launch,
  LoopCtx, HandlerReturn

\* The scan keeps or answers what it passes.
LEMMA ScanKeepsStep ==
  ASSUME IInv, PInv, [Next]_vars
  PROVE  ScanKeeps' /\ ScanAnswers'
<1> USE DEF IInv
<1>0. /\ pending \in Seq(Requests) /\ scanPos \in Nat \ {0} /\ newPending \in Seq(Requests)
      /\ ScanKeeps /\ ScanAnswers /\ ScanCounts /\ ScanState
  BY DEF TypeOK, QueueType, ScanType, PInv
<1>1. CASE UNCHANGED <<pending, scanPos, newPending, cutoff, cpc>>
  <2>1. ScanKeeps'
    BY <1>0, <1>1 DEF ScanKeeps
  <2>2. ScanAnswers'
    <3> SUFFICES ASSUME NEW i \in 1..Len(pending), AnsweredAt(i)'
                 PROVE  reply'[pending[i]] # <<>>
      BY <1>1 DEF ScanAnswers
    <3>1. reply[pending[i]] # <<>> /\ pending[i] \in Requests
      BY <1>0, <1>1 DEF ScanAnswers, AnsweredAt
    <3> QED
      BY <3>1, RepliesStay
  <2> QED
    BY <2>1, <2>2
<1>2. ASSUME (\E r \in Requests : SubmitEnqueue(r)) \/ SchedPop PROVE ScanKeeps' /\ ScanAnswers'
  <2>1. ~Scanning /\ UNCHANGED <<scanPos, cpc>>
    BY <1>0, <1>2 DEF SubmitEnqueue, SchedPop, ScanState, scanVars
  <2>2. scanPos' = 1 /\ cpc' # "count"
    BY <1>0, <2>1 DEF ScanState, Scanning
  <2> QED
    BY <2>2 DEF ScanKeeps, ScanAnswers, AnsweredAt
<1>3. ASSUME CleanupTick \/ CleanupCommit PROVE ScanKeeps' /\ ScanAnswers'
  <2>1. scanPos' = 1 /\ cpc' # "count"
    BY <1>3 DEF CleanupTick, CleanupCommit
  <2> QED
    BY <2>1 DEF ScanKeeps, ScanAnswers, AnsweredAt
<1>4. ASSUME CleanupTrigger \/ CleanupStop PROVE ScanKeeps' /\ ScanAnswers'
  <2>1. scanPos' = 1 /\ cpc' # "count"
    BY <1>0, <1>4 DEF CleanupTrigger, CleanupStop, ScanState, Scanning
  <2> QED
    BY <2>1 DEF ScanKeeps, ScanAnswers, AnsweredAt
<1>5. ASSUME CleanupKeep PROVE ScanKeeps' /\ ScanAnswers'
  <2>1. /\ scanPos <= Len(pending) /\ pending[scanPos] \notin cutoff /\ pending[scanPos] \in Requests
        /\ newPending' = Append(newPending, pending[scanPos]) /\ scanPos' = scanPos + 1
        /\ UNCHANGED <<pending, cutoff, cpc, reply>> /\ cpc = "scan"
    BY <1>0, <1>5 DEF CleanupKeep, Keep, queueVars, chanVars
  <2>2. /\ Len(newPending') = Len(newPending) + 1
        /\ \A j \in 1..Len(newPending) : newPending'[j] = newPending[j]
        /\ newPending'[Len(newPending) + 1] = pending[scanPos]
    BY <1>0, <2>1, AppendFacts
  <2>3. ScanKeeps'
    <3> SUFFICES ASSUME NEW i \in 1..Len(pending), i < scanPos + 1, pending[i] \notin cutoff
                 PROVE  \E j \in 1..Len(newPending') : newPending'[j] = pending[i]
      BY <2>1 DEF ScanKeeps
    <3>0. Len(newPending) \in Nat
      BY <1>0
    <3>1. CASE i = scanPos
      <4>1. Len(newPending) + 1 \in 1..Len(newPending')
        BY <2>2, <3>0
      <4> QED
        BY <2>2, <3>1, <4>1
    <3>2. CASE i # scanPos
      <4>1. i < scanPos
        BY <1>0, <3>2
      <4>2. PICK j \in 1..Len(newPending) : newPending[j] = pending[i]
        BY <1>0, <4>1 DEF ScanKeeps
      <4>3. j \in 1..Len(newPending')
        BY <2>2, <3>0
      <4> QED
        BY <2>2, <4>2, <4>3
    <3> QED
      BY <3>1, <3>2
  <2>4. ScanAnswers'
    <3> SUFFICES ASSUME NEW i \in 1..Len(pending), AnsweredAt(i)'
                 PROVE  reply[pending[i]] # <<>>
      BY <2>1 DEF ScanAnswers
    <3>1. pending[i] \in cutoff /\ i < scanPos + 1
      BY <2>1 DEF AnsweredAt
    <3>2. i # scanPos
      BY <2>1, <3>1
    <3>3. AnsweredAt(i)
      BY <1>0, <3>1, <3>2 DEF AnsweredAt
    <3> QED
      BY <1>0, <3>3 DEF ScanAnswers
  <2> QED
    BY <2>3, <2>4
<1>6. ASSUME CleanupAnswer PROVE ScanKeeps' /\ ScanAnswers'
  <2>1. /\ UNCHANGED <<pending, scanPos, newPending, cutoff>> /\ cpc' = "count" /\ cpc = "scan"
        /\ scanPos <= Len(pending) /\ pending[scanPos] \in Requests
        /\ Send(pending[scanPos], "waitTimeout")
    BY <1>0, <1>6 DEF CleanupAnswer, queueVars
  <2>2. ScanKeeps'
    BY <1>0, <2>1 DEF ScanKeeps
  <2>3. ScanAnswers'
    <3> SUFFICES ASSUME NEW i \in 1..Len(pending), AnsweredAt(i)'
                 PROVE  reply'[pending[i]] # <<>>
      BY <2>1 DEF ScanAnswers
    <3>1. CASE i = scanPos
      <4>1. Len(reply'[pending[scanPos]]) = Len(reply[pending[scanPos]]) + 1
        BY <2>1, SendFacts
      <4>2. Len(reply[pending[scanPos]]) \in Nat
        BY <2>1 DEF TypeOK, ChanType
      <4> QED
        BY <3>1, <4>1, <4>2
    <3>2. CASE i # scanPos
      <4>1. AnsweredAt(i)
        BY <2>1, <3>2 DEF AnsweredAt
      <4>2. reply[pending[i]] # <<>> /\ pending[i] \in Requests
        BY <1>0, <4>1 DEF ScanAnswers
      <4> QED
        BY <4>2, RepliesStay
    <3> QED
      BY <3>1, <3>2
  <2> QED
    BY <2>2, <2>3
<1>7. ASSUME CleanupCount PROVE ScanKeeps' /\ ScanAnswers'
  <2>1. /\ UNCHANGED <<pending, newPending, cutoff, reply>> /\ cpc' = "scan" /\ cpc = "count"
        /\ scanPos' = scanPos + 1 /\ scanPos <= Len(pending)
    BY <1>0, <1>7 DEF CleanupCount, queueVars, chanVars, ScanState
  <2>2. ScanAnswers'
    <3> SUFFICES ASSUME NEW i \in 1..Len(pending), AnsweredAt(i)'
                 PROVE  reply[pending[i]] # <<>>
      BY <2>1 DEF ScanAnswers
    <3>1. AnsweredAt(i)
      BY <1>0, <2>1 DEF AnsweredAt
    <3> QED
      BY <1>0, <3>1 DEF ScanAnswers
  <2>3. pending[scanPos] \in cutoff
    BY <1>0, <2>1 DEF ScanCounts
  <2>4. ScanKeeps'
    <3> SUFFICES ASSUME NEW i \in 1..Len(pending), i < scanPos + 1, pending[i] \notin cutoff
                 PROVE  \E j \in 1..Len(newPending) : newPending[j] = pending[i]
      BY <2>1 DEF ScanKeeps
    <3>1. i < scanPos
      BY <1>0, <2>3
    <3> QED
      BY <1>0, <3>1 DEF ScanKeeps
  <2> QED
    BY <2>2, <2>4
<1> QED
  BY <1>1, <1>2, <1>3, <1>4, <1>5, <1>6, <1>7, ScanFrame

\* cleanup counts a request whose time is over.
LEMMA ScanCountsStep ==
  ASSUME IInv, PInv, [Next]_vars
  PROVE  ScanCounts'
<1>0. ScanCounts /\ ScanState
  BY DEF IInv, PInv
<1>1. CASE UNCHANGED <<pending, scanPos, newPending, cutoff, cpc>>
  BY <1>0, <1>1 DEF ScanCounts
<1>2. ASSUME (\E r \in Requests : SubmitEnqueue(r)) \/ SchedPop PROVE ScanCounts'
  BY <1>0, <1>2 DEF SubmitEnqueue, SchedPop, ScanState, Scanning, scanVars, ScanCounts
<1>3. ASSUME \/ CleanupTick \/ CleanupKeep \/ CleanupCount \/ CleanupCommit \/ CleanupTrigger
             \/ CleanupStop
      PROVE  ScanCounts'
  BY <1>3 DEF CleanupTick, CleanupKeep, CleanupCount, CleanupCommit, CleanupTrigger, CleanupStop,
    ScanCounts
<1>4. CASE CleanupAnswer
  BY <1>4 DEF CleanupAnswer, queueVars, ScanCounts
<1> QED
  BY <1>1, <1>2, <1>3, <1>4, ScanFrame

\* An unanswered request is passed from the queue to the scheduler to its worker.
LEMMA PlacedStep ==
  ASSUME IInv, PInv, [Next]_vars
  PROVE  Placed'
<1> SUFFICES ASSUME NEW r \in Requests, Accepted(r)', reply'[r] = <<>>
             PROVE  Somewhere(r)'
  BY DEF Placed
<1> USE DEF IInv
<1>0. /\ reply[r] = <<>> /\ pending \in Seq(Requests)
      /\ Accepted(r) => Somewhere(r)
  BY RepliesStay DEF PInv, Placed, TypeOK, QueueType
<1>1. ASSUME NEW q \in Requests, SubmitEnqueue(q) PROVE Somewhere(r)'
  <2>1. client = [x \in Requests |-> client[x]]
    BY DEF TypeOK, ClientType
  <2>2. UNCHANGED <<sreq, spc, worker>>
    BY <1>1 DEF SubmitEnqueue, schedVars, slotVars
  <2>3. CASE Len(pending) >= MaxQueueSize
    <3>1. Accepted(r) /\ UNCHANGED pending
      BY <1>1, <2>1, <2>3 DEF SubmitEnqueue, Goto, Accepted
    <3> QED
      BY <1>0, <2>2, <3>1 DEF Somewhere, InQueue, InHand
  <2>4. CASE ~(Len(pending) >= MaxQueueSize)
    <3>1. pending' = Append(pending, q) /\ (r # q => Accepted(r))
      BY <1>1, <2>1, <2>4 DEF SubmitEnqueue, Goto, Accepted, Enqueue
    <3>2. /\ Len(pending') = Len(pending) + 1 /\ Len(pending) \in Nat
          /\ \A i \in 1..Len(pending) : pending'[i] = pending[i]
          /\ pending'[Len(pending) + 1] = q
      BY <1>0, <3>1, AppendFacts
    <3>3. CASE r = q
      <4>1. InQueue(r)'
        BY <3>2, <3>3 DEF InQueue
      <4> QED
        BY <4>1 DEF Somewhere
    <3>4. CASE r # q
      <4>1. InQueue(r) => InQueue(r)'
        BY <3>2 DEF InQueue
      <4> QED
        BY <1>0, <2>2, <3>1, <3>4, <4>1 DEF Somewhere, InHand
    <3> QED
      BY <3>3, <3>4
  <2> QED
    BY <2>3, <2>4
<1>2. ASSUME NEW q \in Requests, \/ Generate(q) \/ SubmitCheck(q) \/ SubmitReject(q)
                                \/ SubmitTrigger(q) \/ AwaitReply(q) \/ AwaitCtx(q)
      PROVE  Somewhere(r)'
  <2>1. client = [x \in Requests |-> client[x]]
    BY DEF TypeOK, ClientType
  <2>2. Accepted(r)
    BY <1>2, <2>1 DEF Generate, SubmitCheck, SubmitReject, SubmitTrigger, AwaitReply, AwaitCtx,
      Goto, Return, Accepted, Refused
  <2>3. UNCHANGED <<pending, sreq, spc, worker>>
    BY <1>2 DEF Generate, SubmitCheck, SubmitReject, SubmitTrigger, AwaitReply, AwaitCtx,
      queueVars, schedVars, slotVars
  <2> QED
    BY <1>0, <2>2, <2>3 DEF Somewhere, InQueue, InHand
<1>3. ASSUME UNCHANGED <<client, pending, sreq, spc, worker>> PROVE Somewhere(r)'
  BY <1>0, <1>3 DEF Somewhere, InQueue, InHand, Accepted
<1>4. CASE SchedPop
  <2>1. Accepted(r) /\ UNCHANGED worker /\ ~InHand(r)
    BY <1>4 DEF SchedPop, clientVars, slotVars, Accepted, InHand
  <2>2. CASE pending = <<>>
    BY <1>0, <1>4, <2>1, <2>2 DEF SchedPop, Somewhere, InQueue
  <2>3. CASE pending # <<>>
    <3>1. /\ pending' = Tail(pending) /\ sreq' = pending[1]
          /\ spc' \in {"dropTimeout", "dropCanceled", "start"}
      BY <1>0, <1>4, <2>3, TailFacts DEF SchedPop
    <3>2. /\ Len(pending) \in Nat \ {0} /\ Len(pending') = Len(pending) - 1
          /\ \A i \in 1..Len(pending') : pending'[i] = pending[i + 1]
      BY <1>0, <2>3, <3>1, TailFacts
    <3>3. CASE worker[r] = "select"
      BY <2>1, <3>3 DEF Somewhere
    <3>4. CASE InQueue(r)
      <4>1. PICK i \in 1..Len(pending) : pending[i] = r
        BY <3>4 DEF InQueue
      <4>2. CASE i = 1
        BY <3>1, <4>1, <4>2 DEF Somewhere, InHand
      <4>3. CASE i # 1
        <5>1. i - 1 \in 1..Len(pending') /\ pending'[i - 1] = r
          BY <3>2, <4>1, <4>3
        <5> QED
          BY <5>1 DEF Somewhere, InQueue
      <4> QED
        BY <4>2, <4>3
    <3> QED
      BY <1>0, <2>1, <3>3, <3>4 DEF Somewhere
  <2> QED
    BY <2>2, <2>3
<1>5. CASE SchedDrop
  <2>1. /\ sreq \in Requests /\ UNCHANGED <<pending, sreq, worker, client>>
        /\ Send(sreq, "waitTimeout") \/ Send(sreq, "ctxEnded")
    BY <1>5 DEF SchedDrop, TypeOK, SchedType, queueVars, slotVars, clientVars
  <2>2. Len(reply'[sreq]) = Len(reply[sreq]) + 1 /\ Len(reply[sreq]) \in Nat
    BY <2>1, SendFacts DEF TypeOK, ChanType
  <2>3. sreq # r
    BY <2>2
  <2> QED
    BY <1>0, <2>1, <2>3 DEF Somewhere, InQueue, InHand, Accepted
<1>6. CASE SchedStart
  <2>1. /\ sreq \in Requests /\ UNCHANGED <<pending, client>>
        /\ worker'[sreq] = "select" /\ \A q \in Requests \ {sreq} : worker'[q] = worker[q]
    BY <1>6 DEF SchedStart, TypeOK, SchedType, SlotType, queueVars, clientVars
  <2> QED
    BY <1>0, <2>1 DEF Somewhere, InQueue, InHand, Accepted
<1>7. ASSUME SchedWake \/ SchedStop \/ SchedSlots \/ SchedCount PROVE Somewhere(r)'
  <2>1. UNCHANGED <<pending, worker, client>> /\ ~InHand(r)
    BY <1>7 DEF SchedWake, SchedStop, SchedSlots, SchedCount, InHand, queueVars, slotVars, clientVars
  <2> QED
    BY <1>0, <2>1 DEF Somewhere, InQueue, Accepted
<1>8. ASSUME NEW q \in Requests, WorkerStep(q) PROVE Somewhere(r)'
  <2>1. /\ UNCHANGED <<pending, client, sreq, spc>>
        /\ \A x \in Requests \ {q} : worker'[x] = worker[x]
    BY <1>8, WorkerFacts DEF WorkerStep, WorkerCtx, WorkerResult, WorkerRelease, WorkerExit,
      clientVars, queueVars, schedVars
  <2>2. r = q => worker[r] # "select"
    <3>1. CASE WorkerCtx(q) \/ WorkerResult(q)
      <4>1. Len(reply'[q]) = Len(reply[q]) + 1 /\ Len(reply[q]) \in Nat
        BY <3>1, SendFacts DEF WorkerCtx, SendCanceled, WorkerResult, TypeOK, ChanType
      <4> QED
        BY <4>1
    <3>2. CASE WorkerRelease(q) \/ WorkerExit(q)
      BY <3>2 DEF WorkerRelease, WorkerExit
    <3> QED
      BY <1>8, <3>1, <3>2 DEF WorkerStep
  <2> QED
    BY <1>0, <2>1, <2>2 DEF Somewhere, InQueue, InHand, Accepted
<1>9. CASE CleanupCommit
  <2>1. /\ pending' = newPending /\ UNCHANGED <<client, worker, sreq, spc>>
        /\ scanPos > Len(pending)
    BY <1>9 DEF CleanupCommit, clientVars, slotVars, schedVars
  <2>2. ASSUME InQueue(r) PROVE InQueue(r)'
    <3>1. PICK i \in 1..Len(pending) : pending[i] = r
      BY <2>2 DEF InQueue
    <3>2. i < scanPos
      BY <1>0, <2>1 DEF TypeOK, ScanType
    <3>3. r \notin cutoff
      BY <1>0, <3>1, <3>2 DEF PInv, ScanAnswers, AnsweredAt
    <3> QED
      BY <2>1, <3>1, <3>2, <3>3 DEF PInv, ScanKeeps, InQueue
  <2> QED
    BY <1>0, <2>1, <2>2 DEF Somewhere, InHand, Accepted
<1>10. ASSUME \/ UNCHANGED vars
              \/ CleanupTick \/ CleanupKeep \/ CleanupAnswer \/ CleanupCount \/ CleanupTrigger
              \/ CleanupStop \/ Stop \/ StopDone \/ GetStatsLock \/ GetStatsRead
              \/ \E q \in Requests : \/ CtxEnd(q) \/ WaitExpires(q) \/ LoopStep(q)
                                     \/ \E k \in HandlerResults : HandlerReturn(q, k)
       PROVE  Somewhere(r)'
  <2>1. UNCHANGED <<client, pending, sreq, spc, worker>>
    BY <1>10 DEF vars, clientVars, queueVars, slotVars, schedVars, otherVars, CleanupTick,
      CleanupKeep, CleanupAnswer, CleanupCount, CleanupTrigger, CleanupStop, Stop, StopDone,
      GetStatsLock, GetStatsRead, CtxEnd, WaitExpires, LoopStep, Launch, LoopCtx, HandlerReturn
  <2> QED
    BY <1>3, <2>1
<1> QED
  BY <1>1, <1>2, <1>4, <1>5, <1>6, <1>7, <1>8, <1>9, <1>10
  DEF Next, Scheduler, ClientStep, Cleanup

\* The invariant counts no place twice, and finds one.
LEMMA PlacesCounted ==
  ASSUME IInv, PInv
  PROVE  OnePlace
<1> SUFFICES ASSUME NEW r \in Requests, Somewhere(r)
             PROVE  Places(r) = 1
  BY DEF PInv, Placed, OnePlace
<1> DEFINE at == {i \in DOMAIN pending : pending[i] = r}
<1>0. Ownership /\ DOMAIN pending = 1..Len(pending)
  BY DEF IInv, TypeOK, QueueType
<1>1. CASE InQueue(r)
  <2>1. PICK i \in 1..Len(pending) : pending[i] = r
    BY <1>1 DEF InQueue
  <2>2. at = {i}
    BY <1>0, <2>1 DEF Ownership
  <2>3. Cardinality(at) = 1
    BY <2>2, FS_Singleton
  <2>4. ~InHand(r) /\ worker[r] # "select"
    BY <1>0, <2>1 DEF Ownership, InHand
  <2> QED
    BY <2>3, <2>4 DEF Places, One
<1>2. CASE ~InQueue(r)
  <2>1. at = {}
    BY <1>0, <1>2 DEF InQueue
  <2>2. Cardinality(at) = 0
    BY <2>1, FS_EmptySet
  <2>3. InHand(r) <=> worker[r] # "select"
    BY <1>0, <1>2 DEF Somewhere, InHand, Ownership
  <2> QED
    BY <2>2, <2>3 DEF Places, One
<1> QED
  BY <1>1, <1>2

\* Nothing the queue accepted is lost, and the scan drops nothing it has not answered.
LEMMA PlacesInvariant == Spec => []PInv
<1>1. Init => PInv
  <2> SUFFICES ASSUME Init PROVE PInv
    OBVIOUS
  <2>1. pending = <<>> /\ cpc = "tick" /\ \A r \in Requests : client[r] = "idle"
    BY DEF Init
  <2> QED
    BY <2>1 DEF PInv, Placed, Accepted, ScanKeeps, ScanAnswers, ScanCounts
<1>2. IInv /\ PInv /\ [Next]_vars => PInv'
  BY PlacedStep, ScanKeepsStep, ScanCountsStep DEF PInv
<1> QED
  BY <1>1, <1>2, InductiveInvariant, PTL DEF Spec

\* A request the queue accepted and has not answered is in exactly one place,
\* for any number of requests and any limits: neither tryDispatch nor cleanup
\* loses one or takes it twice.
THEOREM RequestsPlaced == Spec => []OnePlace
<1>1. IInv /\ PInv => OnePlace
  BY PlacesCounted
<1> QED
  BY <1>1, InductiveInvariant, PlacesInvariant, PTL

-----------------------------------------------------------------------------
(* The counters.                                                            *)

\* The three sums of AnswersCounted, each with the set it counts.
TimedOut  == {r \in Requests : reply[r] # <<>> /\ reply[r][1] \in {"waitTimeout"}}
Released  == {r \in Requests : worker[r] \in {"exit", "done"}}
Triggering == {r \in Requests : client[r] = "submitted"}
Taken     == {r \in Requests : Accepted(r)}

TimeoutsCounted ==
  Cardinality(TimedOut) = total["waitTimeout"] + One(spc = "countTimeout") + One(cpc = "count")
ReleasesCounted == Cardinality(Released) = total["completed"]
SubmitsCounted  == total["submitted"] + Cardinality(Triggering) = Cardinality(Taken)

\* The attempt loop hands over results of the handler or the end of the context.
ResultsGenuine ==
  \A r \in Requests : resultCh[r] \in {"none", "ok", "ctxEnded"} \cup ErrorTypes

CInv == TimeoutsCounted /\ ReleasesCounted /\ SubmitsCounted /\ ResultsGenuine

\* The first answer sent to a request is the one it has.
LEMMA FirstAnswer ==
  ASSUME TypeOK, NEW r \in Requests, NEW a, reply[r] = <<>>, Send(r, a)
  PROVE  /\ reply'[r] # <<>> /\ reply'[r][1] = a
         /\ \A q \in Requests \ {r} : reply'[q] = reply[q]
BY DEF TypeOK, ChanType, Send

\* Counters outside C stay.
LEMMA CountFacts ==
  ASSUME TypeOK, NEW C, Count(C), NEW c \in Counters
  PROVE  total'[c] = IF c \in C THEN total[c] + 1 ELSE total[c]
BY DEF TypeOK, Count

\* Sets of requests are finite, and one more request counts for one.
LEMMA SetOfRequests ==
  ASSUME NEW S, S \subseteq Requests
  PROVE  /\ IsFiniteSet(S) /\ Cardinality(S) \in Nat
         /\ \A r \in Requests \ S : Cardinality(S \cup {r}) = Cardinality(S) + 1
<1>1. IsFiniteSet(S)
  BY FS_Subset, QueueAssumption
<1> QED
  BY <1>1, FS_CardinalityType, FS_AddElement

\* Only the attempt loop hands over results.
LEMMA ResultsGenuineStep ==
  ASSUME TypeOK, ResultsGenuine, [Next]_vars
  PROVE  ResultsGenuine'
<1>0. resultCh = [q \in Requests |-> resultCh[q]]
  BY DEF TypeOK, LoopType
<1>1. ASSUME NEW r \in Requests, WorkerResult(r) PROVE ResultsGenuine'
  BY <1>0, <1>1 DEF WorkerResult, ResultsGenuine
<1>2. ASSUME NEW r \in Requests, NEW a \in {"ok", "ctxEnded"} \cup ErrorTypes, Finish(r, a)
      PROVE  ResultsGenuine'
  BY <1>0, <1>2 DEF Finish, ResultsGenuine
<1>3. ASSUME NEW r \in Requests, LoopCtx(r) PROVE ResultsGenuine'
  BY <1>2, <1>3 DEF LoopCtx
<1>4. ASSUME NEW r \in Requests, NEW k \in HandlerResults, HandlerReturn(r, k)
      PROVE  ResultsGenuine'
  <2>1. k \in {"ok", "ctxEnded"} \cup ErrorTypes
    BY QueueAssumption
  <2>2. CASE Finish(r, k)
    BY <1>2, <2>1, <2>2
  <2>3. CASE UNCHANGED resultCh
    BY <2>3 DEF ResultsGenuine
  <2> QED
    BY <1>4, <2>2, <2>3 DEF HandlerReturn
<1>5. ASSUME \/ UNCHANGED vars \/ Scheduler \/ Cleanup
             \/ Stop \/ StopDone \/ GetStatsLock \/ GetStatsRead
             \/ \E r \in Requests : \/ Generate(r) \/ ClientStep(r) \/ CtxEnd(r) \/ WaitExpires(r)
                                    \/ WorkerCtx(r) \/ WorkerRelease(r) \/ WorkerExit(r) \/ Launch(r)
      PROVE  ResultsGenuine'
  <2>1. UNCHANGED resultCh
    BY <1>5 DEF vars, loopVars, otherVars, Scheduler, SchedWake, SchedStop, SchedSlots, SchedPop,
      SchedDrop, SchedCount, SchedStart, Cleanup, CleanupTick, CleanupKeep, CleanupAnswer,
      CleanupCount, CleanupCommit, CleanupTrigger, CleanupStop, Stop, StopDone, GetStatsLock,
      GetStatsRead, Generate, ClientStep, SubmitCheck, SubmitEnqueue, SubmitReject, SubmitTrigger,
      AwaitReply, AwaitCtx, CtxEnd, WaitExpires, WorkerCtx, WorkerRelease, WorkerExit, Launch
  <2> QED
    BY <2>1 DEF ResultsGenuine
<1> QED
  BY <1>1, <1>3, <1>4, <1>5 DEF Next, WorkerStep, LoopStep

\* A waiting timeout is answered and then counted, by the scheduler or by cleanup.
LEMMA TimeoutsCountedStep ==
  ASSUME IInv, CInv, [Next]_vars
  PROVE  TimeoutsCounted'
<1>0. /\ TypeOK /\ TimeoutsCounted /\ ResultsGenuine /\ total["waitTimeout"] \in Nat
      /\ TimedOut \subseteq Requests /\ "waitTimeout" \in Counters
  BY DEF IInv, CInv, TypeOK, TimedOut, Counters
<1>1. Cardinality(TimedOut) \in Nat
  BY <1>0, SetOfRequests
<1>2. ASSUME NEW r \in Requests, NEW a, reply[r] = <<>>, Send(r, a)
      PROVE  Cardinality(TimedOut') = Cardinality(TimedOut) + One(a = "waitTimeout")
  <2>1. /\ reply'[r] # <<>> /\ reply'[r][1] = a
        /\ \A q \in Requests \ {r} : reply'[q] = reply[q]
    BY <1>0, <1>2, FirstAnswer
  <2>2. r \notin TimedOut
    BY <1>2 DEF TimedOut
  <2>3. CASE a = "waitTimeout"
    <3>1. TimedOut' = TimedOut \cup {r}
      BY <2>1, <2>3 DEF TimedOut
    <3> QED
      BY <1>0, <2>2, <2>3, <3>1, SetOfRequests DEF One
  <2>4. CASE a # "waitTimeout"
    <3>1. TimedOut' = TimedOut
      BY <2>1, <2>2, <2>4 DEF TimedOut
    <3> QED
      BY <1>1, <2>4, <3>1 DEF One
  <2> QED
    BY <2>3, <2>4
<1>3. CASE SchedDrop
  <2>1. /\ sreq \in Requests /\ reply[sreq] = <<>> /\ UNCHANGED <<total, cpc>>
    BY <1>3 DEF SchedDrop, IInv, TypeOK, SchedType, HeldUntouched, Untouched, scanVars
  <2>2. CASE spc = "dropTimeout"
    <3>1. Send(sreq, "waitTimeout") /\ spc' = "countTimeout"
      BY <1>3, <2>2 DEF SchedDrop
    <3> QED
      BY <1>0, <1>1, <1>2, <2>1, <2>2, <3>1 DEF TimeoutsCounted, One
  <2>3. CASE spc = "dropCanceled"
    <3>1. Send(sreq, "ctxEnded") /\ spc' = "countCanceled"
      BY <1>3, <2>3 DEF SchedDrop
    <3> QED
      BY <1>0, <1>1, <1>2, <2>1, <2>3, <3>1 DEF TimeoutsCounted, One
  <2> QED
    BY <1>3, <2>2, <2>3 DEF SchedDrop
<1>4. CASE CleanupAnswer
  <2>1. /\ pending[scanPos] \in Requests /\ Send(pending[scanPos], "waitTimeout")
        /\ cpc = "scan" /\ cpc' = "count" /\ UNCHANGED <<total, spc>>
        /\ scanPos \in 1..Len(pending)
    BY <1>4 DEF CleanupAnswer, IInv, TypeOK, QueueType, ScanType, schedVars
  <2>2. reply[pending[scanPos]] = <<>>
    BY <2>1 DEF IInv, QueuedUntouched, AnsweredAt, Untouched
  <2> QED
    BY <1>0, <1>1, <1>2, <2>1, <2>2 DEF TimeoutsCounted, One
<1>5. ASSUME NEW r \in Requests, WorkerCtx(r) \/ WorkerResult(r) PROVE TimeoutsCounted'
  <2>1. UNCHANGED <<total, spc, cpc>> /\ worker[r] = "select"
    BY <1>5 DEF WorkerCtx, WorkerResult, schedVars, scanVars
  <2>2. reply[r] = <<>>
    BY <2>1 DEF IInv, ReplyStates, ReplyState, Untouched
  <2>3. PICK a \in {"none", "ok", "ctxEnded"} \cup ErrorTypes : Send(r, a)
    BY <1>0, <1>5 DEF WorkerCtx, WorkerResult, SendCanceled, ResultsGenuine
  <2>4. a # "waitTimeout"
    BY DEF ErrorTypes
  <2> QED
    BY <1>0, <1>1, <1>2, <2>1, <2>2, <2>3, <2>4 DEF TimeoutsCounted, One
<1>6. CASE SchedCount
  <2>1. UNCHANGED <<reply, cpc>> /\ spc' = "slots" /\ TimedOut' = TimedOut
    BY <1>6 DEF SchedCount, chanVars, scanVars, TimedOut
  <2>2. CASE spc = "countTimeout"
    <3>1. total'["waitTimeout"] = total["waitTimeout"] + 1
      BY <1>0, <1>6, <2>2, CountFacts DEF SchedCount
    <3> QED
      BY <1>0, <2>1, <2>2, <3>1 DEF TimeoutsCounted, One
  <2>3. CASE spc = "countCanceled"
    <3>1. total'["waitTimeout"] = total["waitTimeout"]
      BY <1>0, <1>6, <2>3, CountFacts DEF SchedCount
    <3> QED
      BY <1>0, <2>1, <2>3, <3>1 DEF TimeoutsCounted, One
  <2> QED
    BY <1>6, <2>2, <2>3 DEF SchedCount
<1>7. CASE CleanupCount
  <2>1. UNCHANGED <<reply, spc>> /\ cpc = "count" /\ cpc' = "scan" /\ TimedOut' = TimedOut
    BY <1>7 DEF CleanupCount, chanVars, schedVars, TimedOut
  <2>2. total'["waitTimeout"] = total["waitTimeout"] + 1
    BY <1>0, <1>7, CountFacts DEF CleanupCount
  <2> QED
    BY <1>0, <2>1, <2>2 DEF TimeoutsCounted, One
<1>8. ASSUME UNCHANGED reply, total'["waitTimeout"] = total["waitTimeout"],
             spc' = spc \/ ("countTimeout" \notin {spc, spc'}),
             cpc' = cpc \/ ("count" \notin {cpc, cpc'})
      PROVE  TimeoutsCounted'
  <2>1. TimedOut' = TimedOut
    BY <1>8 DEF TimedOut
  <2>2. (spc' = "countTimeout") = (spc = "countTimeout") /\ (cpc' = "count") = (cpc = "count")
    BY <1>8
  <2>3. One(spc' = "countTimeout") = One(spc = "countTimeout") /\ One(cpc' = "count") = One(cpc = "count")
    BY <2>2 DEF One
  <2> QED
    BY <1>0, <1>8, <2>1, <2>3 DEF TimeoutsCounted
<1>9. ASSUME NEW r \in Requests, SubmitReject(r) \/ SubmitTrigger(r) \/ WorkerRelease(r)
      PROVE  TimeoutsCounted'
  <2>1. UNCHANGED <<reply, spc, cpc>>
    BY <1>9 DEF SubmitReject, SubmitTrigger, WorkerRelease, chanVars, schedVars, scanVars
  <2>2. PICK C : Count(C) /\ "waitTimeout" \notin C
    BY <1>9 DEF SubmitReject, SubmitTrigger, WorkerRelease, CancelCounters, ResultCounters, ErrorTypes
  <2>3. total'["waitTimeout"] = total["waitTimeout"]
    BY <1>0, <2>2, CountFacts
  <2> QED
    BY <1>8, <2>1, <2>3
<1>10. ASSUME \/ UNCHANGED vars
              \/ SchedWake \/ SchedStop \/ SchedSlots \/ SchedPop \/ SchedStart
              \/ CleanupTick \/ CleanupKeep \/ CleanupCommit \/ CleanupTrigger \/ CleanupStop
              \/ Stop \/ StopDone \/ GetStatsLock \/ GetStatsRead
              \/ \E r \in Requests : \/ Generate(r) \/ SubmitCheck(r) \/ SubmitEnqueue(r)
                   \/ AwaitReply(r) \/ AwaitCtx(r) \/ CtxEnd(r) \/ WaitExpires(r)
                   \/ WorkerExit(r) \/ LoopStep(r)
                   \/ \E k \in HandlerResults : HandlerReturn(r, k)
       PROVE  TimeoutsCounted'
  <2>1. UNCHANGED <<reply, total>>
    BY <1>10 DEF vars, chanVars, otherVars, SchedWake, SchedStop, SchedSlots, SchedPop, SchedStart,
      CleanupTick, CleanupKeep, CleanupCommit, CleanupTrigger, CleanupStop, Stop, StopDone,
      GetStatsLock, GetStatsRead, Generate, SubmitCheck, SubmitEnqueue, AwaitReply, AwaitCtx, CtxEnd,
      WaitExpires, WorkerExit, LoopStep, Launch, LoopCtx, HandlerReturn
  <2>2. /\ spc' = spc \/ ("countTimeout" \notin {spc, spc'})
        /\ cpc' = cpc \/ ("count" \notin {cpc, cpc'})
    BY <1>10 DEF vars, schedVars, scanVars, otherVars, SchedWake, SchedStop, SchedSlots, SchedPop,
      SchedStart, CleanupTick, CleanupKeep, CleanupCommit, CleanupTrigger, CleanupStop, Stop,
      StopDone, GetStatsLock, GetStatsRead, Generate, SubmitCheck, SubmitEnqueue, AwaitReply,
      AwaitCtx, CtxEnd, WaitExpires, WorkerExit, LoopStep, Launch, LoopCtx, HandlerReturn
  <2> QED
    BY <1>8, <2>1, <2>2
<1> QED
  BY <1>3, <1>4, <1>5, <1>6, <1>7, <1>9, <1>10 DEF Next, ClientStep, Scheduler, WorkerStep, Cleanup

\* A worker that has released its slot was counted as completed, on both branches.
LEMMA ReleasesCountedStep ==
  ASSUME IInv, CInv, [Next]_vars
  PROVE  ReleasesCounted'
<1>0. /\ TypeOK /\ ReleasesCounted /\ total["completed"] \in Nat /\ "completed" \in Counters
      /\ Released \subseteq Requests /\ Requests \subseteq Requests
  BY DEF IInv, CInv, TypeOK, Released, Counters
<1>1. ASSUME NEW r \in Requests, WorkerRelease(r) PROVE ReleasesCounted'
  <2>1. /\ worker'[r] = "exit" /\ worker[r] \in {"canceled", "answered"}
        /\ \A q \in Requests \ {r} : worker'[q] = worker[q]
    BY <1>0, <1>1 DEF WorkerRelease, TypeOK, SlotType
  <2>2. Released' = Released \cup {r} /\ r \notin Released
    BY <2>1 DEF Released
  <2>3. PICK C : Count(C) /\ "completed" \in C
    BY <1>1 DEF WorkerRelease, CancelCounters, ResultCounters
  <2>4. total'["completed"] = total["completed"] + 1
    BY <1>0, <2>3, CountFacts
  <2> QED
    BY <1>0, <2>2, <2>4, SetOfRequests DEF ReleasesCounted
<1>2. ASSUME total'["completed"] = total["completed"],
             \A r \in Requests : worker'[r] \in {"exit", "done"} <=> worker[r] \in {"exit", "done"}
      PROVE  ReleasesCounted'
  BY <1>0, <1>2 DEF ReleasesCounted, Released
<1>3. ASSUME NEW r \in Requests, WorkerCtx(r) \/ WorkerResult(r) \/ WorkerExit(r)
      PROVE  ReleasesCounted'
  BY <1>0, <1>2, <1>3 DEF WorkerCtx, WorkerResult, WorkerExit, TypeOK, SlotType
<1>4. CASE SchedStart
  <2>1. worker[sreq] = "none" /\ sreq \in Requests
    BY <1>4 DEF SchedStart, IInv, TypeOK, SchedType, Ownership
  <2> QED
    BY <1>0, <1>2, <1>4, <2>1 DEF SchedStart, TypeOK, SlotType
<1>5. ASSUME NEW r \in Requests, SubmitReject(r) \/ SubmitTrigger(r) PROVE ReleasesCounted'
  <2>1. total'["completed"] = total["completed"]
    BY <1>0, <1>5, CountFacts DEF SubmitReject, SubmitTrigger
  <2> QED
    BY <1>2, <1>5, <2>1 DEF SubmitReject, SubmitTrigger, slotVars
<1>6. ASSUME SchedCount \/ CleanupCount PROVE ReleasesCounted'
  <2>1. total'["completed"] = total["completed"]
    BY <1>0, <1>6, CountFacts DEF SchedCount, CleanupCount
  <2> QED
    BY <1>2, <1>6, <2>1 DEF SchedCount, CleanupCount, slotVars
<1>7. ASSUME \/ UNCHANGED vars
             \/ SchedWake \/ SchedStop \/ SchedSlots \/ SchedPop \/ SchedDrop
             \/ CleanupTick \/ CleanupKeep \/ CleanupAnswer \/ CleanupCommit \/ CleanupTrigger
             \/ CleanupStop \/ Stop \/ StopDone \/ GetStatsLock \/ GetStatsRead
             \/ \E r \in Requests : \/ Generate(r) \/ SubmitCheck(r) \/ SubmitEnqueue(r)
                  \/ AwaitReply(r) \/ AwaitCtx(r) \/ CtxEnd(r) \/ WaitExpires(r) \/ LoopStep(r)
                  \/ \E k \in HandlerResults : HandlerReturn(r, k)
      PROVE  ReleasesCounted'
  <2>1. UNCHANGED <<worker, total>>
    BY <1>7 DEF vars, slotVars, otherVars, SchedWake, SchedStop, SchedSlots, SchedPop, SchedDrop,
      CleanupTick, CleanupKeep, CleanupAnswer, CleanupCommit, CleanupTrigger, CleanupStop, Stop,
      StopDone, GetStatsLock, GetStatsRead, Generate, SubmitCheck, SubmitEnqueue, AwaitReply,
      AwaitCtx, CtxEnd, WaitExpires, LoopStep, Launch, LoopCtx, HandlerReturn
  <2> QED
    BY <1>2, <2>1
<1> QED
  BY <1>1, <1>3, <1>4, <1>5, <1>6, <1>7 DEF Next, ClientStep, Scheduler, WorkerStep, Cleanup

\* A request is counted as submitted after it entered the queue.
LEMMA SubmitsCountedStep ==
  ASSUME IInv, CInv, [Next]_vars
  PROVE  SubmitsCounted'
<1>0. /\ TypeOK /\ SubmitsCounted /\ total["submitted"] \in Nat /\ "submitted" \in Counters
      /\ Triggering \subseteq Requests /\ Taken \subseteq Requests
      /\ client = [q \in Requests |-> client[q]]
  BY DEF IInv, CInv, TypeOK, ClientType, Triggering, Taken, Counters
<1>1. Cardinality(Triggering) \in Nat /\ Cardinality(Taken) \in Nat
  BY <1>0, SetOfRequests
<1>2. ASSUME NEW r \in Requests, SubmitEnqueue(r) PROVE SubmitsCounted'
  <2>1. client[r] = "enqueue" /\ UNCHANGED total
    BY <1>2 DEF SubmitEnqueue
  <2>2. r \notin Triggering /\ r \notin Taken
    BY <2>1 DEF Triggering, Taken, Accepted
  <2>3. CASE Goto(r, "submitted")
    <3>1. Triggering' = Triggering \cup {r} /\ Taken' = Taken \cup {r}
      BY <1>0, <2>3 DEF Goto, Triggering, Taken, Accepted, Refused
    <3>2. /\ Cardinality(Triggering') = Cardinality(Triggering) + 1
          /\ Cardinality(Taken') = Cardinality(Taken) + 1
      BY <1>0, <2>2, <3>1, SetOfRequests
    <3> QED
      BY <1>0, <1>1, <2>1, <3>2 DEF SubmitsCounted
  <2>4. CASE Goto(r, "reject")
    <3>1. Triggering' = Triggering /\ Taken' = Taken
      BY <1>0, <2>1, <2>4 DEF Goto, Triggering, Taken, Accepted, Refused
    <3> QED
      BY <1>0, <2>1, <3>1 DEF SubmitsCounted
  <2> QED
    BY <1>2, <2>3, <2>4 DEF SubmitEnqueue
<1>3. ASSUME NEW r \in Requests, SubmitTrigger(r) PROVE SubmitsCounted'
  <2>1. client[r] = "submitted" /\ Goto(r, "wait") /\ Count({"submitted"})
    BY <1>3 DEF SubmitTrigger
  <2>2. total'["submitted"] = total["submitted"] + 1
    BY <1>0, <2>1, CountFacts
  <2>3. Taken' = Taken /\ Triggering = Triggering' \cup {r} /\ r \in Requests \ Triggering'
    BY <1>0, <2>1 DEF Goto, Triggering, Taken, Accepted, Refused
  <2>4. Triggering' \subseteq Requests
    BY DEF Triggering
  <2>5. Cardinality(Triggering) = Cardinality(Triggering') + 1 /\ Cardinality(Triggering') \in Nat
    BY <2>3, <2>4, SetOfRequests
  <2> QED
    BY <1>0, <1>1, <2>2, <2>3, <2>5 DEF SubmitsCounted
<1>4. ASSUME total'["submitted"] = total["submitted"],
             \A r \in Requests : /\ client'[r] = "submitted" <=> client[r] = "submitted"
                                 /\ Accepted(r)' <=> Accepted(r)
      PROVE  SubmitsCounted'
  BY <1>0, <1>4 DEF SubmitsCounted, Triggering, Taken
<1>5. ASSUME NEW r \in Requests, Generate(r) \/ SubmitCheck(r) \/ AwaitReply(r) \/ AwaitCtx(r)
      PROVE  SubmitsCounted'
  <2>1. UNCHANGED total
    BY <1>5 DEF Generate, SubmitCheck, AwaitReply, AwaitCtx
  <2>2. CASE Generate(r) \/ SubmitCheck(r)
    BY <1>0, <1>4, <2>1, <2>2 DEF Generate, SubmitCheck, Goto, Return, Accepted, Refused
  <2>3. CASE AwaitCtx(r)
    BY <1>0, <1>4, <2>1, <2>3 DEF AwaitCtx, Return, Accepted, Refused
  <2>4. CASE AwaitReply(r)
    <3>1. PICK a \in Answers \cup {"zeroResponse"} : Return(r, a)
      BY <1>0, <2>4 DEF AwaitReply, TypeOK, ChanType
    <3>2. a \notin {"submitted", "idle", "check", "enqueue", "reject", "queueClosed", "queueFull"}
      BY DEF Answers, ErrorTypes
    <3>3. client[r] = "wait"
      BY <2>4 DEF AwaitReply
    <3>4. client'[r] = a /\ \A q \in Requests \ {r} : client'[q] = client[q]
      BY <1>0, <3>1 DEF Return
    <3> QED
      BY <1>4, <2>1, <3>2, <3>3, <3>4 DEF Accepted, Refused
  <2> QED
    BY <1>5, <2>2, <2>3, <2>4
<1>6. ASSUME NEW r \in Requests, SubmitReject(r) PROVE SubmitsCounted'
  <2>1. total'["submitted"] = total["submitted"]
    BY <1>0, <1>6, CountFacts DEF SubmitReject
  <2> QED
    BY <1>0, <1>4, <1>6, <2>1 DEF SubmitReject, Return, Accepted, Refused
<1>7. ASSUME \/ SchedCount \/ CleanupCount
             \/ \E r \in Requests : WorkerRelease(r)
      PROVE  SubmitsCounted'
  <2>1. PICK C : Count(C) /\ "submitted" \notin C
    <3>1. CASE SchedCount
      BY <3>1 DEF SchedCount
    <3>2. CASE CleanupCount
      BY <3>2 DEF CleanupCount
    <3>3. ASSUME NEW r \in Requests, WorkerRelease(r)
          PROVE  \E C : Count(C) /\ "submitted" \notin C
      BY <3>3 DEF WorkerRelease, CancelCounters, ResultCounters, ErrorTypes
    <3> QED
      BY <1>7, <3>1, <3>2, <3>3
  <2>2. total'["submitted"] = total["submitted"]
    BY <1>0, <2>1, CountFacts
  <2>3. UNCHANGED client
    BY <1>7 DEF SchedCount, CleanupCount, WorkerRelease, clientVars
  <2> QED
    BY <1>4, <2>2, <2>3 DEF Accepted
<1>8. ASSUME \/ UNCHANGED vars
             \/ SchedWake \/ SchedStop \/ SchedSlots \/ SchedPop \/ SchedDrop \/ SchedStart
             \/ CleanupTick \/ CleanupKeep \/ CleanupAnswer \/ CleanupCommit \/ CleanupTrigger
             \/ CleanupStop \/ Stop \/ StopDone \/ GetStatsLock \/ GetStatsRead
             \/ \E r \in Requests : \/ CtxEnd(r) \/ WaitExpires(r) \/ LoopStep(r)
                  \/ WorkerCtx(r) \/ WorkerResult(r) \/ WorkerExit(r)
                  \/ \E k \in HandlerResults : HandlerReturn(r, k)
      PROVE  SubmitsCounted'
  <2>1. UNCHANGED <<client, total>>
    BY <1>8 DEF vars, clientVars, otherVars, SchedWake, SchedStop, SchedSlots, SchedPop, SchedDrop,
      SchedStart, CleanupTick, CleanupKeep, CleanupAnswer, CleanupCommit, CleanupTrigger,
      CleanupStop, Stop, StopDone, GetStatsLock, GetStatsRead, CtxEnd, WaitExpires, LoopStep,
      Launch, LoopCtx, WorkerCtx, WorkerResult, WorkerExit, HandlerReturn
  <2> QED
    BY <1>4, <2>1 DEF Accepted
<1> QED
  BY <1>2, <1>3, <1>5, <1>6, <1>7, <1>8 DEF Next, ClientStep, Scheduler, WorkerStep, Cleanup

\* The statistics add up, for any number of requests: every waiting timeout is
\* counted once, whoever answered it, every released slot once, and every
\* request that entered the queue once.
THEOREM CountersAddUp == Spec => []AnswersCounted
<1>1. Init => CInv
  <2> SUFFICES ASSUME Init PROVE CInv
    OBVIOUS
  <2>1. TimedOut = {} /\ Released = {} /\ Triggering = {} /\ Taken = {}
    BY DEF Init, TimedOut, Released, Triggering, Taken, Accepted
  <2>2. /\ total["waitTimeout"] = 0 /\ total["completed"] = 0 /\ total["submitted"] = 0
        /\ spc = "select" /\ cpc = "tick"
    BY DEF Init, Counters
  <2>3. ResultsGenuine
    BY DEF Init, ResultsGenuine
  <2> QED
    BY <2>1, <2>2, <2>3, FS_EmptySet
    DEF CInv, TimeoutsCounted, ReleasesCounted, SubmitsCounted, One
<1>2. IInv /\ CInv /\ [Next]_vars => CInv'
  BY TimeoutsCountedStep, ReleasesCountedStep, SubmitsCountedStep, ResultsGenuineStep DEF CInv, IInv
<1>3. CInv => AnswersCounted
  BY DEF CInv, TimeoutsCounted, ReleasesCounted, SubmitsCounted, TimedOut, Released, Triggering,
    Taken, AnswersCounted, Answered
<1> QED
  BY <1>1, <1>2, <1>3, InductiveInvariant, PTL DEF Spec

-----------------------------------------------------------------------------
(* The queue implements LLMQueueAbs.                                        *)

\* running and answered of the refinement mapping.
AbsRunning == {r \in Requests : HoldsSlot(r) \/ (spc = "start" /\ sreq = r)}
AbsAnswered == {r \in Requests : \/ reply[r] # <<>>
                                 \/ spc \in {"dropTimeout", "dropCanceled"} /\ sreq = r}

\* The scan keeps requests in the order of the queue.
OrderKept(kept, end, q) ==
  \A i, j \in 1..Len(kept) : i < j =>
    \E k, l \in 1..Len(q) : k < l /\ l < end /\ q[k] = kept[i] /\ q[l] = kept[j]
ScanOrdered == OrderKept(newPending, scanPos, pending)

\* A scan starts with nothing and adds what comes next in the queue.
LEMMA ScanOrderedStep ==
  ASSUME IInv, ScanOrdered, [Next]_vars
  PROVE  ScanOrdered'
<1>0. /\ pending \in Seq(Requests) /\ scanPos \in Nat \ {0} /\ newPending \in Seq(Requests)
      /\ ScanState
  BY DEF IInv, TypeOK, QueueType, ScanType
<1>1. ASSUME UNCHANGED <<pending, scanPos, newPending>> PROVE ScanOrdered'
  BY <1>1 DEF ScanOrdered
<1>2. ASSUME newPending' = <<>> PROVE ScanOrdered'
  BY <1>2 DEF ScanOrdered, OrderKept
<1>3. ASSUME (\E r \in Requests : SubmitEnqueue(r)) \/ SchedPop PROVE ScanOrdered'
  <2>1. newPending = <<>> /\ UNCHANGED newPending
    BY <1>0, <1>3 DEF SubmitEnqueue, SchedPop, ScanState, Scanning, scanVars
  <2> QED
    BY <1>2, <2>1
<1>4. ASSUME CleanupTick \/ CleanupCommit \/ CleanupTrigger \/ CleanupStop PROVE ScanOrdered'
  <2>1. newPending' = <<>>
    BY <1>0, <1>4 DEF CleanupTick, CleanupCommit, CleanupTrigger, CleanupStop, ScanState, Scanning
  <2> QED
    BY <1>2, <2>1
<1>5. CASE CleanupKeep
  <2>1. /\ newPending' = Append(newPending, pending[scanPos]) /\ scanPos' = scanPos + 1
        /\ scanPos <= Len(pending) /\ pending[scanPos] \in Requests /\ UNCHANGED pending
    BY <1>0, <1>5 DEF CleanupKeep, Keep, queueVars
  <2>2. /\ Len(newPending') = Len(newPending) + 1 /\ Len(newPending) \in Nat
        /\ \A j \in 1..Len(newPending) : newPending'[j] = newPending[j]
        /\ newPending'[Len(newPending) + 1] = pending[scanPos]
    BY <1>0, <2>1, AppendFacts
  <2> SUFFICES ASSUME NEW i \in 1..Len(newPending'), NEW j \in 1..Len(newPending'), i < j
               PROVE  \E k, l \in 1..Len(pending') : /\ k < l /\ l < scanPos'
                        /\ pending'[k] = newPending'[i] /\ pending'[l] = newPending'[j]
    BY DEF ScanOrdered, OrderKept
  <2>3. i \in 1..Len(newPending) /\ newPending'[i] = newPending[i]
    BY <2>2
  <2>4. CASE j \in 1..Len(newPending)
    <3>1. PICK k, l \in 1..Len(pending) :
            k < l /\ l < scanPos /\ pending[k] = newPending[i] /\ pending[l] = newPending[j]
      BY <2>3, <2>4 DEF ScanOrdered, OrderKept
    <3>2. newPending'[j] = newPending[j] /\ l < scanPos + 1
      BY <1>0, <2>2, <2>4, <3>1
    <3> QED
      BY <2>1, <2>3, <3>1, <3>2
  <2>5. CASE j = Len(newPending) + 1
    <3>1. PICK k \in 1..(scanPos - 1) : k <= Len(pending) /\ newPending[i] = pending[k]
      BY <1>0, <2>3 DEF ScanState
    <3>2. k \in 1..Len(pending) /\ scanPos \in 1..Len(pending) /\ k < scanPos /\ scanPos < scanPos + 1
      BY <1>0, <2>1, <3>1
    <3> QED
      BY <2>1, <2>2, <2>3, <2>5, <3>1, <3>2
  <2> QED
    BY <2>2, <2>4, <2>5
<1>6. CASE CleanupAnswer
  BY <1>1, <1>6 DEF CleanupAnswer, queueVars
<1>7. CASE CleanupCount
  <2>1. UNCHANGED <<pending, newPending>> /\ scanPos' = scanPos + 1
    BY <1>7 DEF CleanupCount, queueVars
  <2>2. \A l \in 1..Len(pending) : l < scanPos => l < scanPos + 1
    BY <1>0
  <2> QED
    BY <2>1, <2>2 DEF ScanOrdered, OrderKept
<1> QED
  BY <1>1, <1>3, <1>4, <1>5, <1>6, <1>7, ScanFrame

\* Where a step leaves the three abstract variables alone.
LEMMA AbsStutter ==
  ASSUME UNCHANGED pending, AbsRunning' = AbsRunning, AbsAnswered' = AbsAnswered
  PROVE  UNCHANGED Abs!absVars
BY DEF Abs!absVars, AbsRunning, AbsAnswered

\* A request that is in the queue is not running, nor answered unless the scan
\* has answered it.
LEMMA QueuedIdle ==
  ASSUME IInv, NEW i \in 1..Len(pending)
  PROVE  /\ pending[i] \in Requests /\ pending[i] \notin AbsRunning
         /\ ~AnsweredAt(i) => pending[i] \notin AbsAnswered
<1>1. pending[i] \in Requests /\ worker[pending[i]] = "none" /\ pending[i] # sreq
  BY DEF IInv, TypeOK, QueueType, Ownership
<1>2. ~AnsweredAt(i) => reply[pending[i]] = <<>>
  BY DEF IInv, QueuedUntouched, Untouched
<1> QED
  BY <1>1, <1>2 DEF AbsRunning, AbsAnswered, HoldsSlot

\* A request comes into the queue.
LEMMA AcceptStep ==
  ASSUME IInv, NEW r \in Requests, SubmitEnqueue(r)
  PROVE  Abs!Accept(r) \/ UNCHANGED Abs!absVars
<1>1. UNCHANGED <<worker, spc, sreq, reply>> /\ client[r] = "enqueue"
  BY DEF SubmitEnqueue, slotVars, schedVars, chanVars
<1>2. AbsRunning' = AbsRunning /\ AbsAnswered' = AbsAnswered
  BY <1>1 DEF AbsRunning, AbsAnswered, HoldsSlot
<1>3. CASE Len(pending) >= MaxQueueSize
  BY <1>2, <1>3, AbsStutter DEF SubmitEnqueue
<1>4. CASE ~(Len(pending) >= MaxQueueSize)
  <2>1. pending' = Append(pending, r) /\ Len(pending) < MaxQueueSize
    BY <1>4, QueueAssumption DEF SubmitEnqueue, Enqueue, IInv, TypeOK, QueueType
  <2>2. Fresh(r)
    BY <1>1 DEF Fresh
  <2>3. worker[r] = "none" /\ reply[r] = <<>> /\ sreq # r
    BY <2>2 DEF IInv, Ownership, Untouched
  <2>4. r \notin AbsRunning \cup AbsAnswered
    BY <2>3 DEF AbsRunning, AbsAnswered, HoldsSlot
  <2>5. \A i \in 1..Len(pending) : pending[i] # r
    BY <2>2 DEF IInv, Ownership
  <2>6. DOMAIN pending = 1..Len(pending)
    BY DEF IInv, TypeOK, QueueType
  <2> QED
    BY <1>2, <2>1, <2>4, <2>5, <2>6 DEF Abs!Accept, Abs!InQueue, AbsRunning, AbsAnswered
<1> QED
  BY <1>3, <1>4

\* The scheduler takes the oldest request, to start it or to answer it.
LEMMA PopStep ==
  ASSUME IInv, SchedPop
  PROVE  Abs!Start \/ Abs!Drop \/ UNCHANGED Abs!absVars
<1>1. UNCHANGED <<worker, reply>> /\ spc = "pop" /\ pendingMu = "free"
  BY DEF SchedPop, slotVars, chanVars
<1>2. CASE pending = <<>>
  <2>1. UNCHANGED <<pending, sreq>> /\ spc' = "select"
    BY <1>2 DEF SchedPop
  <2>2. AbsRunning' = AbsRunning /\ AbsAnswered' = AbsAnswered
    BY <1>1, <2>1 DEF AbsRunning, AbsAnswered, HoldsSlot
  <2> QED
    BY <2>1, <2>2, AbsStutter
<1>3. CASE pending # <<>>
  <2>1. /\ pending' = Tail(pending) /\ sreq' = Head(pending) /\ Head(pending) = pending[1]
        /\ spc' \in {"dropTimeout", "dropCanceled", "start"} /\ 1 \in 1..Len(pending)
    BY <1>3, TailFacts DEF SchedPop, IInv, TypeOK, QueueType
  <2>2. ~AnsweredAt(1)
    BY <1>1 DEF IInv, ScanState, Scanning, AnsweredAt
  <2>3. /\ pending[1] \in Requests /\ pending[1] \notin AbsRunning
        /\ pending[1] \notin AbsAnswered
    BY <2>1, <2>2, QueuedIdle
  <2>4. CASE spc' = "start"
    <3>1. AbsRunning = Holders
      BY <1>1 DEF AbsRunning, Holders
    <3>2. Cardinality(AbsRunning) < MaxConcurrency
      BY <1>1, <3>1 DEF IInv, SlotReserved
    <3>3. AbsRunning' = AbsRunning \cup {Head(pending)}
      BY <1>1, <2>1, <2>3, <2>4 DEF AbsRunning, HoldsSlot
    <3>4. AbsAnswered' = AbsAnswered
      BY <1>1, <2>4 DEF AbsAnswered
    <3> QED
      <4>1. /\ pending # <<>> /\ Head(pending) \notin AbsAnswered
            /\ AbsRunning' = AbsRunning \cup {Head(pending)}
            /\ pending' = Tail(pending)
        BY <1>3, <2>1, <2>3, <3>3
      <4>2. Abs!Cardinality(AbsRunning) = Cardinality(AbsRunning)
        BY Zenon DEF Abs!Cardinality, Cardinality
      <4>3. Abs!Cardinality(AbsRunning) < MaxConcurrency
        BY <3>2, <4>2
      <4> QED
        BY <3>4, <4>1, <4>3, Zenon DEF Abs!Start, AbsRunning, AbsAnswered
  <2>5. CASE spc' \in {"dropTimeout", "dropCanceled"}
    <3>1. AbsRunning' = AbsRunning
      BY <1>1, <2>5 DEF AbsRunning, HoldsSlot
    <3>2. AbsAnswered' = AbsAnswered \cup {Head(pending)}
      BY <1>1, <2>1, <2>3, <2>5 DEF AbsAnswered
    <3> QED
      BY <1>3, <2>1, <2>3, <3>1, <3>2 DEF Abs!Drop, AbsRunning, AbsAnswered
  <2> QED
    BY <2>1, <2>4, <2>5
<1> QED
  BY <1>2, <1>3

\* A worker answers its request and then gives the slot back.
LEMMA WorkerImplements ==
  ASSUME IInv, NEW r \in Requests, WorkerStep(r)
  PROVE  Abs!Answer(r) \/ Abs!Release(r) \/ UNCHANGED Abs!absVars
<1>1. UNCHANGED <<pending, spc, sreq>> /\ \A q \in Requests \ {r} : worker'[q] = worker[q]
  BY WorkerFacts DEF IInv, WorkerStep, WorkerCtx, WorkerResult, WorkerRelease, WorkerExit,
    queueVars, schedVars
<1>2. sreq = r => worker[r] = "none"
  BY DEF IInv, Ownership
<1>3. CASE WorkerCtx(r) \/ WorkerResult(r)
  <2>1. worker[r] = "select" /\ worker'[r] \in {"canceled", "answered"} /\ reply[r] = <<>>
    BY <1>3 DEF WorkerCtx, WorkerResult, IInv, TypeOK, SlotType, ReplyStates, ReplyState, Untouched
  <2>2. PICK a : Send(r, a)
    BY <1>3 DEF WorkerCtx, WorkerResult, SendCanceled
  <2>3. reply'[r] # <<>> /\ \A q \in Requests \ {r} : reply'[q] = reply[q]
    BY <2>1, <2>2, FirstAnswer DEF IInv
  <2>4. AbsRunning' = AbsRunning /\ r \in AbsRunning
    BY <1>1, <2>1 DEF AbsRunning, HoldsSlot
  <2>5. AbsAnswered' = AbsAnswered \cup {r} /\ r \notin AbsAnswered
    BY <1>1, <1>2, <2>1, <2>3 DEF AbsAnswered
  <2> QED
    BY <1>1, <2>4, <2>5 DEF Abs!Answer, AbsRunning, AbsAnswered
<1>4. CASE WorkerRelease(r)
  <2>1. /\ worker[r] \in {"canceled", "answered"} /\ worker'[r] = "exit" /\ UNCHANGED reply
        /\ Len(reply[r]) = 1
    BY <1>4 DEF WorkerRelease, IInv, TypeOK, SlotType, ReplyStates, ReplyState, chanVars
  <2>2. r \in AbsRunning /\ AbsRunning' = AbsRunning \ {r}
    BY <1>1, <1>2, <2>1 DEF AbsRunning, HoldsSlot
  <2>3. r \in AbsAnswered /\ AbsAnswered' = AbsAnswered
    BY <1>1, <2>1 DEF AbsAnswered
  <2> QED
    BY <1>1, <2>2, <2>3 DEF Abs!Release, AbsRunning, AbsAnswered
<1>5. CASE WorkerExit(r)
  <2>1. worker[r] = "exit" /\ worker'[r] = "done" /\ UNCHANGED reply
    BY <1>5 DEF WorkerExit, IInv, TypeOK, SlotType
  <2>2. AbsRunning' = AbsRunning /\ AbsAnswered' = AbsAnswered
    BY <1>1, <2>1 DEF AbsRunning, AbsAnswered, HoldsSlot
  <2> QED
    BY <1>1, <2>2, AbsStutter
<1> QED
  BY <1>3, <1>4, <1>5 DEF WorkerStep

\* cleanup answers a request where it stands.
LEMMA ExpireStep ==
  ASSUME IInv, CleanupAnswer
  PROVE  \E r \in Requests : Abs!Expire(r)
<1> DEFINE r == pending[scanPos]
<1>1. /\ scanPos \in 1..Len(pending) /\ cpc = "scan" /\ Send(r, "waitTimeout")
      /\ UNCHANGED <<pending, worker, spc, sreq>> /\ DOMAIN pending = 1..Len(pending)
  BY DEF CleanupAnswer, IInv, TypeOK, QueueType, ScanType, queueVars, slotVars, schedVars
<1>2. ~AnsweredAt(scanPos)
  BY <1>1 DEF AnsweredAt, IInv, TypeOK, ScanType
<1>3. r \in Requests /\ r \notin AbsAnswered /\ reply[r] = <<>>
  BY <1>1, <1>2, QueuedIdle DEF AbsAnswered
<1>4. reply'[r] # <<>> /\ \A q \in Requests \ {r} : reply'[q] = reply[q]
  BY <1>1, <1>3, FirstAnswer DEF IInv
<1>5. AbsRunning' = AbsRunning /\ AbsAnswered' = AbsAnswered \cup {r}
  BY <1>1, <1>3, <1>4 DEF AbsRunning, AbsAnswered, HoldsSlot
<1> QED
  BY <1>1, <1>3, <1>5 DEF Abs!Expire, Abs!InQueue, AbsRunning, AbsAnswered

\* When cleanup puts the queue back the answered requests are gone and the
\* others keep their order.
LEMMA PurgeStep ==
  ASSUME IInv, PInv, ScanOrdered, CleanupCommit
  PROVE  Abs!Purge
<1>1. /\ pending' = newPending /\ UNCHANGED <<worker, spc, sreq, reply>>
      /\ scanPos > Len(pending) /\ pending \in Seq(Requests) /\ newPending \in Seq(Requests)
      /\ scanPos \in Nat
  BY DEF CleanupCommit, IInv, TypeOK, QueueType, ScanType, slotVars, schedVars, chanVars
<1>2. AbsRunning' = AbsRunning /\ AbsAnswered' = AbsAnswered
  BY <1>1 DEF AbsRunning, AbsAnswered, HoldsSlot
<1>3. ASSUME NEW i \in 1..Len(newPending)
      PROVE  \E j \in 1..Len(pending) : newPending[i] = pending[j] /\ pending[j] \notin AbsAnswered
  <2>1. PICK j \in 1..(scanPos - 1) :
          j <= Len(pending) /\ newPending[i] = pending[j] /\ pending[j] \notin cutoff
    BY DEF IInv, ScanState
  <2>2. j \in 1..Len(pending) /\ ~AnsweredAt(j)
    BY <1>1, <2>1 DEF AnsweredAt
  <2> QED
    BY <2>1, <2>2, QueuedIdle
<1>4. ASSUME NEW j \in 1..Len(pending), pending[j] \notin AbsAnswered
      PROVE  \E i \in 1..Len(newPending) : newPending[i] = pending[j]
  <2>1. j < scanPos /\ pending[j] \in Requests
    BY <1>1
  <2>2. reply[pending[j]] = <<>>
    BY <1>4, <2>1 DEF AbsAnswered
  <2>3. pending[j] \notin cutoff
    BY <2>1, <2>2 DEF PInv, ScanAnswers, AnsweredAt
  <2> QED
    BY <2>1, <2>3 DEF PInv, ScanKeeps
<1>5. {newPending[i] : i \in 1..Len(newPending)} = {pending[i] : i \in 1..Len(pending)} \ AbsAnswered
  <2>1. ASSUME NEW x, \E i \in 1..Len(newPending) : x = newPending[i]
        PROVE  x \notin AbsAnswered /\ \E j \in 1..Len(pending) : x = pending[j]
    BY <1>3, <2>1
  <2>2. ASSUME NEW x, x \notin AbsAnswered, \E j \in 1..Len(pending) : x = pending[j]
        PROVE  \E i \in 1..Len(newPending) : x = newPending[i]
    BY <1>4, <2>2
  <2> HIDE DEF AbsAnswered
  <2> QED
    BY <2>1, <2>2
<1>6. \A i, j \in 1..Len(newPending) : i < j =>
        \E k, l \in 1..Len(pending) :
          k < l /\ pending[k] = newPending[i] /\ pending[l] = newPending[j]
  BY DEF ScanOrdered, OrderKept
<1>7. DOMAIN pending = 1..Len(pending) /\ DOMAIN newPending = 1..Len(newPending)
  BY <1>1
<1> QED
  <2>1. pending' \in Seq(Requests)
    BY <1>1
  <2>2. Abs!Members(pending') = Abs!Members(pending) \ AbsAnswered
    BY <1>1, <1>5, <1>7 DEF Abs!Members
  <2>3. \A i, j \in DOMAIN pending' : i < j => Abs!Before(pending, pending'[i], pending'[j])
    <3> SUFFICES ASSUME NEW i \in DOMAIN newPending, NEW j \in DOMAIN newPending, i < j
                 PROVE  Abs!Before(pending, newPending[i], newPending[j])
      BY <1>1
    <3>1. i \in 1..Len(newPending) /\ j \in 1..Len(newPending)
      BY <1>7
    <3>2. PICK k, l \in 1..Len(pending) :
            k < l /\ pending[k] = newPending[i] /\ pending[l] = newPending[j]
      BY <1>6, <3>1
    <3>3. k \in DOMAIN pending /\ l \in DOMAIN pending
      BY <1>7
    <3> QED
      BY <3>2, <3>3, Zenon DEF Abs!Before
  <2>4. UNCHANGED <<AbsRunning, AbsAnswered>>
    BY <1>2
  <2> QED
    BY <2>1, <2>2, <2>3, <2>4, Zenon DEF Abs!Purge, AbsRunning, AbsAnswered

\* Nothing else is seen of the queue from outside.
LEMMA InnerStep ==
  ASSUME IInv,
         \/ UNCHANGED vars
         \/ SchedWake \/ SchedStop \/ SchedSlots \/ SchedDrop \/ SchedCount \/ SchedStart
         \/ CleanupTick \/ CleanupKeep \/ CleanupCount \/ CleanupTrigger \/ CleanupStop
         \/ Stop \/ StopDone \/ GetStatsLock \/ GetStatsRead
         \/ \E r \in Requests : \/ Generate(r) \/ SubmitCheck(r) \/ SubmitReject(r)
              \/ SubmitTrigger(r) \/ AwaitReply(r) \/ AwaitCtx(r) \/ CtxEnd(r) \/ WaitExpires(r)
              \/ LoopStep(r) \/ \E k \in HandlerResults : HandlerReturn(r, k)
  PROVE  UNCHANGED Abs!absVars
<1>1. CASE SchedDrop
  <2>1. /\ sreq \in Requests /\ UNCHANGED <<pending, worker, sreq>> /\ reply[sreq] = <<>>
        /\ spc \in {"dropTimeout", "dropCanceled"} /\ spc' \in {"countTimeout", "countCanceled"}
    BY <1>1 DEF SchedDrop, IInv, TypeOK, SchedType, HeldUntouched, Untouched, queueVars, slotVars
  <2>2. PICK a : Send(sreq, a)
    BY <1>1 DEF SchedDrop
  <2>3. reply'[sreq] # <<>> /\ \A q \in Requests \ {sreq} : reply'[q] = reply[q]
    BY <2>1, <2>2, FirstAnswer DEF IInv
  <2>4. AbsRunning' = AbsRunning /\ AbsAnswered' = AbsAnswered
    BY <2>1, <2>3 DEF AbsRunning, AbsAnswered, HoldsSlot
  <2> QED
    BY <2>1, <2>4, AbsStutter
<1>2. CASE SchedStart
  <2>1. /\ sreq \in Requests /\ UNCHANGED <<pending, reply>> /\ spc = "start" /\ spc' = "slots"
        /\ worker'[sreq] = "select" /\ \A q \in Requests \ {sreq} : worker'[q] = worker[q]
    BY <1>2 DEF SchedStart, IInv, TypeOK, SchedType, SlotType, queueVars, chanVars
  <2>2. AbsRunning' = AbsRunning /\ AbsAnswered' = AbsAnswered
    BY <2>1 DEF AbsRunning, AbsAnswered, HoldsSlot
  <2> QED
    BY <2>1, <2>2, AbsStutter
<1>3. CASE SchedWake \/ SchedStop \/ SchedSlots \/ SchedCount
  <2>1. /\ UNCHANGED <<pending, worker, reply>>
        /\ {spc, spc'} \cap {"start", "dropTimeout", "dropCanceled"} = {}
    BY <1>3 DEF SchedWake, SchedStop, SchedSlots, SchedCount, queueVars, slotVars, chanVars
  <2>2. AbsRunning' = AbsRunning /\ AbsAnswered' = AbsAnswered
    BY <2>1 DEF AbsRunning, AbsAnswered, HoldsSlot
  <2> QED
    BY <2>1, <2>2, AbsStutter
<1>4. CASE UNCHANGED <<pending, worker, reply, spc, sreq>>
  <2>1. AbsRunning' = AbsRunning /\ AbsAnswered' = AbsAnswered
    BY <1>4 DEF AbsRunning, AbsAnswered, HoldsSlot
  <2> QED
    BY <1>4, <2>1, AbsStutter
<1>5. ASSUME \/ UNCHANGED vars
             \/ CleanupTick \/ CleanupKeep \/ CleanupCount \/ CleanupTrigger \/ CleanupStop
             \/ Stop \/ StopDone \/ GetStatsLock \/ GetStatsRead
             \/ \E r \in Requests : \/ Generate(r) \/ SubmitCheck(r) \/ SubmitReject(r)
                  \/ SubmitTrigger(r) \/ AwaitReply(r) \/ AwaitCtx(r) \/ CtxEnd(r)
                  \/ WaitExpires(r) \/ LoopStep(r)
                  \/ \E k \in HandlerResults : HandlerReturn(r, k)
      PROVE  UNCHANGED <<pending, worker, reply, spc, sreq>>
  BY <1>5 DEF vars, queueVars, slotVars, chanVars, schedVars, otherVars, CleanupTick, CleanupKeep,
    CleanupCount, CleanupTrigger, CleanupStop, Stop, StopDone, GetStatsLock, GetStatsRead,
    Generate, SubmitCheck, SubmitReject, SubmitTrigger, AwaitReply, AwaitCtx, CtxEnd, WaitExpires,
    LoopStep, Launch, LoopCtx, HandlerReturn
<1> QED
  BY <1>1, <1>2, <1>3, <1>4, <1>5

\* The request queue, with its goroutines, locks and channels, implements the
\* bounded FIFO of LLMQueueAbs, for any number of requests and any limits.
THEOREM QueueImplements == Spec => AbsSpec
<1>1. Init => Abs!AbsInit
  <2> SUFFICES ASSUME Init PROVE Abs!AbsInit
    OBVIOUS
  <2>1. pending = <<>> /\ AbsRunning = {} /\ AbsAnswered = {}
    BY DEF Init, AbsRunning, AbsAnswered, HoldsSlot
  <2> QED
    BY <2>1 DEF Abs!AbsInit, AbsRunning, AbsAnswered
<1>2. Init => ScanOrdered
  BY DEF Init, ScanOrdered, OrderKept
<1>3. IInv /\ ScanOrdered /\ [Next]_vars => ScanOrdered'
  BY ScanOrderedStep
<1>4. IInv /\ PInv /\ ScanOrdered /\ [Next]_vars => [Abs!AbsNext]_(Abs!absVars)
  <2> SUFFICES ASSUME IInv, PInv, ScanOrdered, [Next]_vars
               PROVE  Abs!AbsNext \/ UNCHANGED Abs!absVars
    OBVIOUS
  <2>1. ASSUME NEW r \in Requests, SubmitEnqueue(r) PROVE Abs!AbsNext \/ UNCHANGED Abs!absVars
    BY <2>1, AcceptStep DEF Abs!AbsNext
  <2>2. ASSUME NEW r \in Requests, WorkerStep(r) PROVE Abs!AbsNext \/ UNCHANGED Abs!absVars
    BY <2>2, WorkerImplements DEF Abs!AbsNext
  <2>3. ASSUME SchedPop PROVE Abs!AbsNext \/ UNCHANGED Abs!absVars
    BY <2>3, PopStep DEF Abs!AbsNext
  <2>4. ASSUME CleanupAnswer PROVE Abs!AbsNext
    BY <2>4, ExpireStep DEF Abs!AbsNext
  <2>5. ASSUME CleanupCommit PROVE Abs!AbsNext
    BY <2>5, PurgeStep DEF Abs!AbsNext
  <2> QED
    BY <2>1, <2>2, <2>3, <2>4, <2>5, InnerStep DEF Next, ClientStep, Scheduler, Cleanup
<1> QED
  BY <1>1, <1>2, <1>3, <1>4, InductiveInvariant, PlacesInvariant, PTL DEF Spec, AbsSpec, Abs!AbsSpec
=============================================================================

------------------------------ MODULE LLMQueue ------------------------------
(***************************************************************************)
(* The LLM request queue of src/internal/concurrency: QueueManager          *)
(* (concurrency.go) and the calls LLMClient.Generate/StreamGenerate make    *)
(* on it (llm_client.go).                                                   *)
(*                                                                          *)
(* The goroutines: one client per request (Generate -> Submit -> wait), one *)
(* scheduler, one cleanup ticker, and per dispatched request a worker       *)
(* (processRequest), its attempt loop and the handler call of the current   *)
(* attempt; the stats endpoint calls GetStats and shutdown calls Stop.      *)
(*                                                                          *)
(* Grain of atomicity.  A critical section that takes one mutex and only    *)
(* touches what the mutex guards is one action, enabled when the mutex is   *)
(* free.  Two functions hold one mutex while they wait for the other, and   *)
(* only they can be seen holding one: GetStats holds mu and waits for       *)
(* pendingMu, cleanup holds pendingMu and waits for mu.  Two steps that     *)
(* follow each other in one goroutine are one action only where no other    *)
(* goroutine can tell: a counter, which nothing but GetStats reads, is      *)
(* raised together with the next step of its goroutine, and a channel is    *)
(* closed together with the step next to it.                                *)
(***************************************************************************)
EXTENDS Integers, Sequences, FiniteSets

CONSTANTS
  Requests,        \* the Generate calls of a run, one goroutine each
  NoRequest,       \* the scheduler holds nothing
  MaxQueueSize,    \* qm.maxQueueSize
  MaxConcurrency,  \* qm.maxConcurrency
  MaxWait,         \* TRUE iff qm.maxWaitTime > 0 (the default: 30 s)
  MaxRetries,      \* attempts of the handler per request (3 in the code)
  HandlerResults,  \* what a handler call may return, by classifyError class
  MayStop,         \* whether Stop may be called
  StatsCalls       \* bound: GetStats calls in a behaviour

ErrorTypes == {"canceled", "timeout", "network", "model", "unknown"}
Retryable  == {"timeout", "network", "model"}
Answers    == {"ok", "ctxEnded", "waitTimeout"} \cup ErrorTypes
Counters   == {"submitted", "rejected", "canceled", "timeout", "completed",
               "waitTimeout", "network", "model"}

ASSUME QueueAssumption ==
  /\ IsFiniteSet(Requests) /\ NoRequest \notin Requests
  /\ MaxQueueSize \in Nat /\ MaxConcurrency \in Nat
  /\ MaxRetries \in Nat \ {0}
  /\ MaxWait \in BOOLEAN /\ MayStop \in BOOLEAN
  /\ HandlerResults \subseteq {"ok"} \cup ErrorTypes
  /\ StatsCalls \in Nat

VARIABLES
  client,      \* client[r]: where Generate is, or what it has returned
  ctxDone,     \* requests whose context is canceled or past its deadline
  pending,     \* qm.pending
  expired,     \* the requests in it that are older than maxWaitTime
  dispatchCh,  \* tokens in dispatchCh, capacity 1
  activeCount, \* qm.activeCount
  worker,      \* worker[r]: processRequest
  loop,        \* loop[r]: its attempt loop
  tries,       \* tries[r]: attempts that loop has launched
  inFlight,    \* requests with a handler call running
  resultCh,    \* resultCh[r]: what the attempt loop hands to the worker
  reply,       \* reply[r]: everything ever sent on ResponseCh of r
  closes,      \* closes[r]: how often ResponseCh of r was closed
  spc, sreq,   \* scheduler: control state, and the request it has popped
  cpc,         \* cleanup: control state
  scanPos,     \*   index the scan is at
  newPending,  \*   the requests it keeps
  cutoff,      \*   the requests expired at its time.Now()
  closed,      \* qm.closed
  doneClosed,  \* doneCh is closed
  mu,          \* "free", or "stats" while GetStats holds it
  pendingMu,   \* "free", or "cleanup" while cleanup scans
  total,       \* the statistics counters
  statsLeft    \* GetStats calls still to come

clientVars == <<client, ctxDone>>
queueVars  == <<pending, expired>>
slotVars   == <<activeCount, worker>>
loopVars   == <<loop, tries, inFlight, resultCh>>
chanVars   == <<reply, closes>>
schedVars  == <<spc, sreq>>
scanVars   == <<cpc, scanPos, newPending, cutoff>>
ctlVars    == <<closed, doneClosed, mu, pendingMu, statsLeft>>
vars == <<clientVars, queueVars, dispatchCh, slotVars, loopVars, chanVars,
          schedVars, scanVars, ctlVars, total>>

Queued(r) == \E i \in DOMAIN pending : pending[i] = r

Init ==
  /\ client = [r \in Requests |-> "idle"] /\ ctxDone = {}
  /\ pending = <<>> /\ expired = {} /\ dispatchCh = 0
  /\ activeCount = 0 /\ worker = [r \in Requests |-> "none"]
  /\ loop = [r \in Requests |-> "none"] /\ tries = [r \in Requests |-> 0]
  /\ inFlight = {} /\ resultCh = [r \in Requests |-> "none"]
  /\ reply = [r \in Requests |-> <<>>] /\ closes = [r \in Requests |-> 0]
  /\ spc = "select" /\ sreq = NoRequest
  /\ cpc = "tick" /\ scanPos = 1 /\ newPending = <<>> /\ cutoff = {}
  /\ closed = FALSE /\ doneClosed = FALSE
  /\ mu = "free" /\ pendingMu = "free"
  /\ total = [c \in Counters |-> 0] /\ statsLeft = StatsCalls

-----------------------------------------------------------------------------
(* Steps shared by several goroutines.                                      *)

\* The counters named in C go up by one.
Count(C) == total' = [c \in Counters |-> IF c \in C THEN total[c] + 1 ELSE total[c]]

\* triggerDispatch: a non-blocking send on a channel of capacity 1.
\* (Mutant: every trigger leaves a token of its own.)
MutTriggerUncoalesced == dispatchCh' = dispatchCh + 1
TriggerDispatch == dispatchCh' = 1

\* A send on ResponseCh.  AnsweredOnce shows that the buffer of one is never
\* full and the channel never closed, so the send neither blocks nor panics.
Send(r, answer) == reply' = [reply EXCEPT ![r] = Append(@, answer)]
CloseCh(r)      == closes' = [closes EXCEPT ![r] = @ + 1]

-----------------------------------------------------------------------------
(* The client goroutine of r: Generate, Submit, and the wait for an answer. *)

Goto(r, pc) == client' = [client EXCEPT ![r] = pc] /\ UNCHANGED ctxDone

\* Generate returns: its deferred cancel() ends the request's context.
Return(r, result) ==
  /\ client' = [client EXCEPT ![r] = result]
  /\ ctxDone' = ctxDone \cup {r}

Generate(r) ==
  /\ client[r] = "idle"
  /\ Goto(r, "check")
  /\ UNCHANGED <<queueVars, dispatchCh, slotVars, loopVars, chanVars, schedVars,
                 scanVars, ctlVars, total>>

SubmitCheck(r) ==
  /\ client[r] = "check" /\ mu = "free"
  /\ IF closed THEN Return(r, "queueClosed") ELSE Goto(r, "enqueue")
  /\ UNCHANGED <<queueVars, dispatchCh, slotVars, loopVars, chanVars, schedVars,
                 scanVars, ctlVars, total>>

\* (Mutant: the newest request goes to the front.)
MutEnqueueFront(r) == pending' = <<r>> \o pending
Enqueue(r) == pending' = Append(pending, r)

SubmitEnqueue(r) ==
  /\ client[r] = "enqueue" /\ pendingMu = "free"
  /\ IF Len(pending) >= MaxQueueSize
       THEN Goto(r, "reject") /\ UNCHANGED pending
       ELSE Goto(r, "submitted") /\ Enqueue(r)
  /\ UNCHANGED <<expired, dispatchCh, slotVars, loopVars, chanVars, schedVars,
                 scanVars, ctlVars, total>>

SubmitReject(r) ==
  /\ client[r] = "reject" /\ mu = "free"
  /\ Count({"rejected"})
  /\ Return(r, "queueFull")
  /\ UNCHANGED <<queueVars, dispatchCh, slotVars, loopVars, chanVars, schedVars,
                 scanVars, ctlVars>>

SubmitTrigger(r) ==
  /\ client[r] = "submitted" /\ mu = "free"
  /\ Count({"submitted"})
  /\ TriggerDispatch
  /\ Goto(r, "wait")
  /\ UNCHANGED <<queueVars, slotVars, loopVars, chanVars, schedVars, scanVars, ctlVars>>

\* The receive on ResponseCh: the answer sent, or the zero Response (an empty
\* text and a nil error) if the channel was closed without one.
AwaitReply(r) ==
  /\ client[r] = "wait"
  /\ reply[r] # <<>> \/ closes[r] > 0
  /\ Return(r, IF reply[r] # <<>> THEN reply[r][1] ELSE "zeroResponse")
  /\ UNCHANGED <<queueVars, dispatchCh, slotVars, loopVars, chanVars, schedVars,
                 scanVars, ctlVars, total>>

\* (Mutant: the select has no ctx.Done branch.)
MutAwaitReplyOnly(r) == FALSE /\ UNCHANGED vars
AwaitCtx(r) ==
  /\ client[r] = "wait" /\ r \in ctxDone
  /\ Return(r, "ctxErr")
  /\ UNCHANGED <<queueVars, dispatchCh, slotVars, loopVars, chanVars, schedVars,
                 scanVars, ctlVars, total>>

\* The caller cancels, or the deadline Generate put on the context passes.  No
\* code looks at the context before the request is queued, so an earlier end is
\* the same as one right after that.
CtxEnd(r) ==
  /\ client[r] \in {"submitted", "wait"} /\ r \notin ctxDone
  /\ ctxDone' = ctxDone \cup {r}
  /\ UNCHANGED <<client, queueVars, dispatchCh, slotVars, loopVars, chanVars,
                 schedVars, scanVars, ctlVars, total>>

\* time.Since(req.CreatedAt) passes maxWaitTime while r is queued.
WaitExpires(r) ==
  /\ MaxWait /\ Queued(r) /\ r \notin expired
  /\ expired' = expired \cup {r}
  /\ UNCHANGED <<clientVars, pending, dispatchCh, slotVars, loopVars, chanVars,
                 schedVars, scanVars, ctlVars, total>>

-----------------------------------------------------------------------------
(* The scheduler goroutine: scheduler and tryDispatch.                      *)

SchedWake ==
  /\ spc = "select" /\ dispatchCh = 1
  /\ dispatchCh' = 0
  /\ spc' = "slots"
  /\ UNCHANGED <<clientVars, queueVars, slotVars, loopVars, chanVars, sreq,
                 scanVars, ctlVars, total>>

SchedStop ==
  /\ spc = "select" /\ doneClosed
  /\ spc' = "stopped"
  /\ UNCHANGED <<clientVars, queueVars, dispatchCh, slotVars, loopVars, chanVars,
                 sreq, scanVars, ctlVars, total>>

\* (Mutant: one request too many.)
MutSlotsFullOffByOne == activeCount > MaxConcurrency
SlotsFull == activeCount >= MaxConcurrency

SchedSlots ==
  /\ spc = "slots" /\ mu = "free"
  /\ spc' = IF SlotsFull THEN "select" ELSE "pop"
  /\ UNCHANGED <<clientVars, queueVars, dispatchCh, slotVars, loopVars, chanVars,
                 sreq, scanVars, ctlVars, total>>

\* An empty queue ends the round; otherwise the head leaves the queue, to be
\* answered at once if it waited too long or was canceled, and started if not.
SchedPop ==
  /\ spc = "pop" /\ pendingMu = "free"
  /\ IF pending = <<>>
       THEN spc' = "select" /\ UNCHANGED <<pending, sreq>>
       ELSE /\ pending' = Tail(pending)
            /\ sreq' = Head(pending)
            /\ spc' = IF Head(pending) \in expired THEN "dropTimeout"
                      ELSE IF Head(pending) \in ctxDone THEN "dropCanceled"
                      ELSE "start"
  /\ expired' = expired \ {sreq'}
  /\ UNCHANGED <<clientVars, dispatchCh, slotVars, loopVars, chanVars, scanVars,
                 ctlVars, total>>

SchedDrop ==
  /\ \/ spc = "dropTimeout" /\ Send(sreq, "waitTimeout") /\ spc' = "countTimeout"
     \/ spc = "dropCanceled" /\ Send(sreq, "ctxEnded") /\ spc' = "countCanceled"
  /\ CloseCh(sreq)
  /\ UNCHANGED <<clientVars, queueVars, dispatchCh, slotVars, loopVars, sreq,
                 scanVars, ctlVars, total>>

SchedCount ==
  /\ mu = "free"
  /\ \/ spc = "countTimeout" /\ Count({"waitTimeout"})
     \/ spc = "countCanceled" /\ Count({"canceled"})
  /\ spc' = "slots" /\ sreq' = NoRequest
  /\ UNCHANGED <<clientVars, queueVars, dispatchCh, slotVars, loopVars, chanVars,
                 scanVars, ctlVars>>

SchedStart ==
  /\ spc = "start" /\ mu = "free"
  /\ activeCount' = activeCount + 1
  /\ worker' = [worker EXCEPT ![sreq] = "select"]
  /\ loop' = [loop EXCEPT ![sreq] = "launch"]
  /\ spc' = "slots" /\ sreq' = NoRequest
  /\ UNCHANGED <<clientVars, queueVars, dispatchCh, tries, inFlight, resultCh,
                 chanVars, scanVars, ctlVars, total>>

-----------------------------------------------------------------------------
(* The worker of r (processRequest), the attempt loop it starts and the     *)
(* handler calls that loop makes.                                           *)

\* (Mutant: the worker leaves without an answer; the deferred close remains.)
MutSendNothing(r) == UNCHANGED reply
SendCanceled(r) == Send(r, "ctxEnded")

WorkerCtx(r) ==
  /\ worker[r] = "select" /\ r \in ctxDone
  /\ SendCanceled(r)
  /\ worker' = [worker EXCEPT ![r] = "canceled"]
  /\ UNCHANGED <<clientVars, queueVars, dispatchCh, activeCount, loopVars, closes,
                 schedVars, scanVars, ctlVars, total>>

WorkerResult(r) ==
  /\ worker[r] = "select" /\ resultCh[r] # "none"
  /\ Send(r, resultCh[r])
  /\ resultCh' = [resultCh EXCEPT ![r] = "none"]
  /\ worker' = [worker EXCEPT ![r] = "answered"]
  /\ UNCHANGED <<clientVars, queueVars, dispatchCh, activeCount, loop, tries,
                 inFlight, closes, schedVars, scanVars, ctlVars, total>>

\* The counters a worker raises on the context branch and on the result branch.
\* (Mutant: a canceled request is not counted as completed.)
MutCancelCounters == {"canceled"}
CancelCounters == {"canceled", "completed"}
ResultCounters(answer) == {"completed"} \cup ({answer} \cap (ErrorTypes \ {"unknown"}))

\* The counters, then the deferred release of the slot.  On the result branch
\* only a typed error has a counter of its own: the plain "request canceled"
\* the attempt loop may report has none.
WorkerRelease(r) ==
  /\ mu = "free"
  /\ \/ worker[r] = "canceled" /\ Count(CancelCounters)
     \/ worker[r] = "answered" /\ Count(ResultCounters(reply[r][1]))
  /\ activeCount' = activeCount - 1
  /\ worker' = [worker EXCEPT ![r] = "exit"]
  /\ UNCHANGED <<clientVars, queueVars, dispatchCh, loopVars, chanVars, schedVars,
                 scanVars, ctlVars>>

\* The channel is closed and the scheduler woken.
\* (Mutant: it is not woken.)
MutExitSilent(r) ==
  /\ worker[r] = "exit"
  /\ CloseCh(r)
  /\ worker' = [worker EXCEPT ![r] = "done"]
  /\ UNCHANGED <<clientVars, queueVars, dispatchCh, activeCount, loopVars, reply,
                 schedVars, scanVars, ctlVars, total>>
WorkerExit(r) ==
  /\ worker[r] = "exit"
  /\ CloseCh(r)
  /\ TriggerDispatch
  /\ worker' = [worker EXCEPT ![r] = "done"]
  /\ UNCHANGED <<clientVars, queueVars, activeCount, loopVars, reply, schedVars,
                 scanVars, ctlVars, total>>

\* An attempt starts its handler goroutine.
Launch(r) ==
  /\ loop[r] = "launch"
  /\ loop' = [loop EXCEPT ![r] = "wait"]
  /\ tries' = [tries EXCEPT ![r] = @ + 1]
  /\ inFlight' = inFlight \cup {r}
  /\ UNCHANGED <<clientVars, queueVars, dispatchCh, slotVars, resultCh, chanVars,
                 schedVars, scanVars, ctlVars, total>>

\* The attempt loop ends: its locals are gone, and what it puts on resultCh is
\* read by the worker or, if that has left on the context, by nobody.
Finish(r, answer) ==
  /\ loop' = [loop EXCEPT ![r] = "done"]
  /\ tries' = [tries EXCEPT ![r] = 0]
  /\ resultCh' = [resultCh EXCEPT ![r] = IF worker[r] = "select" THEN answer ELSE "none"]

\* The attempt loop ends on the context; the handler is left running.
LoopCtx(r) ==
  /\ loop[r] = "wait" /\ r \in ctxDone
  /\ Finish(r, "ctxEnded")
  /\ UNCHANGED <<clientVars, queueVars, dispatchCh, slotVars, inFlight, chanVars,
                 schedVars, scanVars, ctlVars, total>>

TriesAgain(r, k) == k \in Retryable /\ tries[r] < MaxRetries

\* The handler (the model call, outside this code) returns k.  A waiting attempt
\* loop tries a retryable error again while attempts are left, after a sleep
\* that does not look at the context.
HandlerReturn(r, k) ==
  /\ r \in inFlight
  /\ k = "canceled" => r \in ctxDone
  /\ inFlight' = inFlight \ {r}
  /\ \/ loop[r] = "wait" /\ TriesAgain(r, k)
        /\ loop' = [loop EXCEPT ![r] = "launch"] /\ UNCHANGED <<tries, resultCh>>
     \/ loop[r] = "wait" /\ ~TriesAgain(r, k) /\ Finish(r, k)
     \/ loop[r] # "wait" /\ UNCHANGED <<loop, tries, resultCh>>
  /\ UNCHANGED <<clientVars, queueVars, dispatchCh, slotVars, chanVars, schedVars,
                 scanVars, ctlVars, total>>

-----------------------------------------------------------------------------
(* The cleanup goroutine.  A tick that finds nothing expired changes nothing *)
(* and is left out.                                                          *)

\* (Mutant: the mutex is not held through the scan.)
MutScanUnlocked == UNCHANGED pendingMu
LockForScan == pendingMu' = "cleanup"

CleanupTick ==
  /\ cpc = "tick" /\ pendingMu = "free"
  /\ \E r \in expired : Queued(r)
  /\ LockForScan
  /\ cpc' = "scan" /\ scanPos' = 1 /\ newPending' = <<>> /\ cutoff' = expired
  /\ UNCHANGED <<clientVars, queueVars, dispatchCh, slotVars, loopVars, chanVars,
                 schedVars, closed, doneClosed, mu, statsLeft, total>>

\* (Mutant: a request that has not expired is dropped from the queue.)
MutKeepNothing(r) == UNCHANGED newPending
Keep(r) == newPending' = Append(newPending, r)

CleanupKeep ==
  /\ cpc = "scan" /\ scanPos <= Len(pending)
  /\ pending[scanPos] \notin cutoff
  /\ Keep(pending[scanPos])
  /\ scanPos' = scanPos + 1
  /\ UNCHANGED <<clientVars, queueVars, dispatchCh, slotVars, loopVars, chanVars,
                 schedVars, cpc, cutoff, ctlVars, total>>

CleanupAnswer ==
  /\ cpc = "scan" /\ scanPos <= Len(pending)
  /\ pending[scanPos] \in cutoff
  /\ Send(pending[scanPos], "waitTimeout")
  /\ CloseCh(pending[scanPos])
  /\ cpc' = "count"
  /\ UNCHANGED <<clientVars, queueVars, dispatchCh, slotVars, loopVars, schedVars,
                 scanPos, newPending, cutoff, ctlVars, total>>

\* mu is taken while pendingMu is held.
CleanupCount ==
  /\ cpc = "count" /\ mu = "free"
  /\ Count({"waitTimeout"})
  /\ cpc' = "scan" /\ scanPos' = scanPos + 1
  /\ UNCHANGED <<clientVars, queueVars, dispatchCh, slotVars, loopVars, chanVars,
                 schedVars, newPending, cutoff, ctlVars>>

CleanupCommit ==
  /\ cpc = "scan" /\ scanPos > Len(pending)
  /\ pending' = newPending
  /\ expired' = expired \ cutoff
  /\ pendingMu' = "free"
  /\ cpc' = "trigger" /\ scanPos' = 1 /\ newPending' = <<>> /\ cutoff' = {}
  /\ UNCHANGED <<clientVars, dispatchCh, slotVars, loopVars, chanVars, schedVars,
                 closed, doneClosed, mu, statsLeft, total>>

CleanupTrigger ==
  /\ cpc = "trigger"
  /\ TriggerDispatch
  /\ cpc' = "tick"
  /\ UNCHANGED <<clientVars, queueVars, slotVars, loopVars, chanVars, schedVars,
                 scanPos, newPending, cutoff, ctlVars, total>>

CleanupStop ==
  /\ cpc = "tick" /\ doneClosed
  /\ cpc' = "stopped"
  /\ UNCHANGED <<clientVars, queueVars, dispatchCh, slotVars, loopVars, chanVars,
                 schedVars, scanPos, newPending, cutoff, ctlVars, total>>

-----------------------------------------------------------------------------
(* Stop and GetStats.                                                       *)

otherVars == <<clientVars, queueVars, dispatchCh, slotVars, loopVars, chanVars,
               schedVars, scanVars, total, pendingMu>>

Stop ==
  /\ MayStop /\ ~closed /\ mu = "free"
  /\ closed' = TRUE
  /\ UNCHANGED <<otherVars, doneClosed, mu, statsLeft>>

StopDone ==
  /\ closed /\ ~doneClosed
  /\ doneClosed' = TRUE
  /\ UNCHANGED <<otherVars, closed, mu, statsLeft>>

GetStatsLock ==
  /\ statsLeft > 0 /\ mu = "free"
  /\ mu' = "stats"
  /\ statsLeft' = statsLeft - 1
  /\ UNCHANGED <<otherVars, closed, doneClosed>>

\* pendingMu is taken, the snapshot read, and both mutexes are released.
GetStatsRead ==
  /\ mu = "stats" /\ pendingMu = "free"
  /\ mu' = "free"
  /\ UNCHANGED <<otherVars, closed, doneClosed, statsLeft>>

-----------------------------------------------------------------------------
ClientStep(r) ==
  \/ SubmitCheck(r) \/ SubmitEnqueue(r) \/ SubmitReject(r) \/ SubmitTrigger(r)
  \/ AwaitReply(r) \/ AwaitCtx(r)
Scheduler ==
  SchedWake \/ SchedStop \/ SchedSlots \/ SchedPop \/ SchedDrop \/ SchedCount
  \/ SchedStart
WorkerStep(r) == WorkerCtx(r) \/ WorkerResult(r) \/ WorkerRelease(r) \/ WorkerExit(r)
LoopStep(r) == Launch(r) \/ LoopCtx(r)
Cleanup ==
  CleanupTick \/ CleanupKeep \/ CleanupAnswer \/ CleanupCount \/ CleanupCommit
  \/ CleanupTrigger \/ CleanupStop

Next ==
  \/ \E r \in Requests :
       \/ Generate(r) \/ ClientStep(r) \/ CtxEnd(r) \/ WaitExpires(r)
       \/ WorkerStep(r) \/ LoopStep(r)
       \/ \E k \in HandlerResults : HandlerReturn(r, k)
  \/ Scheduler \/ Cleanup
  \/ Stop \/ StopDone \/ GetStatsLock \/ GetStatsRead

Spec == Init /\ [][Next]_vars

\* Every goroutine of the code runs on, every context has a deadline
\* (Generate's context.WithTimeout) and time passes.  Nothing obliges anyone to
\* call Generate, Stop or GetStats, nor a model call to return.
Fairness ==
  /\ \A r \in Requests : /\ WF_vars(ClientStep(r)) /\ WF_vars(CtxEnd(r))
                         /\ WF_vars(WaitExpires(r))
                         /\ WF_vars(WorkerStep(r)) /\ WF_vars(LoopStep(r))
  /\ WF_vars(Scheduler) /\ WF_vars(Cleanup)
  /\ WF_vars(StopDone) /\ WF_vars(GetStatsRead)

FairSpec == Spec /\ Fairness

-----------------------------------------------------------------------------
(* Properties.                                                              *)

\* Where a Generate call can be before it returns, and what it can return.
Running == {"check", "enqueue", "reject", "submitted", "wait"}
Refused == {"queueClosed", "queueFull"}

\* The variables have their types; dispatchCh never holds two tokens, and the
\* scheduler holds a request exactly between popping it and being done with it.
ClientType ==
  /\ client \in [Requests -> {"idle", "ctxErr", "zeroResponse"} \cup Running
                               \cup Refused \cup Answers]
  /\ ctxDone \subseteq Requests
QueueType == pending \in Seq(Requests) /\ expired \subseteq Requests
SlotType ==
  /\ activeCount \in Int
  /\ worker \in [Requests -> {"none", "select", "canceled", "answered", "exit", "done"}]
LoopType ==
  /\ loop \in [Requests -> {"none", "launch", "wait", "done"}]
  /\ tries \in [Requests -> Nat] /\ inFlight \subseteq Requests
  /\ resultCh \in [Requests -> Answers \cup {"none"}]
ChanType ==
  reply \in [Requests -> Seq(Answers)] /\ closes \in [Requests -> Nat]
SchedType ==
  /\ spc \in {"select", "slots", "pop", "start", "dropTimeout", "dropCanceled",
              "countTimeout", "countCanceled", "stopped"}
  /\ sreq \in Requests \cup {NoRequest}
  /\ spc \in {"select", "slots", "pop", "stopped"} <=> sreq = NoRequest
ScanType ==
  /\ cpc \in {"tick", "scan", "count", "trigger", "stopped"}
  /\ scanPos \in Nat \ {0} /\ newPending \in Seq(Requests) /\ cutoff \subseteq Requests
CtlType ==
  /\ closed \in BOOLEAN /\ doneClosed \in BOOLEAN
  /\ mu \in {"free", "stats"} /\ pendingMu \in {"free", "cleanup"}
  /\ statsLeft \in Nat
TypeOK ==
  /\ ClientType /\ QueueType /\ SlotType /\ LoopType /\ ChanType
  /\ SchedType /\ ScanType /\ CtlType
  /\ dispatchCh \in {0, 1} /\ total \in [Counters -> Nat]

\* activeCount is the number of workers that hold a slot, and neither it nor
\* the queue passes its limit, although the scheduler tests activeCount in one
\* critical section and raises it in a later one (tryDispatch).
HoldsSlot(r) == worker[r] \in {"select", "canceled", "answered"}
SlotAccounting ==
  /\ activeCount = Cardinality({r \in Requests : HoldsSlot(r)})
  /\ activeCount <= MaxConcurrency
  /\ Len(pending) <= MaxQueueSize

\* Scheduler and cleanup both take requests out of the queue and answer them,
\* and a worker answers too: no ResponseCh gets a second send (it would block)
\* or a second close (it would panic), and none is closed before the send.
AnsweredOnce ==
  \A r \in Requests : Len(reply[r]) <= 1 /\ closes[r] <= Len(reply[r])

\* A request Submit accepted that has no answer yet is in exactly one place:
\* once in the queue, in the scheduler's hands, or with its worker.
Accepted(r) == client[r] \notin {"idle", "check", "enqueue", "reject"} \cup Refused
InHand(r) == sreq = r /\ spc \in {"start", "dropTimeout", "dropCanceled"}
One(b) == IF b THEN 1 ELSE 0
Places(r) ==
  Cardinality({i \in DOMAIN pending : pending[i] = r}) + One(InHand(r))
    + One(worker[r] = "select")
OnePlace == \A r \in Requests : Accepted(r) /\ reply[r] = <<>> => Places(r) = 1

\* The scheduler never sleeps on work: while it waits in its select with a
\* request queued and a slot free, a token is in dispatchCh or a goroutine is
\* on its way to put one there.
NoLostWakeup ==
  spc = "select" /\ pending # <<>> /\ activeCount < MaxConcurrency =>
    \/ dispatchCh = 1
    \/ \E r \in Requests : client[r] = "submitted" \/ worker[r] = "exit"
    \/ cpc = "trigger"

\* Every answer is counted once: what the counters say and what is between an
\* answer and its counter add up to the answers given.
Answered(S) == Cardinality({r \in Requests : reply[r] # <<>> /\ reply[r][1] \in S})
AnswersCounted ==
  /\ Answered({"waitTimeout"})
       = total["waitTimeout"] + One(spc = "countTimeout") + One(cpc = "count")
  /\ Cardinality({r \in Requests : worker[r] \in {"exit", "done"}}) = total["completed"]
  /\ total["submitted"] + Cardinality({r \in Requests : client[r] = "submitted"})
       = Cardinality({r \in Requests : Accepted(r)})

\* No Generate call takes the zero Response of a closed channel, an empty text
\* without an error, for an answer of the model.
NoSilentEmptyAnswer == \A r \in Requests : client[r] # "zeroResponse"

\* The refinement: a request popped to be started already counts as running,
\* one popped to be dropped as answered.
Abs == INSTANCE LLMQueueAbs WITH
  queue    <- pending,
  running  <- {r \in Requests : HoldsSlot(r) \/ (spc = "start" /\ sreq = r)},
  answered <- {r \in Requests : \/ reply[r] # <<>>
                                \/ spc \in {"dropTimeout", "dropCanceled"} /\ sreq = r}

\* The queue implements the bounded FIFO of LLMQueueAbs.
AbsSpec == Abs!AbsSpec

\* Every Generate call returns, also when Stop leaves its request in the queue
\* for good and when a model call hangs.
GenerateReturns ==
  \A r \in Requests : client[r] \in Running ~> client[r] \notin Running

\* As long as Stop is not called, every request that enters the queue is
\* answered and its channel closed: no wakeup is lost, no slot leaks.
AcceptedAnswered ==
  \A r \in Requests : Queued(r) ~> (reply[r] # <<>> /\ closes[r] = 1) \/ closed

\* concurrency.go:415, of cleanup: it scans pending periodically and removes
\* the requests that have timed out.
ExpiredRemoved ==
  \A r \in Requests : Queued(r) /\ r \in expired ~> ~Queued(r) \/ closed
=============================================================================

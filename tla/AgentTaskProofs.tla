-------------------------- MODULE AgentTaskProofs --------------------------
(***************************************************************************)
(* Three safety properties of agent turns, for any limits of retries,       *)
(* rounds and steps, any classifier, any wiring and any tools.              *)
(*                                                                         *)
(* AnswersEarned: Inv follows what an answer rests on.  The traces of the   *)
(* execution at hand are its own, an execution that fails leaves an error   *)
(* and another try only while tries are left, and the status of an endpoint *)
(* is given when the turn has its outcome.                                  *)
(*                                                                         *)
(* ThoughtsAccounted: HistoryInv relates ReAct's two lists, the thoughts    *)
(* the model is shown and the calls the caller is, at every step between.   *)
(*                                                                         *)
(* TracesComplete: TraceInv says what the place of an execution has left in *)
(* the TaskState, and that what a peer's goroutine read of it under the     *)
(* mutex is still what it is when the goroutine writes.                     *)
(***************************************************************************)
EXTENDS AgentTask, TLAPS, SequenceTheorems

-----------------------------------------------------------------------------
(* Task states.                                                            *)

TaskFields == {"status", "traces", "step", "errors", "retry"}

\* The traces of a task state are of try n.
OfTry(traces, n) == \E S : traces \in Seq(S) /\ \A trace \in S : trace.try = n

TaskOK(t, n) == DOMAIN t = TaskFields /\ t.errors \in Nat /\ OfTry(t.traces, n)

LEMMA OfTryElements ==
  ASSUME NEW traces, NEW n, OfTry(traces, n)
  PROVE  \A i \in DOMAIN traces : traces[i].try = n
  BY DEF OfTry

LEMMA NewTaskOK == ASSUME NEW r, NEW n PROVE TaskOK(NewTaskState(r), n)
<1>1. PICK S : S = {}
  OBVIOUS
<1>2. << >> \in Seq(S) /\ \A trace \in S : trace.try = n
  BY <1>1
<1>3. OfTry(<< >>, n)
  BY <1>2 DEF OfTry
<1>4. QED
  BY <1>3 DEF TaskOK, NewTaskState, TaskFields

LEMMA AddErrorsOK ==
  ASSUME NEW t, NEW n, NEW k \in Nat, TaskOK(t, n)
  PROVE  TaskOK(AddErrors(t, k), n) /\ AddErrors(t, k).errors = t.errors + k
  BY DEF TaskOK, AddErrors, TaskFields

LEMMA StatusOK ==
  ASSUME NEW t, NEW n, NEW status, TaskOK(t, n)
  PROVE  /\ TaskOK([t EXCEPT !.status = status], n)
         /\ [t EXCEPT !.status = status].status = status
         /\ [t EXCEPT !.status = status].errors = t.errors
  BY DEF TaskOK, TaskFields

LEMMA AddStepTraceOK ==
  ASSUME NEW t, NEW id, NEW agent, NEW status, TaskOK(t, attempt)
  PROVE  TaskOK(AddStepTrace(t, id, agent, status), attempt)
<1> DEFINE trace == [id |-> id, agent |-> agent, status |-> status, try |-> attempt]
           traces == Append(t.traces, trace)
           u == [t EXCEPT !.traces = traces, !.step = Len(traces)]
<1>1. PICK S : t.traces \in Seq(S) /\ \A x \in S : x.try = attempt
  BY DEF TaskOK, OfTry
<1>2. PICK T : T = S \cup {trace}
  OBVIOUS
<1>3. t.traces \in Seq(T) /\ trace \in T
  BY <1>1, <1>2
<1>4. traces \in Seq(T)
  BY <1>3
<1>5. \A x \in T : x.try = attempt
  BY <1>1, <1>2
<1>6. OfTry(traces, attempt)
  BY <1>4, <1>5 DEF OfTry
<1>7. DOMAIN u = DOMAIN t /\ u.traces = traces /\ u.errors = t.errors
  BY DEF TaskOK, TaskFields
<1>8. TaskOK(u, attempt)
  BY <1>6, <1>7 DEF TaskOK
<1>9. QED
  BY <1>8 DEF AddStepTrace

LEMMA RecordSubtaskOK ==
  ASSUME NEW t, NEW agent, NEW status, TaskOK(t, attempt)
  PROVE  TaskOK(RecordSubtask(t, agent, status), attempt)
  BY AddStepTraceOK DEF RecordSubtask

-----------------------------------------------------------------------------
(* The invariant.                                                          *)

Executing == {"attempt", "create", "run"}

\* What the goroutines of the peer coordinator have read is of this try.
PeersOK ==
  /\ DOMAIN peers = DOMAIN Profiles
  /\ \A i \in DOMAIN Profiles : /\ DOMAIN peers[i] = {"at", "sees"}
                                /\ pc \in {"create", "run"} /\ peers[i].at = "append"
                                     => TaskOK(peers[i].sees, attempt)

TriesLeft == /\ attempt \in 0..MaxRetries
             /\ pc = "attempt" => attempt < MaxRetries

\* A coordinator's outcome.
Outcome ==
  IF answered
    THEN /\ task.status = "completed"
         /\ \A i \in DOMAIN task.traces : task.traces[i].try = attempt
    ELSE \/ type \notin Coordinators
         \/ attempt = MaxRetries /\ task.status = "failed" /\ task.errors > 0

\* The thoughts that end ReAct.
Concluded == thoughts[Len(thoughts)].seen = "answer"
ThoughtsOK ==
  /\ \E S : thoughts \in Seq(S)
  /\ react.at = "act" => thoughts # << >>
  /\ react.at = "final" => Concluded
  /\ react.at = "exhausted" => Len(thoughts) = MaxSteps

HttpOK == /\ pc \in Executing \cup {"react", "reply"} => http = 0
          /\ entry = "analyze" /\ http = 200 => answered

Inv ==
  /\ TriesLeft
  /\ PeersOK
  /\ pc \in {"create", "run"} => TaskOK(task, attempt)
  /\ pc \in Executing => react.at = "off"
  /\ pc = "reply" => IF ReActEnded THEN answered /\ react.at # "failed" ELSE Outcome
  /\ ThoughtsOK
  /\ HttpOK

\* The variables of a ReAct execution and the status stay.
LEMMA RestStays ==
  ASSUME Inv, UNCHANGED rest
  PROVE  /\ ThoughtsOK' /\ react' = react /\ http' = http /\ ReActEnded' = ReActEnded
  BY DEF Inv, rest, reactVars, ThoughtsOK, Concluded, ReActEnded

LEMMA InitInv == Init => Inv
<1> SUFFICES ASSUME Init PROVE Inv
  OBVIOUS
<1>1. TriesLeft
  BY AgentAssumption DEF Init, TriesLeft
<1>2. PeersOK
  BY DEF Init, PeersOK, Goroutine
<1>3. << >> \in Seq({})
  OBVIOUS
<1>4. ThoughtsOK
  BY <1>3 DEF Init, ReActInit, At, ThoughtsOK
<1>5. HttpOK
  BY DEF Init, HttpOK
<1>6. QED
  BY <1>1, <1>2, <1>4, <1>5 DEF Init, Inv, Executing

-----------------------------------------------------------------------------
(* The ways an execution goes on.                                          *)

\* What every step of an execution leaves alone.
Frame == UNCHANGED << rest, entry, selected, attempt >>

LEMMA RunsOn ==
  ASSUME Inv, pc \in {"create", "run"}, pc' = "run", Frame, TaskOK(task', attempt), PeersOK'
  PROVE  Inv'
<1>1. attempt' = attempt
  BY DEF Frame
<1>2. TriesLeft' /\ TaskOK(task, attempt)'
  BY <1>1 DEF Inv, TriesLeft
<1>3. ThoughtsOK' /\ react' = react /\ http' = http
  BY RestStays DEF Frame
<1>4. HttpOK'
  BY <1>3 DEF Inv, HttpOK, Executing
<1>5. QED
  BY <1>2, <1>3, <1>4 DEF Inv, Executing

LEMMA Fails ==
  ASSUME Inv, pc \in {"create", "run"}, NEW t, TaskOK(t, attempt), Fail(t), Frame,
         UNCHANGED peers
  PROVE  Inv'
<1>1. /\ attempt' = attempt /\ selected' = selected /\ answered' = FALSE
      /\ pc' = IF attempt < MaxRetries THEN "attempt" ELSE "reply"
  BY DEF Frame, Fail, ShouldRetry
<1>2. task'.status = "failed" /\ task'.errors > 0
  <2> DEFINE u == [t EXCEPT !.status = "failed"]
  <2>1. TaskOK(u, attempt) /\ u.status = "failed" /\ u.errors = t.errors
    BY StatusOK
  <2>2. AddErrors(u, 1).status = u.status
    BY <2>1 DEF AddErrors, TaskOK, TaskFields
  <2>3. AddErrors(u, 1).errors = t.errors + 1
    <3> HIDE DEF u
    <3> QED
      BY <2>1, AddErrorsOK
  <2>4. QED
    BY <2>1, <2>2, <2>3 DEF Fail, TaskOK
<1>3. TriesLeft'
  BY <1>1 DEF Inv, TriesLeft
<1>4. PeersOK'
  BY <1>1 DEF Inv, PeersOK
<1>5. ThoughtsOK' /\ react' = react /\ http' = http /\ react.at = "off"
  BY RestStays DEF Frame, Inv, Executing
<1>6. HttpOK'
  BY <1>1, <1>5 DEF Inv, HttpOK, Executing
<1>7. pc' = "reply" => Outcome'
  BY <1>1, <1>2, AgentAssumption DEF Inv, TriesLeft, Outcome
<1>8. QED
  BY <1>1, <1>3, <1>4, <1>5, <1>6, <1>7 DEF Inv, Executing, ReActEnded

LEMMA Succeeds ==
  ASSUME Inv, pc = "run", NEW t, TaskOK(t, attempt), Succeed(t), Frame, UNCHANGED peers
  PROVE  Inv'
<1>1. attempt' = attempt /\ answered' = TRUE /\ pc' = "reply"
  BY DEF Frame, Succeed
<1>2. TaskOK(task', attempt) /\ task'.status = "completed"
  BY StatusOK DEF Succeed
<1>3. \A i \in DOMAIN task'.traces : task'.traces[i].try = attempt
  BY <1>2, OfTryElements DEF TaskOK
<1>4. TriesLeft' /\ PeersOK'
  BY <1>1 DEF Inv, TriesLeft, PeersOK
<1>5. ThoughtsOK' /\ react' = react /\ http' = http /\ react.at = "off"
  BY RestStays DEF Frame, Inv, Executing
<1>6. HttpOK'
  BY <1>1, <1>5 DEF Inv, HttpOK, Executing
<1>7. Outcome'
  BY <1>1, <1>2, <1>3 DEF Outcome
<1>8. QED
  BY <1>1, <1>4, <1>5, <1>6, <1>7 DEF Inv, Executing, ReActEnded

-----------------------------------------------------------------------------
(* The steps, one by one.                                                  *)

LEMMA StartTurnInv ==
  ASSUME Inv, NEW where, StartTurn(where), pc' \in {"attempt", "react", "reply"},
         ReActOff \/ (pc' = "react" /\ ReActBegin),
         pc' = "reply" => type' \notin Coordinators
  PROVE  Inv'
<1>1. attempt' = 0 /\ answered' = FALSE /\ http' = 0 /\ peers' = peers
  BY DEF StartTurn
<1>2. TriesLeft'
  BY <1>1, AgentAssumption DEF TriesLeft
<1>3. PeersOK'
  BY <1>1 DEF Inv, PeersOK
<1>4. thoughts' = << >> /\ react'.at \in {"off", "think"}
  BY DEF ReActOff, ReActBegin, At
<1>5. << >> \in Seq({})
  OBVIOUS
<1>6. ThoughtsOK'
  BY <1>4, <1>5 DEF ThoughtsOK
<1>7. HttpOK'
  BY <1>1 DEF HttpOK
<1>8. pc' = "attempt" => react'.at = "off"
  BY DEF ReActOff, At
<1>9. QED
  BY <1>1, <1>2, <1>3, <1>4, <1>6, <1>7, <1>8 DEF Inv, Executing, Outcome, ReActEnded
LEMMA SelectInv ==
  ASSUME Inv, NEW m, NEW reply, NEW seen, Select(m, reply, seen)
  PROVE  Inv'
<1>1. StartTurn("chat")
  BY DEF Select
<1>2. CASE pc' = "react" /\ ReActBegin
  BY <1>1, <1>2, StartTurnInv
<1>3. CASE /\ pc' = IF type' \in Coordinators THEN "attempt" ELSE "reply"
           /\ ReActOff
  BY <1>1, <1>3, StartTurnInv
<1>4. QED
  BY <1>2, <1>3 DEF Select

LEMMA SubmitInv == ASSUME Inv, NEW endpoint, SubmitTask(endpoint) PROVE Inv'
  BY StartTurnInv DEF SubmitTask

LEMMA ExecuteInv == ASSUME Inv, Execute PROVE Inv'
<1>1. /\ pc = "attempt" /\ pc' = "create" /\ attempt' = attempt + 1
      /\ entry' = entry /\ answered' = answered /\ UNCHANGED rest
  BY DEF Execute, NextAttempt, scene
<1>2. TriesLeft'
  BY <1>1, AgentAssumption DEF Inv, TriesLeft
<1>3. PeersOK'
  BY DEF Execute, PeersOK, Goroutine
<1>4. TaskOK(task', attempt')
  BY NewTaskOK DEF Execute, FreshTask
<1>5. ThoughtsOK' /\ react' = react /\ http' = http /\ react.at = "off"
  BY <1>1, RestStays DEF Inv, Executing
<1>6. HttpOK'
  BY <1>1, <1>5 DEF Inv, HttpOK, Executing
<1>7. QED
  BY <1>1, <1>2, <1>3, <1>4, <1>5, <1>6 DEF Inv, Executing

LEMMA CreateInv == ASSUME Inv, Create PROVE Inv'
<1>1. pc = "create" /\ pc' = "run" /\ Frame
  BY DEF Create, Frame, scene
<1>2. TaskOK(task', attempt)
  BY <1>1, StatusOK DEF Inv, Create
<1>3. PeersOK'
  BY <1>1 DEF Inv, PeersOK, Create
<1>4. QED
  BY <1>1, <1>2, <1>3, RunsOn

LEMMA CreateFailsInv == ASSUME Inv, CreateFails PROVE Inv'
<1>1. pc = "create" /\ Frame /\ UNCHANGED peers
  BY DEF CreateFails, Frame, scene
<1>2. TaskOK(AddErrors(task, 1), attempt)
  BY <1>1, AddErrorsOK DEF Inv
<1>3. QED
  BY <1>1, <1>2, Fails DEF CreateFails

\* The context, the mutex and the coordinator on record reach no outcome.
LEMMA AsideInv ==
  ASSUME Inv, UNCHANGED << pc, rest, entry, selected, attempt, task, peers, answered >>
  PROVE  Inv'
<1>1. ThoughtsOK' /\ react' = react /\ http' = http /\ ReActEnded' = ReActEnded
  BY RestStays
<1>2. TriesLeft' /\ PeersOK' /\ HttpOK'
  BY <1>1 DEF Inv, TriesLeft, PeersOK, HttpOK
<1>3. Outcome' = Outcome
  BY DEF Outcome, type
<1>4. QED
  BY <1>1, <1>2, <1>3 DEF Inv

LEMMA EndTurnInv ==
  ASSUME Inv, EndTurn, ThoughtsOK', UNCHANGED << attempt, peers, entry, answered >>,
         http' \in {http, 200, 500}, entry = "analyze" /\ http' = 200 => answered
  PROVE  Inv'
<1>1. pc' \in {"idle", "done"}
  BY DEF EndTurn
<1>2. TriesLeft' /\ PeersOK' /\ HttpOK'
  BY <1>1 DEF Inv, TriesLeft, PeersOK, HttpOK, Executing
<1>3. QED
  BY <1>1, <1>2 DEF Inv, Executing

LEMMA ReplyInv == ASSUME Inv, Reply PROVE Inv'
<1>1. EndTurn /\ UNCHANGED << rest, attempt, peers, entry, answered >>
  BY DEF Reply, scene
<1>2. QED
  BY <1>1, RestStays, EndTurnInv DEF Inv, HttpOK

LEMMA RespondInv == ASSUME Inv, Respond PROVE Inv'
<1>1. EndTurn /\ UNCHANGED << attempt, peers, entry, answered, reactVars >>
  BY DEF Respond, scene
<1>2. ThoughtsOK'
  BY <1>1 DEF Inv, reactVars, ThoughtsOK, Concluded
<1>3. http' \in {200, 500} /\ (entry = "analyze" /\ http' = 200 => answered)
  BY DEF Respond, HandlerStatus
<1>4. QED
  BY <1>1, <1>2, <1>3, EndTurnInv
-----------------------------------------------------------------------------
(* ReAct.                                                                  *)

LEMMA AppendThought ==
  ASSUME ThoughtsOK, NEW thought, thoughts' = Append(thoughts, thought)
  PROVE  /\ \E S : thoughts' \in Seq(S)
         /\ thoughts'[Len(thoughts')] = thought
         /\ thoughts' # << >>
<1>1. PICK S : thoughts \in Seq(S)
  BY DEF ThoughtsOK
<1>2. PICK T : T = S \cup {thought}
  OBVIOUS
<1>3. thoughts \in Seq(T) /\ thought \in T
  BY <1>1, <1>2
<1>4. /\ thoughts' \in Seq(T) /\ thoughts'[Len(thoughts')] = thought
      /\ thoughts' # << >>
  BY <1>3
<1>5. QED
  BY <1>4

LEMMA ObserveThoughts ==
  ASSUME ThoughtsOK, NEW seen, Observe(seen), react.at = "act"
  PROVE  ThoughtsOK'
<1>1. PICK S : thoughts \in Seq(S)
  BY DEF ThoughtsOK
<1>2. PICK thought : thoughts' = [thoughts EXCEPT ![Len(thoughts)] = thought]
  BY DEF Observe
<1>3. PICK T : T = S \cup {thought}
  OBVIOUS
<1>4. thoughts \in Seq(T) /\ thought \in T
  BY <1>1, <1>3
<1>5. Len(thoughts) \in 1 .. Len(thoughts)
  BY <1>1 DEF ThoughtsOK
<1>6. thoughts' \in Seq(T) /\ Len(thoughts') = Len(thoughts)
  BY <1>2, <1>4, <1>5, ExceptSeq
<1>7. react' = NextStep(thoughts)
  BY DEF Observe
<1>8. react'.at \in {"exhausted", "think"} /\ (react'.at = "exhausted" => Len(thoughts') = MaxSteps)
  BY <1>6, <1>7 DEF NextStep, At
<1>9. QED
  BY <1>6, <1>8 DEF ThoughtsOK

LEMMA ReActStepThoughts == ASSUME ThoughtsOK, ReActStep PROVE ThoughtsOK'
<1>1. ASSUME NEW response \in Responses, LLMAnswers(response) PROVE ThoughtsOK'
  <2>1. PICK p : p = Parsed(response)
    OBVIOUS
  <2>2. PICK seen \in {"answer", "nothing", "error"} :
          /\ thoughts' = Append(thoughts, Thought(p, seen))
          /\ \/ seen = "answer" /\ react' = At("final", 0)
             \/ react' = At("act", 1)
             \/ react' = NextStep(thoughts')
    BY <1>1, <2>1 DEF LLMAnswers
  <2>3. /\ \E S : thoughts' \in Seq(S)
        /\ thoughts'[Len(thoughts')] = Thought(p, seen)
        /\ thoughts' # << >>
    BY <2>2, AppendThought
  <2>4. thoughts'[Len(thoughts')].seen = seen
    BY <2>3 DEF Thought
  <2>5. react'.at = "final" => seen = "answer"
    BY <2>2 DEF At, NextStep
  <2>6. react'.at = "exhausted" => Len(thoughts') = MaxSteps
    BY <2>2 DEF At, NextStep
  <2>7. QED
    BY <2>3, <2>4, <2>5, <2>6 DEF ThoughtsOK, Concluded
<1>2. CASE LLMFails
  BY <1>2 DEF LLMFails, At, ThoughtsOK
<1>3. CASE ToolReturns
  BY <1>3, ObserveThoughts DEF ToolReturns
<1>4. CASE ToolFails
  <2>1. CASE react' = At("act", react.try + 1) /\ UNCHANGED << thoughts, calls >>
    BY <1>4, <2>1 DEF At, ThoughtsOK, ToolFails
  <2>2. QED
    BY <1>4, <2>1, ObserveThoughts DEF ToolFails
<1>5. QED
  BY <1>1, <1>2, <1>3, <1>4 DEF ReActStep

LEMMA ReActInv == ASSUME Inv, ReAct PROVE Inv'
<1>1. pc = "react" /\ UNCHANGED << entry, attempt, peers, http >>
  BY DEF ReAct, scene
<1>2. CASE ReActStep /\ UNCHANGED << pc, answered >>
  <2>1. ThoughtsOK'
    BY <1>2, ReActStepThoughts DEF Inv
  <2>2. TriesLeft' /\ PeersOK' /\ HttpOK'
    BY <1>1, <1>2 DEF Inv, TriesLeft, PeersOK, HttpOK
  <2>3. QED
    BY <1>1, <1>2, <2>1, <2>2 DEF Inv, Executing
<1>3. CASE /\ ReActEnded
           /\ answered' = (react.at # "failed")
           /\ IF react.at = "failed" THEN EndTurn ELSE pc' = "reply"
           /\ UNCHANGED reactVars
  <2>1. ThoughtsOK' /\ react' = react
    BY <1>3 DEF Inv, reactVars, ThoughtsOK, Concluded
  <2>2. pc' \in {"idle", "done", "reply"} /\ (pc' = "reply" => react.at # "failed")
    BY <1>3 DEF EndTurn
  <2>3. TriesLeft' /\ PeersOK'
    BY <1>1, <2>2 DEF Inv, TriesLeft, PeersOK
  <2>4. http = 0 /\ HttpOK'
    BY <1>1, <2>2 DEF Inv, HttpOK
  <2>5. pc' = "reply" => answered'
    BY <1>3, <2>2
  <2>6. ReActEnded'
    BY <1>3, <2>1 DEF ReActEnded
  <2>7. QED
    BY <2>1, <2>2, <2>3, <2>4, <2>5, <2>6 DEF Inv, Executing
<1>4. QED
  BY <1>2, <1>3 DEF ReAct

-----------------------------------------------------------------------------
(* The coordinators.                                                       *)

LEMMA RunFrame == ASSUME RunUnchanged PROVE Frame
  BY DEF RunUnchanged, Frame, scene

LEMMA TracedOK ==
  ASSUME NEW agent, NEW status, TaskOK(task, attempt)
  PROVE  TaskOK(Traced(task, agent, status), attempt)
  BY RecordSubtaskOK DEF Traced

LEMMA SamePeers ==
  ASSUME Inv, pc = "run", UNCHANGED << peers, attempt >>
  PROVE  PeersOK'
  BY DEF Inv, PeersOK

LEMMA ErrorsAreNumbers ==
  ASSUME NEW kind \in DOMAIN Framework
  PROVE  Framework[kind].errors \in Nat
  BY DEF Framework, Supervisor, Pipeline, Plan, Deep

LEMMA FrameworkInv ==
  ASSUME Inv, NEW agent, EventMessage(agent) \/ EventError(agent) \/ EventsEnd
  PROVE  Inv'
<1>1. pc = "run" /\ Frame /\ UNCHANGED peers /\ TaskOK(task, attempt)
  BY RunFrame DEF EventMessage, EventError, EventsEnd, InFramework, Inv
<1>2. CASE EventMessage(agent)
  <2>1. TaskOK(task', attempt) /\ pc' = "run" /\ attempt' = attempt
    BY <1>1, <1>2, TracedOK DEF EventMessage, Frame
  <2>2. QED
    BY <1>1, <2>1, SamePeers, RunsOn
<1>3. CASE EventError(agent)
  <2>1. Framework[type].errors \in Nat
    BY <1>3, ErrorsAreNumbers DEF EventError, InFramework
  <2>2. TaskOK(AddErrors(Traced(task, agent, "failed"), Framework[type].errors), attempt)
    BY <1>1, <2>1, TracedOK, AddErrorsOK
  <2>3. QED
    BY <1>1, <1>3, <2>2, Fails DEF EventError
<1>4. CASE EventsEnd
  BY <1>1, <1>4, Succeeds DEF EventsEnd
<1>5. QED
  BY <1>2, <1>3, <1>4

LEMMA WorkflowInv ==
  ASSUME Inv, SubTaskSucceeds \/ SubTaskFails \/ MergeFails
  PROVE  Inv'
<1>1. pc = "run" /\ Frame /\ UNCHANGED peers /\ TaskOK(task, attempt) /\ attempt' = attempt
  BY RunFrame DEF SubTaskSucceeds, SubTaskFails, MergeFails, Inv, RunUnchanged
<1>2. \A status : TaskOK(RecordSubtask(task, Node, status), attempt)
  BY <1>1, RecordSubtaskOK
<1>3. CASE SubTaskSucceeds
  <2>1. CASE Succeed(RecordSubtask(task, Node, "completed"))
    BY <1>1, <1>2, <2>1, Succeeds
  <2>2. CASE task' = RecordSubtask(task, Node, "completed") /\ UNCHANGED pc
    BY <1>1, <1>2, <2>2, SamePeers, RunsOn
  <2>3. QED
    BY <1>3, <2>1, <2>2 DEF SubTaskSucceeds
<1>4. CASE SubTaskFails
  <2>1. CASE Fail(AddErrors(RecordSubtask(task, Node, "failed"), 1))
    BY <1>1, <1>2, <2>1, AddErrorsOK, Fails
  <2>2. CASE task' = RecordSubtask(task, Node, "failed") /\ UNCHANGED pc
    BY <1>1, <1>2, <2>2, SamePeers, RunsOn
  <2>3. QED
    BY <1>4, <2>1, <2>2 DEF SubTaskFails
<1>5. CASE MergeFails
  BY <1>1, <1>5, AddErrorsOK, Fails DEF MergeFails
<1>6. QED
  BY <1>3, <1>4, <1>5

LEMMA PeerLockInv == ASSUME Inv, NEW i \in DOMAIN Profiles, PeerLock(i) PROVE Inv'
<1>1. pc = "run" /\ pc' = "run" /\ Frame /\ task' = task /\ TaskOK(task, attempt)
  BY DEF PeerLock, Inv, Frame, scene
<1>2. peers' = [peers EXCEPT ![i] = Goroutine("append", task)]
  BY DEF PeerLock
<1>3. /\ DOMAIN Goroutine("append", task) = {"at", "sees"}
      /\ Goroutine("append", task).sees = task
  BY DEF Goroutine
<1>4. attempt' = attempt
  BY DEF PeerLock
<1>5. PeersOK'
  BY <1>1, <1>2, <1>3, <1>4 DEF Inv, PeersOK
<1>6. QED
  BY <1>1, <1>5, RunsOn

LEMMA PeerUnlockInv == ASSUME Inv, NEW i \in DOMAIN Profiles, PeerUnlock(i) PROVE Inv'
<1>1. pc = "run" /\ pc' = "run" /\ Frame /\ attempt' = attempt
  BY DEF PeerUnlock, Frame, scene
<1>2. TaskOK(peers[i].sees, attempt)
  BY <1>1 DEF PeerUnlock, Inv, PeersOK
<1>3. TaskOK(task', attempt)
  BY <1>2, AddStepTraceOK DEF PeerUnlock
<1> DEFINE left == [peers[i] EXCEPT !.at = "done"]
<1>4. peers' = [peers EXCEPT ![i] = left]
  BY DEF PeerUnlock
<1>5. DOMAIN left = {"at", "sees"} /\ left.at = "done"
  BY DEF Inv, PeersOK
<1>6. PeersOK'
  BY <1>1, <1>4, <1>5 DEF Inv, PeersOK
<1>7. QED
  BY <1>1, <1>3, <1>6, RunsOn

LEMMA PeersDoneInv == ASSUME Inv, PeersDone PROVE Inv'
  BY RunFrame, Succeeds DEF PeersDone, Inv

LEMMA SpeechInv ==
  ASSUME Inv, Speak \/ SpeechCancelled \/ Conclude
  PROVE  Inv'
<1>1. pc = "run" /\ Frame /\ UNCHANGED peers /\ TaskOK(task, attempt) /\ attempt' = attempt
  BY RunFrame DEF Speak, SpeechCancelled, Conclude, InSpeech, Inv, RunUnchanged
<1>2. \A id, agent, status : TaskOK(AddStepTrace(task, id, agent, status), attempt)
  BY <1>1, AddStepTraceOK
<1>3. CASE Speak
  <2>1. TaskOK(task', attempt) /\ pc' = "run"
    BY <1>1, <1>2, <1>3 DEF Speak
  <2>2. QED
    BY <1>1, <2>1, SamePeers, RunsOn
<1>4. CASE SpeechCancelled
  BY <1>1, <1>4, AddErrorsOK, Fails DEF SpeechCancelled
<1>5. CASE Conclude
  <2>1. PICK t : TaskOK(t, attempt) /\ Succeed(t)
    BY <1>1, <1>2, <1>5 DEF Conclude
  <2>2. QED
    BY <1>1, <2>1, Succeeds
<1>6. QED
  BY <1>3, <1>4, <1>5

-----------------------------------------------------------------------------

LEMMA StepInv == ASSUME Inv, Step PROVE Inv'
  BY ExecuteInv, CreateInv, CreateFailsInv, ReplyInv, RespondInv, ReActInv,
     FrameworkInv, WorkflowInv, PeerLockInv, PeerUnlockInv, PeersDoneInv, SpeechInv
  DEF Step

LEMMA NextInv == Inv /\ [Next]_vars => Inv'
<1> SUFFICES ASSUME Inv, [Next]_vars PROVE Inv'
  OBVIOUS
<1>1. ASSUME NEW m \in Messages, NEW reply \in Replies, NEW seen \in LastSeen,
             Select(m, reply, seen)
      PROVE  Inv'
  BY <1>1, SelectInv
<1>2. CASE ExecuteTask \/ RunAgent \/ AnalyzeStock
  BY <1>2, SubmitInv DEF ExecuteTask, RunAgent, AnalyzeStock
<1>3. ASSUME NEW whose, ContextEnds(whose) PROVE Inv'
  BY <1>3, AsideInv DEF ContextEnds, scene
<1>4. CASE Step
  BY <1>4, StepInv
<1>5. CASE UNCHANGED vars
  BY <1>5, AsideInv DEF vars, scene
<1>6. QED
  BY <1>1, <1>2, <1>3, <1>4, <1>5 DEF Next

\* A turn is answered with content only by an execution that completed, with an
\* error only when every try has failed, and an endpoint says 200 of an answered
\* analysis alone (AnswersEarned).
THEOREM TurnsEarnTheirAnswers == Spec => []AnswersEarned
<1>1. Inv => AnswersEarned
  BY DEF Inv, ReActEnded, Outcome, ThoughtsOK, Concluded, HttpOK, AnswersEarned
<1>2. QED
  BY <1>1, InitInv, NextInv, PTL DEF Spec

-----------------------------------------------------------------------------
(* The calls of a ReAct execution.                                         *)

\* The calls are of thoughts that ran a tool, in order, with what came of it.
Reported ==
  /\ \A i, j \in DOMAIN calls : i < j => calls[i].step < calls[j].step
  /\ \A i \in DOMAIN calls : /\ calls[i].step \in Ran
                             /\ calls[i].result = thoughts[calls[i].step].seen
                             /\ react.at = "act" => calls[i].step # Len(thoughts)

\* No call is missing but the one under way.
Accounted ==
  \A i \in DOMAIN thoughts :
    /\ thoughts[i].ran => \/ \E j \in DOMAIN calls : calls[j].step = i
                          \/ react.at = "act" /\ i = Len(thoughts)
    /\ thoughts[i].seen = "nothing" => react.at = "act" /\ i = Len(thoughts)
    /\ thoughts[i].seen = "answer" => react.at = "final" /\ i = Len(thoughts)

HistoryInv ==
  /\ (\E S : thoughts \in Seq(S)) /\ (\E T : calls \in Seq(T))
  /\ \A i \in DOMAIN thoughts : DOMAIN thoughts[i] = {"action", "seen", "ran"}
  /\ react.at = "act" => thoughts # << >> /\ thoughts[Len(thoughts)].ran
  /\ Reported /\ Accounted

LEMMA Appended ==
  ASSUME NEW s, \E S : s \in Seq(S), NEW x
  PROVE  /\ \E S : Append(s, x) \in Seq(S)
         /\ Len(s) \in Nat /\ DOMAIN s = 1 .. Len(s)
         /\ Len(Append(s, x)) = Len(s) + 1 /\ DOMAIN Append(s, x) = 1 .. Len(s) + 1
         /\ \A i \in 1 .. Len(s) : Append(s, x)[i] = s[i]
         /\ Append(s, x)[Len(s) + 1] = x
<1>1. PICK S : s \in Seq(S)
  OBVIOUS
<1>2. PICK T : T = S \cup {x}
  OBVIOUS
<1>3. s \in Seq(T) /\ x \in T
  BY <1>1, <1>2
<1>4. Append(s, x) \in Seq(T)
  BY <1>3
<1>5. QED
  BY <1>3, <1>4

LEMMA NoHistory ==
  ASSUME thoughts' = << >>, calls' = << >>, react'.at # "act"
  PROVE  HistoryInv'
<1>1. << >> \in Seq({})
  OBVIOUS
<1>2. (\E S : thoughts' \in Seq(S)) /\ (\E T : calls' \in Seq(T))
  BY <1>1
<1>3. DOMAIN thoughts' = {} /\ DOMAIN calls' = {}
  OBVIOUS
<1>4. QED
  BY <1>2, <1>3 DEF HistoryInv, Reported, Accounted

LEMMA SameHistory ==
  ASSUME HistoryInv, UNCHANGED << thoughts, calls >>,
         \/ react'.at = react.at
         \/ react.at = "think" /\ react'.at = "failed"
  PROVE  HistoryInv'
  BY DEF HistoryInv, Reported, Accounted, Ran

\* The model writes: a thought more.
LEMMA AnswersHistory ==
  ASSUME HistoryInv, NEW response \in Responses, LLMAnswers(response)
  PROVE  HistoryInv'
<1>1. PICK p : p = Parsed(response)
  OBVIOUS
<1>2. PICK seen : /\ thoughts' = Append(thoughts, Thought(p, seen)) /\ calls' = calls
                  /\ \/ p.action \in FinalActions /\ seen = "answer" /\ react'.at = "final"
                     \/ /\ p.action \notin FinalActions /\ Callable(p)
                        /\ seen = "nothing" /\ react'.at = "act"
                     \/ /\ ~Callable(p) /\ seen = "error"
                        /\ react'.at \in {"exhausted", "think"}
  BY <1>1 DEF LLMAnswers, At, NextStep
<1> DEFINE n == Len(thoughts)
           x == Thought(p, seen)
<1>3. /\ \E S : thoughts' \in Seq(S)
      /\ n \in Nat /\ DOMAIN thoughts = 1 .. n
      /\ Len(thoughts') = n + 1 /\ DOMAIN thoughts' = 1 .. n + 1
      /\ \A i \in 1 .. n : thoughts'[i] = thoughts[i]
      /\ thoughts'[n + 1] = x
  <2>1. \E S : thoughts \in Seq(S)
    BY DEF HistoryInv
  <2> HIDE DEF x
  <2>2. /\ \E S : Append(thoughts, x) \in Seq(S)
        /\ n \in Nat /\ DOMAIN thoughts = 1 .. n
        /\ Len(Append(thoughts, x)) = n + 1 /\ DOMAIN Append(thoughts, x) = 1 .. n + 1
        /\ \A i \in 1 .. n : Append(thoughts, x)[i] = thoughts[i]
        /\ Append(thoughts, x)[n + 1] = x
    BY <2>1, Appended
  <2>3. thoughts' = Append(thoughts, x)
    BY <1>2 DEF x
  <2>4. QED
    BY <2>2, <2>3
<1>4. /\ DOMAIN x = {"action", "seen", "ran"} /\ x.seen = seen
      /\ x.ran <=> react'.at = "act"
  BY <1>2 DEF Thought
<1>5. react.at = "think"
  BY DEF LLMAnswers
<1> HIDE DEF x
<1>6. \A i \in DOMAIN thoughts' : DOMAIN thoughts'[i] = {"action", "seen", "ran"}
  BY <1>3, <1>4 DEF HistoryInv
<1>7. react'.at = "act" => thoughts' # << >> /\ thoughts'[Len(thoughts')].ran
  BY <1>3, <1>4
<1>8. Reported'
  <2>1. \A i \in DOMAIN calls : calls[i].step \in 1 .. n /\ thoughts[calls[i].step].ran
    BY <1>3 DEF HistoryInv, Reported, Ran
  <2>2. QED
    BY <1>2, <1>3, <2>1 DEF HistoryInv, Reported, Ran
<1>9. Accounted'
  <2>1. ASSUME NEW i \in 1 .. n
        PROVE  /\ thoughts'[i].ran => \E j \in DOMAIN calls : calls[j].step = i
               /\ thoughts'[i].seen # "nothing" /\ thoughts'[i].seen # "answer"
    BY <1>3, <1>5 DEF HistoryInv, Accounted
  <2>2. /\ thoughts'[n + 1].ran => react'.at = "act"
        /\ thoughts'[n + 1].seen = "nothing" => react'.at = "act"
        /\ thoughts'[n + 1].seen = "answer" => react'.at = "final"
    BY <1>2, <1>3, <1>4
  <2>3. QED
    BY <1>2, <1>3, <2>1, <2>2 DEF Accounted
<1>10. QED
  BY <1>2, <1>3, <1>6, <1>7, <1>8, <1>9 DEF HistoryInv

\* The tool has returned, or failed for good: its thought is seen to, and the
\* call is reported.
LEMMA ObserveHistory ==
  ASSUME HistoryInv, react.at = "act", NEW seen \in {"success", "error"}, Observe(seen)
  PROVE  HistoryInv'
<1> DEFINE n == Len(thoughts)
           m == Len(calls)
           y == [thoughts[n] EXCEPT !.seen = seen]
           c == [step |-> n, result |-> seen]
<1>1. PICK S : thoughts \in Seq(S)
  BY DEF HistoryInv
<1>2. n \in 1 .. n /\ n \in Nat /\ DOMAIN thoughts = 1 .. n
  BY <1>1 DEF HistoryInv
<1>3. thoughts' = [thoughts EXCEPT ![n] = y]
  BY DEF Observe
<1>4. DOMAIN y = {"action", "seen", "ran"} /\ y.seen = seen /\ y.ran = thoughts[n].ran
  BY <1>2 DEF HistoryInv
<1> HIDE DEF y
<1>5. /\ \E T : thoughts' \in Seq(T)
      /\ Len(thoughts') = n /\ DOMAIN thoughts' = 1 .. n
      /\ thoughts'[n] = y /\ \A i \in 1 .. n : i # n => thoughts'[i] = thoughts[i]
  <2>1. PICK T : T = S \cup {y}
    OBVIOUS
  <2>2. thoughts \in Seq(T) /\ y \in T
    BY <1>1, <2>1
  <2>3. thoughts' \in Seq(T) /\ Len(thoughts') = n
    BY <1>2, <1>3, <2>2, ExceptSeq
  <2>4. QED
    BY <1>2, <1>3, <2>3
<1>6. /\ \E T : calls' \in Seq(T)
      /\ m \in Nat /\ DOMAIN calls = 1 .. m /\ DOMAIN calls' = 1 .. m + 1
      /\ \A i \in 1 .. m : calls'[i] = calls[i]
      /\ calls'[m + 1] = c
  <2>1. \E T : calls \in Seq(T)
    BY DEF HistoryInv
  <2>2. calls' = Append(calls, c)
    BY DEF Observe
  <2> HIDE DEF c
  <2>3. /\ \E T : Append(calls, c) \in Seq(T)
        /\ m \in Nat /\ DOMAIN calls = 1 .. m /\ DOMAIN Append(calls, c) = 1 .. m + 1
        /\ \A i \in 1 .. m : Append(calls, c)[i] = calls[i]
        /\ Append(calls, c)[m + 1] = c
    BY <2>1, Appended
  <2>4. QED
    BY <2>2, <2>3
<1>7. c.step = n /\ c.result = seen
  OBVIOUS
<1> HIDE DEF c
<1>8. react'.at \in {"exhausted", "think"}
  BY DEF Observe, NextStep, At
<1>9. \A i \in 1 .. m : /\ calls[i].step \in 1 .. n /\ calls[i].step # n
                        /\ thoughts[calls[i].step].ran
                        /\ calls[i].result = thoughts[calls[i].step].seen
  BY <1>2, <1>6 DEF HistoryInv, Reported, Ran
<1>10. thoughts[n].ran
  BY DEF HistoryInv
<1>11. \A i \in DOMAIN thoughts' : DOMAIN thoughts'[i] = {"action", "seen", "ran"}
  BY <1>2, <1>4, <1>5 DEF HistoryInv
<1>12. Reported'
  <2>1. ASSUME NEW i \in 1 .. m + 1, NEW j \in 1 .. m + 1, i < j
        PROVE  calls'[i].step < calls'[j].step
    <3>1. i \in 1 .. m
      BY <1>6, <2>1
    <3>2. CASE j \in 1 .. m
      BY <1>6, <2>1, <3>1, <3>2 DEF HistoryInv, Reported
    <3>3. CASE j = m + 1
      BY <1>2, <1>6, <1>7, <1>9, <3>1, <3>3
    <3>4. QED
      BY <1>6, <3>2, <3>3
  <2>2. ASSUME NEW i \in 1 .. m + 1
        PROVE  /\ calls'[i].step \in 1 .. n /\ thoughts'[calls'[i].step].ran
               /\ calls'[i].result = thoughts'[calls'[i].step].seen
    <3>1. CASE i \in 1 .. m
      BY <1>5, <1>6, <1>9, <3>1
    <3>2. CASE i = m + 1
      BY <1>2, <1>4, <1>5, <1>6, <1>7, <1>10, <3>2
    <3>3. QED
      BY <1>6, <3>1, <3>2
  <2>3. QED
    BY <1>5, <1>6, <1>8, <2>1, <2>2 DEF Reported, Ran
<1>13. Accounted'
  <2>1. ASSUME NEW i \in 1 .. n, i # n
        PROVE  /\ thoughts'[i].ran => \E j \in 1 .. m + 1 : calls'[j].step = i
               /\ thoughts'[i].seen # "nothing" /\ thoughts'[i].seen # "answer"
    <3>1. thoughts'[i] = thoughts[i]
      BY <1>5, <2>1
    <3>2. thoughts[i].ran => \E j \in 1 .. m : calls[j].step = i
      BY <1>2, <1>6, <2>1 DEF HistoryInv, Accounted
    <3>3. thoughts[i].seen # "nothing" /\ thoughts[i].seen # "answer"
      <4>1. /\ thoughts[i].seen = "nothing" => i = n
            /\ thoughts[i].seen = "answer" => i = n
        BY <1>2 DEF HistoryInv, Accounted
      <4>2. QED
        BY <2>1, <4>1
    <3>4. (\E j \in 1 .. m : calls[j].step = i) => \E j \in 1 .. m + 1 : calls'[j].step = i
      BY <1>6
    <3>5. QED
      BY <3>1, <3>2, <3>3, <3>4
  <2>2. \E j \in 1 .. m + 1 : calls'[j].step = n
    BY <1>6, <1>7
  <2>3. thoughts'[n].seen # "nothing" /\ thoughts'[n].seen # "answer"
    BY <1>4, <1>5
  <2>4. QED
    BY <1>5, <1>6, <2>1, <2>2, <2>3 DEF Accounted
<1>14. QED
  BY <1>5, <1>6, <1>8, <1>11, <1>12, <1>13 DEF HistoryInv

LEMMA ReActStepHistory == ASSUME HistoryInv, ReActStep PROVE HistoryInv'
<1>1. ASSUME NEW response \in Responses, LLMAnswers(response) PROVE HistoryInv'
  BY <1>1, AnswersHistory
<1>2. CASE LLMFails
  BY <1>2, SameHistory DEF LLMFails, At
<1>3. CASE ToolReturns
  BY <1>3, ObserveHistory DEF ToolReturns
<1>4. CASE ToolFails
  <2>1. CASE Observe("error")
    BY <1>4, <2>1, ObserveHistory DEF ToolFails
  <2>2. CASE react' = At("act", react.try + 1) /\ UNCHANGED << thoughts, calls >>
    BY <1>4, <2>2, SameHistory DEF ToolFails, At
  <2>3. QED
    BY <1>4, <2>1, <2>2 DEF ToolFails
<1>5. QED
  BY <1>1, <1>2, <1>3, <1>4 DEF ReActStep

\* What a step of the agent does to ReAct.
ReActMoves ==
  \/ UNCHANGED reactVars
  \/ ReActStep
  \/ thoughts' = << >> /\ calls' = << >> /\ react'.at # "act"

LEMMA NextMoves == ASSUME [Next]_vars PROVE ReActMoves
<1> USE DEF ReActMoves
<1>1. ASSUME NEW m, NEW reply, NEW seen, Select(m, reply, seen) PROVE ReActMoves
  BY <1>1 DEF Select, ReActBegin, ReActOff, At
<1>2. CASE ExecuteTask \/ RunAgent \/ AnalyzeStock
  BY <1>2 DEF ExecuteTask, RunAgent, AnalyzeStock, SubmitTask, ReActOff, At
<1>3. ASSUME NEW whose, ContextEnds(whose) PROVE ReActMoves
  BY <1>3 DEF ContextEnds, rest
<1>4. CASE Execute \/ Create \/ CreateFails \/ Reply \/ Respond
  BY <1>4 DEF Execute, Create, CreateFails, Reply, Respond, rest
<1>5. CASE ReAct
  BY <1>5 DEF ReAct
<1>6. ASSUME NEW agent, EventMessage(agent) \/ EventError(agent) \/ EventsEnd
      PROVE  ReActMoves
  BY <1>6 DEF EventMessage, EventError, EventsEnd, RunUnchanged, rest
<1>7. CASE SubTaskSucceeds \/ SubTaskFails \/ MergeFails
  BY <1>7 DEF SubTaskSucceeds, SubTaskFails, MergeFails, RunUnchanged, rest
<1>8. ASSUME NEW i, PeerLock(i) \/ PeerUnlock(i) \/ PeersDone PROVE ReActMoves
  BY <1>8 DEF PeerLock, PeerUnlock, PeersDone, RunUnchanged, rest
<1>9. CASE Speak \/ SpeechCancelled \/ Conclude
  BY <1>9 DEF Speak, SpeechCancelled, Conclude, RunUnchanged, rest
<1>10. CASE UNCHANGED vars
  BY <1>10 DEF vars, rest
<1>11. QED
  BY <1>1, <1>2, <1>3, <1>4, <1>5, <1>6, <1>7, <1>8, <1>9, <1>10 DEF Next, Step

\* Every thought of an ended ReAct execution has come to something, the call of
\* each that ran a tool is reported once, in order and with what the model was
\* shown, and only the last thought concludes (ThoughtsAccounted).
THEOREM CallsReported == Spec => []ThoughtsAccounted
<1>1. Init => HistoryInv
  <2> SUFFICES ASSUME Init PROVE HistoryInv
    OBVIOUS
  <2>1. thoughts = << >> /\ calls = << >> /\ react.at = "off"
    BY DEF Init, ReActInit, At
  <2>2. << >> \in Seq({}) /\ DOMAIN << >> = {}
    OBVIOUS
  <2>3. QED
    BY <2>1, <2>2 DEF HistoryInv, Reported, Accounted
<1>2. HistoryInv /\ [Next]_vars => HistoryInv'
  BY NextMoves, ReActStepHistory, NoHistory, SameHistory DEF ReActMoves, reactVars
<1>3. HistoryInv => ThoughtsAccounted
  BY DEF HistoryInv, Reported, Accounted, Ran, ThoughtsAccounted, ReActEnded
<1>4. QED
  BY <1>1, <1>2, <1>3, PTL DEF Spec

-----------------------------------------------------------------------------
(* The traces.                                                             *)

Has(t, agent) == \E i \in DOMAIN t.traces : /\ t.traces[i].agent = agent
                                            /\ t.traces[i].status = "completed"
Counted(t) == t.step = Len(t.traces)
Numbered(t) == \A i \in DOMAIN t.traces : t.traces[i].id = i

\* The places the execution has passed have left their traces.
Passed == \A k \in DOMAIN Profiles : k < place.at => Has(task, Profiles[k])

\* A goroutine in its critical section holds the mutex, and nothing it has read
\* is out of date.
Appending(i) == mutex = i /\ peers[i].sees = task

Running ==
  /\ Counted(task)
  /\ DOMAIN place = {"at", "failed"} /\ place.at \in Nat \ {0}
  /\ pc = "create" => /\ place.at = 1 /\ task.traces = << >>
                      /\ \A i \in DOMAIN Profiles : peers[i].at = "running"
  /\ type \in {"workflow", "committee"} => Passed
  /\ type = "workflow" => Numbered(task) /\ place.at <= Len(Profiles)
  /\ type = "peer" => \A i \in DOMAIN Profiles :
                        /\ peers[i].at = "append" => Appending(i)
                        /\ peers[i].at = "done" => Has(task, Profiles[i])

\* The mutex is held in a critical section only.
MutexOK ==
  mutex # 0 => /\ pc = "run" /\ type = "peer"
               /\ mutex \in DOMAIN Profiles /\ peers[mutex].at = "append"

Whole ==
  /\ Counted(task)
  /\ type \in {"peer", "committee", "workflow"} =>
       \A i \in DOMAIN Profiles : Has(task, Profiles[i])
  /\ type = "workflow" => Numbered(task)

TraceInv ==
  /\ Inv /\ MutexOK
  /\ pc \in {"create", "run"} => Running
  /\ pc = "reply" /\ answered /\ ~ReActEnded => Whole

-----------------------------------------------------------------------------
\* What a trace more does to a task state.
Longer(t, u, trace) ==
  /\ Len(t.traces) \in Nat /\ DOMAIN t.traces = 1 .. Len(t.traces)
  /\ Len(u.traces) = Len(t.traces) + 1 /\ DOMAIN u.traces = 1 .. Len(t.traces) + 1
  /\ \A i \in DOMAIN t.traces : u.traces[i] = t.traces[i]
  /\ u.traces[Len(t.traces) + 1] = trace

LEMMA TraceMore ==
  ASSUME NEW t, NEW id, NEW agent, NEW status, TaskOK(t, attempt)
  PROVE  LET u == AddStepTrace(t, id, agent, status)
         IN  /\ Counted(u)
             /\ \A k : Has(t, k) => Has(u, k)
             /\ status = "completed" => Has(u, agent)
             /\ Counted(t) /\ id = t.step + 1 /\ Numbered(t) => Numbered(u)
<1> DEFINE trace == [id |-> id, agent |-> agent, status |-> status, try |-> attempt]
           traces == Append(t.traces, trace)
           u == AddStepTrace(t, id, agent, status)
<1>1. u.traces = traces /\ u.step = Len(traces)
  BY DEF AddStepTrace, TaskOK, TaskFields
<1>2. \E S : t.traces \in Seq(S)
  BY DEF TaskOK, OfTry
<1>3. trace.id = id /\ trace.agent = agent /\ trace.status = status
  OBVIOUS
<1>4. /\ Len(t.traces) \in Nat /\ DOMAIN t.traces = 1 .. Len(t.traces)
      /\ Len(traces) = Len(t.traces) + 1 /\ DOMAIN traces = 1 .. Len(t.traces) + 1
      /\ \A i \in 1 .. Len(t.traces) : traces[i] = t.traces[i]
      /\ traces[Len(t.traces) + 1] = trace
  <2> HIDE DEF trace
  <2>1. QED
    BY <1>2, Appended
<1> HIDE DEF trace, traces, u
<1>5. Longer(t, u, trace)
  BY <1>1, <1>4 DEF Longer
<1>6. Counted(u)
  BY <1>1 DEF Counted
<1>7. \A k : Has(t, k) => Has(u, k)
  BY <1>5 DEF Has, Longer
<1>8. status = "completed" => Has(u, agent)
  <2>1. Len(t.traces) + 1 \in DOMAIN u.traces
    BY <1>5 DEF Longer
  <2>2. QED
    BY <1>3, <1>5, <2>1 DEF Has, Longer
<1>9. Counted(t) /\ id = t.step + 1 /\ Numbered(t) => Numbered(u)
  BY <1>3, <1>5 DEF Counted, Numbered, Longer
<1>10. QED
  BY <1>6, <1>7, <1>8, <1>9 DEF u

LEMMA RecordMore ==
  ASSUME NEW t, NEW agent, NEW status, TaskOK(t, attempt)
  PROVE  LET u == RecordSubtask(t, agent, status)
         IN  /\ Counted(u)
             /\ \A k : Has(t, k) => Has(u, k)
             /\ status = "completed" => Has(u, agent)
             /\ Counted(t) /\ Numbered(t) => Numbered(u)
<1>1. PICK id : id = t.step + 1
  OBVIOUS
<1>2. RecordSubtask(t, agent, status) = AddStepTrace(t, id, agent, status)
  BY <1>1 DEF RecordSubtask
<1>3. QED
  BY <1>1, <1>2, TraceMore

\* A status and errors leave the traces as they are.
LEMMA SameTraces ==
  ASSUME NEW t, DOMAIN t = TaskFields, NEW status
  PROVE  /\ [t EXCEPT !.status = status].traces = t.traces
         /\ [t EXCEPT !.status = status].step = t.step
  BY DEF TaskFields

\* An execution that fails or is not there has no traces to answer for.
LEMMA NoTraces ==
  ASSUME Inv', MutexOK', pc' \notin {"create", "run"}, pc' = "reply" => ~answered' \/ ReActEnded'
  PROVE  TraceInv'
  BY DEF TraceInv

LEMMA FreeMutex ==
  ASSUME MutexOK, mutex' = mutex, pc # "run" \/ type # "peer"
  PROVE  MutexOK'
  BY DEF MutexOK

LEMMA FailTraces ==
  ASSUME TraceInv, Inv', NEW t, Fail(t), mutex' = mutex, pc # "run" \/ type # "peer"
  PROVE  TraceInv'
<1>1. pc' \in {"attempt", "reply"} /\ answered' = FALSE
  BY DEF Fail
<1>2. MutexOK'
  BY FreeMutex DEF TraceInv
<1>3. QED
  BY <1>1, <1>2, NoTraces

LEMMA SucceedTraces ==
  ASSUME TraceInv, Inv', pc = "run", NEW t, Succeed(t), mutex' = mutex, mutex = 0,
         UNCHANGED << selected >>, DOMAIN t = TaskFields, Counted(t),
         type \in {"peer", "committee", "workflow"} => \A i \in DOMAIN Profiles : Has(t, Profiles[i]),
         type = "workflow" => Numbered(t)
  PROVE  TraceInv'
<1>1. pc' = "reply" /\ task' = [t EXCEPT !.status = "completed"]
  BY DEF Succeed
<1>2. task'.traces = t.traces /\ task'.step = t.step
  BY <1>1, SameTraces
<1>3. type' = type
  BY DEF type
<1>4. Whole'
  BY <1>2, <1>3 DEF Whole, Counted, Has, Numbered
<1>5. QED
  BY <1>1, <1>4 DEF TraceInv, MutexOK

-----------------------------------------------------------------------------
(* The steps, one by one.                                                  *)

LEMMA TurnTraces ==
  ASSUME TraceInv, Inv', NEW where, StartTurn(where), pc' \in {"attempt", "react", "reply"}
  PROVE  TraceInv'
<1>1. pc = "idle" /\ mutex' = mutex /\ answered' = FALSE
  BY DEF StartTurn
<1>2. MutexOK'
  BY <1>1, FreeMutex DEF TraceInv
<1>3. QED
  BY <1>1, <1>2, NoTraces

LEMMA ExecuteTraces == ASSUME TraceInv, Inv', Execute PROVE TraceInv'
<1>1. pc = "attempt" /\ pc' = "create" /\ mutex' = mutex
  BY DEF Execute
<1>2. MutexOK'
  BY <1>1, FreeMutex DEF TraceInv
<1>3. task'.traces = << >> /\ task'.step = 0
  BY DEF Execute, FreshTask, NewTaskState
<1>4. place' = [at |-> 1, failed |-> 0]
      /\ \A i \in DOMAIN Profiles : peers'[i].at = "running"
  BY DEF Execute, Goroutine
<1>5. DOMAIN place' = {"at", "failed"} /\ place'.at = 1
  BY <1>4
<1>6. DOMAIN << >> = {} /\ Len(<< >>) = 0
  OBVIOUS
<1>7. DOMAIN task'.traces = {} /\ Len(task'.traces) = 0
  BY <1>3, <1>6
<1>8. Len(Profiles) = 3 /\ DOMAIN Profiles = 1 .. 3
  BY DEF Profiles
<1>9. Running'
  BY <1>1, <1>3, <1>4, <1>5, <1>7, <1>8 DEF Running, Counted, Passed, Numbered
<1>10. QED
  BY <1>1, <1>2, <1>9 DEF TraceInv

LEMMA CreateTraces == ASSUME TraceInv, Inv', Create PROVE TraceInv'
<1>1. pc = "create" /\ pc' = "run" /\ UNCHANGED << mutex, place, peers, selected >>
      /\ Running /\ DOMAIN task = TaskFields
  BY DEF Create, TraceInv, Inv, TaskOK
<1>2. MutexOK' /\ type' = type
  BY <1>1, FreeMutex DEF TraceInv, type
<1>3. task'.traces = task.traces /\ task'.step = task.step
  BY <1>1, SameTraces DEF Create
<1>4. Running'
  BY <1>1, <1>2, <1>3 DEF Running, Counted, Passed, Has, Numbered
<1>5. QED
  BY <1>1, <1>2, <1>4 DEF TraceInv

LEMMA AsideTraces ==
  ASSUME TraceInv, Inv',
         UNCHANGED << pc, selected, task, place, peers, mutex, answered, react >>
  PROVE  TraceInv'
<1>1. type' = type /\ ReActEnded' = ReActEnded
  BY DEF type, ReActEnded
<1>2. MutexOK'
  BY <1>1 DEF TraceInv, MutexOK
<1>3. Running => Running'
  BY <1>1 DEF Running, Passed, Appending
<1>4. Whole => Whole'
  BY <1>1 DEF Whole
<1>5. QED
  BY <1>1, <1>2, <1>3, <1>4 DEF TraceInv

LEMMA EndTurnTraces ==
  ASSUME TraceInv, Inv', EndTurn, mutex' = mutex, pc # "run"
  PROVE  TraceInv'
<1>1. pc' \in {"idle", "done"}
  BY DEF EndTurn
<1>2. MutexOK'
  BY FreeMutex DEF TraceInv
<1>3. QED
  BY <1>1, <1>2, NoTraces

LEMMA ReActTraces == ASSUME TraceInv, Inv', ReAct PROVE TraceInv'
<1>1. pc = "react" /\ mutex' = mutex
  BY DEF ReAct
<1>2. MutexOK'
  BY <1>1, FreeMutex DEF TraceInv
<1>3. CASE UNCHANGED pc
  BY <1>1, <1>2, <1>3, NoTraces
<1>4. CASE ReActEnded /\ EndTurn
  BY <1>1, <1>4, EndTurnTraces
<1>5. CASE ReActEnded /\ pc' = "reply" /\ UNCHANGED reactVars
  <2>1. ReActEnded'
    BY <1>5 DEF ReActEnded, reactVars
  <2>2. QED
    BY <1>2, <1>5, <2>1, NoTraces
<1>6. QED
  BY <1>3, <1>4, <1>5 DEF ReAct

\* An execution that goes on: of its shape and what each kind needs.
LEMMA RunningOn ==
  ASSUME TraceInv, Inv', MutexOK', pc = "run", pc' = "run", selected' = selected,
         Counted(task'), DOMAIN place' = {"at", "failed"}, place'.at \in Nat \ {0},
         type \in {"workflow", "committee"} => Passed',
         type = "workflow" => Numbered(task') /\ place'.at <= Len(Profiles),
         type = "peer" => \A i \in DOMAIN Profiles :
                            /\ peers'[i].at = "append" => mutex' = i /\ peers'[i].sees = task'
                            /\ peers'[i].at = "done" => Has(task', Profiles[i])
  PROVE  TraceInv'
<1>1. type' = type
  BY DEF type
<1>2. Running'
  BY <1>1 DEF Running, Counted, Numbered, Appending, Has
<1>3. QED
  BY <1>2 DEF TraceInv

LEMMA RunFacts ==
  ASSUME TraceInv, pc = "run"
  PROVE  Running /\ TaskOK(task, attempt) /\ DOMAIN task = TaskFields
  BY DEF TraceInv, Inv, TaskOK

LEMMA FrameworkTraces ==
  ASSUME TraceInv, Inv', NEW agent, EventMessage(agent) \/ EventError(agent) \/ EventsEnd
  PROVE  TraceInv'
<1>1. /\ pc = "run" /\ mutex' = mutex /\ selected' = selected /\ UNCHANGED << place, peers >>
      /\ type \in DOMAIN Framework
  BY DEF EventMessage, EventError, EventsEnd, InFramework, RunUnchanged
<1>2. type \notin {"peer", "committee", "workflow"}
  BY <1>1 DEF Framework
<1>3. mutex = 0 /\ MutexOK'
  BY <1>1, <1>2 DEF TraceInv, MutexOK
<1>4. Running /\ TaskOK(task, attempt) /\ DOMAIN task = TaskFields
  BY <1>1, RunFacts
<1>5. CASE EventMessage(agent)
  <2>1. Counted(task') /\ pc' = "run"
    BY <1>1, <1>4, <1>5, RecordMore DEF EventMessage, Traced, Running
  <2>2. QED
    BY <1>1, <1>2, <1>3, <1>4, <2>1, RunningOn DEF Running
<1>6. CASE EventError(agent)
  BY <1>1, <1>2, <1>6, FailTraces DEF EventError
<1>7. CASE EventsEnd
  BY <1>1, <1>2, <1>3, <1>4, <1>7, SucceedTraces DEF EventsEnd, Running
<1>8. QED
  BY <1>5, <1>6, <1>7

LEMMA WorkflowTraces ==
  ASSUME TraceInv, Inv', SubTaskSucceeds \/ SubTaskFails \/ MergeFails
  PROVE  TraceInv'
<1>1. /\ pc = "run" /\ mutex' = mutex /\ selected' = selected /\ peers' = peers
      /\ type = "workflow"
  BY DEF SubTaskSucceeds, SubTaskFails, MergeFails, RunUnchanged
<1>2. mutex = 0 /\ MutexOK'
  BY <1>1 DEF TraceInv, MutexOK
<1>3. /\ Running /\ TaskOK(task, attempt) /\ DOMAIN task = TaskFields
      /\ Counted(task) /\ Numbered(task) /\ Passed
      /\ DOMAIN place = {"at", "failed"} /\ place.at \in 1 .. Len(Profiles)
  BY <1>1, RunFacts DEF Running, Profiles
<1>4. DOMAIN Profiles = 1 .. Len(Profiles) /\ Len(Profiles) \in Nat
  BY DEF Profiles
<1>5. ASSUME NEW status \in {"completed", "failed"},
             NEW t, t = RecordSubtask(task, Node, status)
      PROVE  /\ Counted(t) /\ Numbered(t) /\ DOMAIN t = TaskFields
             /\ \A k : Has(task, k) => Has(t, k)
             /\ status = "completed" => Has(t, Profiles[place.at])
  BY <1>3, <1>5, RecordMore, RecordSubtaskOK DEF TaskOK, Node
<1>6. CASE SubTaskSucceeds
  <2>1. PICK t : t = RecordSubtask(task, Node, "completed")
    OBVIOUS
  <2>2. /\ Counted(t) /\ Numbered(t) /\ DOMAIN t = TaskFields
        /\ \A k \in DOMAIN Profiles : k < place.at + 1 => Has(t, Profiles[k])
    BY <1>3, <1>4, <1>5, <2>1 DEF Passed
  <2>3. CASE place.at = Len(Profiles) /\ Succeed(t)
    <3>1. \A k \in DOMAIN Profiles : Has(t, Profiles[k])
      BY <1>4, <2>2, <2>3
    <3>2. QED
      BY <1>1, <1>2, <2>2, <2>3, <3>1, SucceedTraces
  <2>4. CASE /\ place.at # Len(Profiles) /\ task' = t
             /\ place' = [at |-> place.at + 1, failed |-> 0] /\ UNCHANGED pc
    <3>1. /\ DOMAIN place' = {"at", "failed"} /\ place'.at = place.at + 1
          /\ place'.at \in Nat \ {0} /\ place'.at <= Len(Profiles)
      BY <1>3, <1>4, <2>4
    <3>2. Passed'
      BY <2>2, <2>4, <3>1 DEF Passed
    <3>3. QED
      BY <1>1, <1>2, <2>2, <2>4, <3>1, <3>2, RunningOn
  <2>5. QED
    BY <1>6, <2>1, <2>3, <2>4 DEF SubTaskSucceeds
<1>7. CASE SubTaskFails
  <2>1. PICK t : t = RecordSubtask(task, Node, "failed")
    OBVIOUS
  <2>2. CASE Fail(AddErrors(t, 1))
    BY <1>1, <2>2, FailTraces
  <2>3. CASE task' = t /\ place' = [place EXCEPT !.failed = @ + 1] /\ UNCHANGED pc
    <3>1. /\ Counted(t) /\ Numbered(t) /\ \A k : Has(task, k) => Has(t, k)
      BY <1>5, <2>1
    <3>2. DOMAIN place' = {"at", "failed"} /\ place'.at = place.at
      BY <1>3, <2>3
    <3>3. Passed'
      BY <1>3, <2>3, <3>1, <3>2 DEF Passed
    <3>4. QED
      BY <1>1, <1>2, <1>3, <2>3, <3>1, <3>2, <3>3, RunningOn
  <2>4. QED
    BY <1>7, <2>1, <2>2, <2>3 DEF SubTaskFails
<1>8. CASE MergeFails
  BY <1>1, <1>8, FailTraces DEF MergeFails
<1>9. QED
  BY <1>6, <1>7, <1>8

LEMMA PeerLockTraces ==
  ASSUME TraceInv, Inv', NEW i \in DOMAIN Profiles, PeerLock(i)
  PROVE  TraceInv'
<1>1. /\ pc = "run" /\ pc' = "run" /\ type = "peer" /\ mutex = 0 /\ mutex' = i
      /\ UNCHANGED << selected, task, place >>
      /\ peers' = [peers EXCEPT ![i] = Goroutine("append", task)]
  BY DEF PeerLock, MutexFree
<1>2. Running /\ DOMAIN peers = DOMAIN Profiles
  BY <1>1, RunFacts DEF TraceInv, Inv, PeersOK
<1>3. /\ peers'[i].at = "append" /\ peers'[i].sees = task
      /\ \A k \in DOMAIN Profiles \ {i} : peers'[k] = peers[k]
  BY <1>1, <1>2 DEF Goroutine
<1>4. type' = type
  BY <1>1 DEF type
<1>5. MutexOK'
  BY <1>1, <1>3, <1>4 DEF MutexOK
<1>6. \A k \in DOMAIN Profiles : peers[k].at # "append"
  BY <1>1, <1>2 DEF Running, Appending, Profiles
<1>7. \A k \in DOMAIN Profiles :
        /\ peers'[k].at = "append" => mutex' = k /\ peers'[k].sees = task'
        /\ peers'[k].at = "done" => Has(task', Profiles[k])
  BY <1>1, <1>2, <1>3, <1>6 DEF Running
<1>8. QED
  BY <1>1, <1>2, <1>5, <1>7, RunningOn DEF Running

LEMMA PeerUnlockTraces ==
  ASSUME TraceInv, Inv', NEW i \in DOMAIN Profiles, PeerUnlock(i)
  PROVE  TraceInv'
<1>1. /\ pc = "run" /\ pc' = "run" /\ type = "peer" /\ mutex' = 0
      /\ UNCHANGED << selected, place >> /\ peers[i].at = "append"
      /\ task' = AddStepTrace(peers[i].sees, i, Profiles[i], "completed")
      /\ peers' = [peers EXCEPT ![i].at = "done"]
  BY DEF PeerUnlock
<1>2. /\ Running /\ TaskOK(task, attempt) /\ DOMAIN peers = DOMAIN Profiles
      /\ DOMAIN peers[i] = {"at", "sees"}
  BY <1>1, RunFacts DEF TraceInv, Inv, PeersOK
<1>3. mutex = i /\ peers[i].sees = task
  BY <1>1, <1>2 DEF Running, Appending
<1>4. Counted(task') /\ Has(task', Profiles[i]) /\ \A k : Has(task, k) => Has(task', k)
  BY <1>1, <1>2, <1>3, TraceMore
<1>5. peers'[i].at = "done" /\ \A k \in DOMAIN Profiles \ {i} : peers'[k] = peers[k]
  BY <1>1, <1>2
<1>6. MutexOK'
  BY <1>1 DEF MutexOK
<1>7. \A k \in DOMAIN Profiles \ {i} : peers[k].at # "append"
  BY <1>1, <1>2, <1>3 DEF Running, Appending
<1>8. \A k \in DOMAIN Profiles :
        /\ peers'[k].at = "append" => mutex' = k /\ peers'[k].sees = task'
        /\ peers'[k].at = "done" => Has(task', Profiles[k])
  BY <1>1, <1>2, <1>4, <1>5, <1>7 DEF Running
<1>9. QED
  BY <1>1, <1>2, <1>4, <1>6, <1>8, RunningOn DEF Running

LEMMA PeersDoneTraces == ASSUME TraceInv, Inv', PeersDone PROVE TraceInv'
<1>1. /\ pc = "run" /\ type = "peer" /\ mutex' = mutex /\ selected' = selected
      /\ \A i \in DOMAIN Profiles : peers[i].at = "done"
      /\ Succeed(task)
  BY DEF PeersDone, RunUnchanged
<1>2. mutex = 0
  BY <1>1 DEF TraceInv, MutexOK
<1>3. Running /\ DOMAIN task = TaskFields
  BY <1>1, RunFacts
<1>4. QED
  BY <1>1, <1>2, <1>3, SucceedTraces DEF Running

LEMMA SpeechTraces == ASSUME TraceInv, Inv', Speak \/ SpeechCancelled \/ Conclude PROVE TraceInv'
<1>1. /\ pc = "run" /\ mutex' = mutex /\ selected' = selected /\ peers' = peers
      /\ type \in {"debate", "committee"}
  BY DEF Speak, SpeechCancelled, Conclude, InSpeech, RunUnchanged
<1>2. mutex = 0 /\ MutexOK'
  BY <1>1 DEF TraceInv, MutexOK
<1>3. /\ Running /\ TaskOK(task, attempt) /\ DOMAIN task = TaskFields
      /\ Counted(task) /\ (type = "committee" => Passed)
      /\ DOMAIN place = {"at", "failed"} /\ place.at \in Nat \ {0}
  BY <1>1, RunFacts DEF Running
<1>4. DOMAIN Profiles = 1 .. Len(Profiles) /\ Len(Profiles) = 3
  BY DEF Profiles
<1>5. CASE Speak
  <2>1. PICK agent : agent = Speaker
    OBVIOUS
  <2>2. /\ task' = AddStepTrace(task, place.at, agent, "completed") /\ pc' = "run"
        /\ place' = [place EXCEPT !.at = @ + 1] /\ place.at <= Speeches
    BY <1>1, <1>5, <2>1 DEF Speak, InSpeech
  <2>3. Counted(task') /\ Has(task', agent) /\ \A k : Has(task, k) => Has(task', k)
    BY <1>3, <2>2, TraceMore
  <2>4. DOMAIN place' = {"at", "failed"} /\ place'.at = place.at + 1
    BY <1>3, <2>2
  <2>5. type = "committee" => Passed'
    <3>1. SUFFICES ASSUME type = "committee" PROVE Passed'
      OBVIOUS
    <3>2. place.at \in 1 .. 3
      BY <1>3, <1>4, <2>2, <3>1 DEF Speeches
    <3>3. ((place.at - 1) % 3) + 1 = place.at
      BY <3>2
    <3>4. agent = Profiles[place.at]
      BY <1>4, <2>1, <3>3 DEF Speaker
    <3>5. QED
      BY <1>3, <1>4, <2>3, <2>4, <3>1, <3>4 DEF Passed
  <2>6. QED
    BY <1>1, <1>2, <1>3, <2>2, <2>3, <2>4, <2>5, RunningOn
<1>6. CASE SpeechCancelled
  BY <1>1, <1>6, FailTraces DEF SpeechCancelled
<1>7. CASE Conclude
  <2>1. place.at > Speeches
    BY <1>7 DEF Conclude
  <2>2. CASE type = "committee"
    <3>1. PICK t : t = AddStepTrace(task, place.at, "task_planner", "completed")
      OBVIOUS
    <3>2. Counted(t) /\ DOMAIN t = TaskFields /\ \A k : Has(task, k) => Has(t, k)
      BY <1>3, <3>1, TraceMore, AddStepTraceOK DEF TaskOK
    <3>3. \A i \in DOMAIN Profiles : Has(t, Profiles[i])
      BY <1>3, <1>4, <2>1, <2>2, <3>2 DEF Passed, Speeches
    <3>4. Succeed(t)
      BY <1>7, <2>2, <3>1 DEF Conclude
    <3>5. QED
      BY <1>1, <1>2, <2>2, <3>2, <3>3, <3>4, SucceedTraces
  <2>3. CASE type # "committee"
    <3>1. Succeed(task)
      BY <1>7, <2>3 DEF Conclude
    <3>2. QED
      BY <1>1, <1>2, <1>3, <2>3, <3>1, SucceedTraces
  <2>4. QED
    BY <2>2, <2>3
<1>8. QED
  BY <1>5, <1>6, <1>7

LEMMA NextTraces == TraceInv /\ [Next]_vars => TraceInv'
<1> SUFFICES ASSUME TraceInv, [Next]_vars PROVE TraceInv'
  OBVIOUS
<1>0. Inv'
  BY NextInv DEF TraceInv
<1>1. ASSUME NEW m, NEW reply, NEW seen, Select(m, reply, seen) PROVE TraceInv'
  <2>1. StartTurn("chat") /\ pc' \in {"attempt", "react", "reply"}
    BY <1>1 DEF Select
  <2>2. QED
    BY <1>0, <2>1, TurnTraces
<1>2. CASE ExecuteTask \/ RunAgent \/ AnalyzeStock
  BY <1>0, <1>2, TurnTraces DEF ExecuteTask, RunAgent, AnalyzeStock, SubmitTask
<1>3. ASSUME NEW whose, ContextEnds(whose) PROVE TraceInv'
  BY <1>0, <1>3, AsideTraces DEF ContextEnds, rest, reactVars
<1>4. CASE CreateFails
  BY <1>0, <1>4, FailTraces DEF CreateFails
<1>5. CASE Reply \/ Respond
  BY <1>0, <1>5, EndTurnTraces DEF Reply, Respond
<1>6. CASE UNCHANGED vars
  BY <1>0, <1>6, AsideTraces DEF vars, rest, reactVars
<1>7. CASE Step
  BY <1>0, <1>4, <1>5, <1>7, ExecuteTraces, CreateTraces, ReActTraces, FrameworkTraces,
     WorkflowTraces, PeerLockTraces, PeerUnlockTraces, PeersDoneTraces, SpeechTraces
  DEF Step
<1>8. QED
  BY <1>1, <1>2, <1>3, <1>6, <1>7 DEF Next

\* When a coordinator's execution completes, its traces are counted, none is
\* missing of a peer, a member or a node, and a workflow's are numbered in order
\* (TracesComplete), however the goroutines interleave and the subtasks fail.
THEOREM TracesAreComplete == Spec => []TracesComplete
<1>1. Init => TraceInv
  <2> SUFFICES ASSUME Init PROVE TraceInv
    OBVIOUS
  <2>1. Inv /\ MutexOK
    BY InitInv DEF Init, MutexOK
  <2>2. QED
    BY <2>1 DEF Init, TraceInv
<1>2. TraceInv => TracesComplete
  <2> SUFFICES ASSUME TraceInv, pc = "reply", answered, ~ReActEnded PROVE TracesComplete
    BY DEF TracesComplete
  <2>1. Whole
    BY DEF TraceInv
  <2>2. \A agent : Has(task, agent) => "completed" \in TraceStatuses(agent)
    BY DEF Has, TraceStatuses
  <2>3. QED
    BY <2>1, <2>2 DEF Whole, Counted, Numbered, TracesComplete, Range
<1>3. QED
  BY <1>1, <1>2, NextTraces, PTL DEF Spec
=============================================================================

----------------------------- MODULE AgentTask -----------------------------
(***************************************************************************)
(* The agent turns of one conversation: a coordinator is selected, created *)
(* and executed, an execution that fails is repeated with a new TaskState,  *)
(* and the turn, answered or failed, leaves its coordinator on the          *)
(* assistant message, where the next follow-up question finds it.           *)
(* The agent endpoints execute a task without a selection or a message;     *)
(* with AGENT_EXECUTOR=react no chat is executed by a coordinator.           *)
(* What the agent framework and the tools do inside an execution is         *)
(* outside: an event, the answer of a model call, the end of a tool call.   *)
(***************************************************************************)
EXTENDS CoordinatorSelector, ReActExecutor

CONSTANTS Messages,     \* the agent requests: what SelectCoordinator reads of one
          Replies,      \* what the classifier may answer
          Wirings,      \* what the environment may say: [explicit, executor], with
                        \* explicit COORDINATOR_TYPE, "" when it is not set, and
                        \* executor "coordinator" or "react"
          MaxRetries,   \* RetryPolicy.MaxRetries
          MaxRounds,    \* DebateCoordinator.maxRounds
          MaxEvents,    \* bound: messages of one execution of an agent of the framework
          MaxTurns      \* bound: agent turns of the conversation

ASSUME AgentAssumption ==
    /\ MaxRetries \in Nat \ {0} /\ MaxRounds \in Nat \ {0}
    /\ MaxEvents \in Nat \ {0} /\ MaxTurns \in Nat \ {0}

(* The profiles the server sets on every coordinator, in their order.      *)
Profiles == <<"evidence_collector", "metric_extractor", "analyst_writer">>

(* How the coordinators that run an agent of the framework differ: whether  *)
(* RecordCoordinatorResult is deferred in Execute, whether events leave     *)
(* traces, and how many errors a failing event leaves in the task state.    *)
Supervisor == [counted |-> TRUE,  traced |-> TRUE,  errors |-> 1]
Pipeline   == [counted |-> TRUE,  traced |-> TRUE,  errors |-> 2]
Plan       == [counted |-> TRUE,  traced |-> TRUE,  errors |-> 2]
Deep       == [counted |-> FALSE, traced |-> FALSE, errors |-> 1]

Framework == [supervisor |-> Supervisor, pipeline |-> Pipeline, plan |-> Plan, deep |-> Deep]

VARIABLES
    pc,         \* "idle", "attempt", "create", "run", "reply" or "done"
    rules,      \* the table the selector was started with
    wiring,     \* what the environment says
    last,       \* the coordinator on the latest assistant message that has one
    turn,       \* agent turns begun
    entry,      \* where this one came in: "chat", "execute", "run" or "analyze"
    selected,   \* the coordinator type of this turn's request
    attempt,    \* executions begun in this turn
    ended,      \* "no", or whose context has ended: "execution" or "request"
    task,       \* the TaskState of the latest execution
    place,      \* subtask or speech the execution is at, and its failed tries
    peers,      \* where each goroutine of the peer coordinator is, and what it appended to
    mutex,      \* the goroutine that holds the peer coordinator's mutex
    answered,   \* the turn's response carries content and no error
    counted,    \* RecordCoordinatorResult calls of the turn
    http        \* the status an agent endpoint answers with, 0 before and for a chat

scene == <<rules, wiring, turn, entry>>
rest == <<http, reactVars>>
vars == <<pc, scene, last, selected, attempt, ended, task, place, peers, mutex, answered,
          counted, rest>>

(* DynamicCoordinatorAgent takes the supervisor for an empty type.         *)
type == IF selected = NoCoordinator THEN "supervisor" ELSE selected

(* ExplicitCoordinatorFromEnv, and selectModeAgentExecutor.                *)
Explicit == wiring.explicit
UsesReAct == wiring.executor = "react"

(* getLastCoordinator, which finds none where the store fails.             *)
LastSeen == {last, NoCoordinator}

-----------------------------------------------------------------------------

NewTaskState(n) ==
    [status |-> "pending", traces |-> <<>>, step |-> 0, errors |-> 0, retry |-> n]

AddErrors(t, n) == [t EXCEPT !.errors = @ + n]

AddStepTrace(t, id, agent, status) ==
    LET traces == Append(t.traces,
                         [id |-> id, agent |-> agent, status |-> status, try |-> attempt])
    IN  [t EXCEPT !.traces = traces, !.step = Len(traces)]

(* recordSubtask numbers a trace after CurrentStep.                        *)
RecordSubtask(t, agent, status) == AddStepTrace(t, t.step + 1, agent, status)

(* RetryHandler.ShouldRetry after the execution at hand was recorded.      *)
ShouldRetry == attempt < MaxRetries

ExecuteCounts == IF type = "workflow" THEN 1
                 ELSE IF type \in DOMAIN Framework /\ Framework[type].counted THEN 1 ELSE 0

(* Execute returns an error: the adapter adds it to the task state, then    *)
(* sleeps and tries again, or answers with the error.                      *)
Fail(t) ==
    /\ task' = AddErrors([t EXCEPT !.status = "failed"], 1)
    /\ pc' = IF ShouldRetry THEN "attempt" ELSE "reply"
    /\ counted' = counted + ExecuteCounts + (IF ShouldRetry THEN 0 ELSE 1)
    /\ answered' = FALSE

(* Execute returns an answer: the adapter records the result once more.    *)
Succeed(t) ==
    /\ task' = [t EXCEPT !.status = "completed"]
    /\ pc' = "reply"
    /\ counted' = counted + ExecuteCounts + 1
    /\ answered' = TRUE

Goroutine(at, sees) == [at |-> at, sees |-> sees]

-----------------------------------------------------------------------------
(* The turn                                                                *)

Init ==
    /\ pc = "idle"
    /\ rules \in {FileRules, DefaultRules}
    /\ wiring \in Wirings
    /\ last = NoCoordinator
    /\ turn = 0
    /\ entry = "chat"
    /\ selected = NoCoordinator
    /\ attempt = 0
    /\ ended = "no"
    /\ task = NewTaskState(0)
    /\ place = [at |-> 1, failed |-> 0]
    /\ peers = [i \in DOMAIN Profiles |-> Goroutine("running", NewTaskState(0))]
    /\ mutex = 0
    /\ answered = FALSE
    /\ counted = 0
    /\ http = 0
    /\ ReActInit

StartTurn(where) ==
    /\ pc = "idle"
    /\ turn < MaxTurns
    /\ turn' = turn + 1
    /\ entry' = where
    /\ http' = 0
    /\ attempt' = 0
    /\ answered' = FALSE
    /\ counted' = 0
    /\ ended' = "no"
    /\ task' = NewTaskState(0)
    /\ UNCHANGED <<rules, wiring, last, place, peers, mutex>>

(* selectCoordinator, then the executor: the factory answers a type it does  *)
(* not know with an error at once.  Where the store fails, seen is no        *)
(* coordinator.                                                            *)
Select(m, reply, seen) ==
    /\ StartTurn("chat")
    /\ selected' = SelectCoordinator(
                       [m EXCEPT !.last = seen, !.explicit = Explicit, !.recent = turn > 0],
                       rules, reply)
    /\ IF UsesReAct
       THEN pc' = "react" /\ ReActBegin
       ELSE /\ pc' = IF type' \in Coordinators THEN "attempt" ELSE "reply"
            /\ ReActOff

(* The agent endpoints, once the request is found valid: whatever the        *)
(* environment says, the supervisor coordinator.                           *)
SubmitTask(endpoint) ==
    /\ StartTurn(endpoint)
    /\ selected' = NoCoordinator
    /\ pc' = "attempt"
    /\ ReActOff

ExecuteTask == SubmitTask("execute")
RunAgent == SubmitTask("run")
AnalyzeStock == SubmitTask("analyze")

(* An iteration of ExecuteComplexTask's loop: a new TaskState, a context of *)
(* its own (one that has ended already when the request's has), Execute.    *)
MutFreshTask == [task EXCEPT !.status = "pending"]   \* Mutant: the TaskState outlives the loop.
FreshTask == NewTaskState(attempt)

MutNextAttempt == IF attempt = 0 THEN 1 ELSE attempt   \* Mutant: RecordRetry is not called.
NextAttempt == attempt + 1

Execute ==
    /\ pc = "attempt"
    /\ attempt' = NextAttempt
    /\ ended' = IF ended = "request" THEN "request" ELSE "no"
    /\ task' = FreshTask
    /\ place' = [at |-> 1, failed |-> 0]
    /\ peers' = [i \in DOMAIN Profiles |-> Goroutine("running", FreshTask)]
    /\ pc' = "create"
    /\ UNCHANGED <<rest, scene, last, selected, mutex, answered, counted>>

(* The framework agents, or the compiled workflow, are built.              *)
Create ==
    /\ pc = "create"
    /\ pc' = "run"
    /\ task' = [task EXCEPT !.status = "running"]
    /\ UNCHANGED <<rest, scene, last, selected, attempt, ended, place, peers, mutex,
                   answered, counted>>

CreateFails ==
    /\ pc = "create"
    /\ type = "workflow" \/ type \in DOMAIN Framework
    /\ Fail(AddErrors(task, 1))
    /\ UNCHANGED <<rest, scene, last, selected, attempt, ended, place, peers, mutex>>

(* The request is cancelled, or the execution's deadline passes.  The sleep *)
(* between two executions does not look at the context.                    *)
ContextEnds(whose) ==
    /\ pc = "run" \/ (pc = "attempt" /\ whose = "request")
    /\ ended = "no"
    /\ ended' = whose
    /\ UNCHANGED <<pc, rest, scene, last, selected, attempt, task, place, peers, mutex,
                   answered, counted>>

(* The assistant message takes the request's coordinator, when it has one,  *)
(* whether the turn was answered or not: execute returns no error for a     *)
(* response that carries one.  Saving the message may fail.                 *)
SavedCoordinator == IF selected = NoCoordinator THEN last ELSE selected

EndTurn == pc' = IF turn < MaxTurns THEN "idle" ELSE "done"

Reply ==
    /\ pc = "reply" /\ entry = "chat"
    /\ last' \in {SavedCoordinator, last}
    /\ EndTurn
    /\ UNCHANGED <<rest, scene, selected, attempt, ended, task, place, peers, mutex,
                   answered, counted>>

(* The endpoints' handlers: ExecuteComplexTask returns no error, and only    *)
(* AnalyzeStock looks at the one in its response.                          *)
HandlerStatus == IF entry = "analyze" /\ ~answered THEN 500 ELSE 200

Respond ==
    /\ pc = "reply" /\ entry # "chat"
    /\ http' = HandlerStatus
    /\ EndTurn
    /\ UNCHANGED <<scene, last, selected, attempt, ended, task, place, peers, mutex, answered,
                   counted, reactVars>>

-----------------------------------------------------------------------------
(* ReAct                                                                   *)

(* Its error ends the chat before its message; no message, no coordinator.  *)
ReAct ==
    /\ pc = "react"
    /\ \/ /\ ReActStep
          /\ UNCHANGED <<pc, answered>>
       \/ /\ ReActEnded
          /\ answered' = (react.at # "failed")
          /\ IF react.at = "failed" THEN EndTurn ELSE pc' = "reply"
          /\ UNCHANGED reactVars
    /\ UNCHANGED <<scene, last, selected, attempt, ended, task, place, peers, mutex, counted, http>>

-----------------------------------------------------------------------------
(* Supervisor, pipeline, plan and deep: the events of a framework agent     *)

InFramework == pc = "run" /\ type \in DOMAIN Framework
RunUnchanged == UNCHANGED <<rest, scene, last, selected, attempt, ended, mutex>>

Traced(t, agent, status) ==
    IF Framework[type].traced THEN RecordSubtask(t, agent, status) ELSE t

EventMessage(agent) ==
    /\ InFramework
    /\ Len(task.traces) < MaxEvents
    /\ task' = Traced(task, agent, "completed")
    /\ UNCHANGED <<pc, place, peers, answered, counted>>
    /\ RunUnchanged

EventError(agent) ==
    /\ InFramework
    /\ Fail(AddErrors(Traced(task, agent, "failed"), Framework[type].errors))
    /\ UNCHANGED <<place, peers>>
    /\ RunUnchanged

EventsEnd ==
    /\ InFramework
    /\ Succeed(task)
    /\ UNCHANGED <<place, peers>>
    /\ RunUnchanged

-----------------------------------------------------------------------------
(* Workflow: RunSubTask for each node of the graph, in the order of its edges *)

Node == Profiles[place.at]

SubTaskSucceeds ==
    /\ pc = "run" /\ type = "workflow"
    /\ LET t == RecordSubtask(task, Node, "completed")
       IN  IF place.at = Len(Profiles)
           THEN Succeed(t) /\ UNCHANGED place
           ELSE /\ task' = t
                /\ place' = [at |-> place.at + 1, failed |-> 0]
                /\ UNCHANGED <<pc, answered, counted>>
    /\ UNCHANGED peers
    /\ RunUnchanged

SubTaskFails ==
    /\ pc = "run" /\ type = "workflow"
    /\ LET t == RecordSubtask(task, Node, "failed")
       IN  IF place.failed + 1 < MaxRetries
           THEN /\ task' = t
                /\ place' = [place EXCEPT !.failed = @ + 1]
                /\ UNCHANGED <<pc, answered, counted>>
           ELSE Fail(AddErrors(t, 1)) /\ UNCHANGED place
    /\ UNCHANGED peers
    /\ RunUnchanged

(* The analyst's two inputs carry keys of the same name: the framework may  *)
(* refuse to merge them.                                                   *)
MergeFails ==
    /\ pc = "run" /\ type = "workflow"
    /\ place = [at |-> Len(Profiles), failed |-> 0]
    /\ Fail(AddErrors(task, 1))
    /\ UNCHANGED <<place, peers>>
    /\ RunUnchanged

-----------------------------------------------------------------------------
(* Peer: a goroutine per profile, their traces appended under a mutex       *)

MutMutexFree == TRUE   \* Mutant: the traces are appended without the mutex.
MutexFree == mutex = 0

PeerLock(i) ==
    /\ pc = "run" /\ type = "peer"
    /\ peers[i].at = "running"
    /\ MutexFree
    /\ mutex' = i
    /\ peers' = [peers EXCEPT ![i] = Goroutine("append", task)]
    /\ UNCHANGED <<pc, rest, scene, last, selected, attempt, ended, task, place,
                   answered, counted>>

PeerUnlock(i) ==
    /\ pc = "run" /\ type = "peer"
    /\ peers[i].at = "append"
    /\ task' = AddStepTrace(peers[i].sees, i, Profiles[i], "completed")
    /\ peers' = [peers EXCEPT ![i].at = "done"]
    /\ mutex' = 0
    /\ UNCHANGED <<pc, rest, scene, last, selected, attempt, ended, place,
                   answered, counted>>

PeersDone ==
    /\ pc = "run" /\ type = "peer"
    /\ \A i \in DOMAIN Profiles : peers[i].at = "done"
    /\ Succeed(task)
    /\ UNCHANGED <<place, peers>>
    /\ RunUnchanged

-----------------------------------------------------------------------------
(* Debate and committee: one profile after the other; the context is looked *)
(* at before a round, or before a member.                                  *)

Speeches == IF type = "debate" THEN MaxRounds * Len(Profiles) ELSE Len(Profiles)
Speaker == Profiles[((place.at - 1) % Len(Profiles)) + 1]
ChecksContext == type = "committee" \/ (place.at - 1) % Len(Profiles) = 0
InSpeech == pc = "run" /\ type \in {"debate", "committee"} /\ place.at <= Speeches

Speak ==
    /\ InSpeech
    /\ ended = "no" \/ ~ChecksContext
    /\ task' = AddStepTrace(task, place.at, Speaker, "completed")
    /\ place' = [place EXCEPT !.at = @ + 1]
    /\ UNCHANGED <<pc, peers, answered, counted>>
    /\ RunUnchanged

SpeechCancelled ==
    /\ InSpeech
    /\ ended # "no" /\ ChecksContext
    /\ Fail(AddErrors(task, 1))
    /\ UNCHANGED <<place, peers>>
    /\ RunUnchanged

Conclude ==
    /\ pc = "run" /\ type \in {"debate", "committee"}
    /\ place.at > Speeches
    /\ Succeed(IF type = "committee"
               THEN AddStepTrace(task, place.at, "task_planner", "completed")
               ELSE task)
    /\ UNCHANGED <<place, peers>>
    /\ RunUnchanged

-----------------------------------------------------------------------------

Step ==
    \/ Execute
    \/ Create \/ CreateFails \/ Reply \/ Respond \/ ReAct
    \/ \E agent \in Range(Profiles) : EventMessage(agent) \/ EventError(agent)
    \/ EventsEnd
    \/ SubTaskSucceeds \/ SubTaskFails \/ MergeFails
    \/ \E i \in DOMAIN Profiles : PeerLock(i) \/ PeerUnlock(i)
    \/ PeersDone
    \/ Speak \/ SpeechCancelled \/ Conclude

Next ==
    \/ \E m \in Messages, reply \in Replies, seen \in LastSeen :
           Select(m, reply, seen)
    \/ ExecuteTask \/ RunAgent \/ AnalyzeStock
    \/ \E whose \in {"execution", "request"} : ContextEnds(whose)
    \/ Step
    \/ pc = "done" /\ UNCHANGED vars

(* An execution and its goroutines run on: sleeps and model calls return    *)
(* (Generate by its context's deadline).  Nothing makes a user ask.        *)
Spec == Init /\ [][Next]_vars /\ WF_vars(Step)

-----------------------------------------------------------------------------
(* Properties                                                              *)

TraceStatuses(agent) ==
    {task.traces[i].status : i \in {j \in DOMAIN task.traces : task.traces[j].agent = agent}}

(* A turn is answered with content only by an execution that completed and  *)
(* whose trace holds no step of an earlier try; it is answered with an     *)
(* error only when every allowed try has failed, or when the coordinator    *)
(* type is unknown to the factory (ExecuteComplexTask's loop); a ReAct turn  *)
(* is answered when the model concluded or its steps ran out; and           *)
(* AnalyzeStock says 200 of answered tasks alone.                          *)
AnswersEarned ==
    /\ pc = "reply" /\ ~ReActEnded =>
           IF answered
           THEN /\ task.status = "completed"
                /\ \A i \in DOMAIN task.traces : task.traces[i].try = attempt
           ELSE \/ type \notin Coordinators
                \/ attempt = MaxRetries /\ task.status = "failed" /\ task.errors > 0
    /\ pc = "reply" /\ ReActEnded =>
           /\ answered
           /\ thoughts[Len(thoughts)].seen = "answer" \/ Len(thoughts) = MaxSteps
    /\ entry = "analyze" /\ http = 200 => answered

(* When a coordinator's execution completes, CurrentStep counts the traces   *)
(* and no step is missing: a trace of every peer whatever the order of the  *)
(* goroutines, of every committee member, of every node of the workflow,    *)
(* whose traces are numbered in the order they ran (AddStepTrace,           *)
(* recordSubtask, the peer coordinator's mutex).                            *)
TracesComplete ==
    pc = "reply" /\ answered /\ ~ReActEnded =>
        /\ task.step = Len(task.traces)
        /\ type \in {"peer", "committee", "workflow"} =>
               \A p \in Range(Profiles) : "completed" \in TraceStatuses(p)
        /\ type = "workflow" =>
               \A i \in DOMAIN task.traces : task.traces[i].id = i

(* An agent turn is answered, however its executions fail, its context     *)
(* ends and its goroutines interleave.                                     *)
TurnEnds == pc \notin {"idle", "done"} ~> pc \in {"idle", "done"}
=============================================================================

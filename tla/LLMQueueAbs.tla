---------------------------- MODULE LLMQueueAbs ----------------------------
(***************************************************************************)
(* What the LLM queue promises its callers, without locks, goroutines or    *)
(* channels: a bounded FIFO queue in front of a bounded set of running      *)
(* requests, in which every accepted request is answered once and holds its *)
(* slot until after its answer.  LLMQueue implements it (property AbsSpec). *)
(***************************************************************************)
EXTENDS Naturals, Sequences, FiniteSets

CONSTANTS Requests, MaxQueueSize, MaxConcurrency

VARIABLES
  queue,    \* accepted requests nobody has started yet, in order of arrival
  running,  \* requests that hold a slot
  answered  \* requests whose answer has been decided

absVars == <<queue, running, answered>>

InQueue(r) == \E i \in DOMAIN queue : queue[i] = r

AbsInit == queue = <<>> /\ running = {} /\ answered = {}

Accept(r) ==
  /\ ~InQueue(r) /\ r \notin running \cup answered
  /\ Len(queue) < MaxQueueSize
  /\ queue' = Append(queue, r)
  /\ UNCHANGED <<running, answered>>

\* Only the oldest request starts, and only into a free slot.
Start ==
  /\ queue # <<>> /\ Head(queue) \notin answered
  /\ Cardinality(running) < MaxConcurrency
  /\ running' = running \cup {Head(queue)}
  /\ queue' = Tail(queue)
  /\ UNCHANGED answered

\* The oldest request is answered without being started.
Drop ==
  /\ queue # <<>> /\ Head(queue) \notin answered
  /\ answered' = answered \cup {Head(queue)}
  /\ queue' = Tail(queue)
  /\ UNCHANGED running

\* Any queued request may be answered where it stands ...
Expire(r) ==
  /\ InQueue(r) /\ r \notin answered
  /\ answered' = answered \cup {r}
  /\ UNCHANGED <<queue, running>>

\* ... and such requests leave together; the others keep their order.
Members(q) == {q[i] : i \in DOMAIN q}
Before(q, x, y) == \E i, j \in DOMAIN q : i < j /\ q[i] = x /\ q[j] = y

Purge ==
  /\ queue' \in Seq(Requests)
  /\ Members(queue') = Members(queue) \ answered
  /\ \A i, j \in DOMAIN queue' : i < j => Before(queue, queue'[i], queue'[j])
  /\ UNCHANGED <<running, answered>>

Answer(r) ==
  /\ r \in running \ answered
  /\ answered' = answered \cup {r}
  /\ UNCHANGED <<queue, running>>

Release(r) ==
  /\ r \in running \cap answered
  /\ running' = running \ {r}
  /\ UNCHANGED <<queue, answered>>

AbsNext ==
  \/ \E r \in Requests : Accept(r) \/ Expire(r) \/ Answer(r) \/ Release(r)
  \/ Start \/ Drop \/ Purge

AbsSpec == AbsInit /\ [][AbsNext]_absVars
=============================================================================

------------------------------ MODULE ToolGuard ------------------------------
(***************************************************************************)
(* ToolGuard.Run (eino/tools/guard.go): concurrent calls of one tool, each  *)
(* retried by DoWithErrorHandler (pkg/retry/retry.go) inside one Execute of *)
(* the tool's circuit breaker (pkg/circuitbreaker/breaker.go).  Tools share *)
(* nothing: breakerFor gives each name a breaker of its own.                *)
(*                                                                          *)
(* beforeCall and afterCall hold the breaker's mutex and are one action     *)
(* each; between them any number of other calls may come and go.  A call    *)
(* that returned may be made again.  Results, degraded texts, delays'       *)
(* lengths and metrics are left out.                                        *)
(***************************************************************************)
EXTENDS Integers, Sequences

CONSTANTS
  Calls,             \* the goroutines that call Run
  FailureThreshold,  \* cfg.FailureThreshold
  SuccessThreshold,  \* cfg.SuccessThreshold
  MaxAttempts,       \* retryCfg.MaxAttempts; 1 for a tool that is not retried
  HistorySize,       \* bound: how many reports the history keeps
  FaultBudget        \* bound: failing attempts in a behaviour

\* New and NewToolGuard replace values that are not positive by their defaults.
ASSUME GuardAssumption ==
  /\ FailureThreshold \in Nat \ {0} /\ SuccessThreshold \in Nat \ {0}
  /\ MaxAttempts \in Nat \ {0} /\ FaultBudget \in Nat
  /\ HistorySize \in Nat
  /\ HistorySize >= FailureThreshold /\ HistorySize >= SuccessThreshold

VARIABLES
  current,       \* b.current
  failures,      \* b.failures
  halfOpenWins,  \* b.halfOpenWins
  cooled,        \* OpenTimeout has passed since b.openedAt
  pc,            \* pc[c]: where Run is
  attempt,       \* attempt[c]: attempts made by the Run under way
  outcome,       \* outcome[c]: what DoWithErrorHandler returned
  answer,        \* answer[c]: what the last Run returned
  ctxDone,       \* calls whose context has ended
  recent,        \* history: the last reports since current was last set
  faults         \* what is left of FaultBudget

breakerVars == <<current, failures, halfOpenWins, cooled, recent>>
callVars    == <<pc, attempt, outcome, answer, ctxDone>>
vars == <<breakerVars, callVars, faults>>

Init ==
  /\ current = "closed" /\ failures = 0 /\ halfOpenWins = 0 /\ cooled = FALSE
  /\ pc = [c \in Calls |-> "idle"] /\ attempt = [c \in Calls |-> 0]
  /\ outcome = [c \in Calls |-> "none"] /\ answer = [c \in Calls |-> "none"]
  /\ ctxDone = {} /\ recent = <<>> /\ faults = FaultBudget

-----------------------------------------------------------------------------
(* The breaker.                                                             *)

\* Setting the state starts a new history; opening stamps openedAt.
Enter(state) == current' = state /\ recent' = <<>> /\ cooled' = FALSE
Stay(k) ==
  /\ recent' = LET s == Append(recent, k)
               IN  IF Len(s) > HistorySize THEN Tail(s) ELSE s
  /\ UNCHANGED <<current, cooled>>

\* beforeCall lets a call through.
\* (Mutant: the open breaker lets it through as it is.)
MutAdmitted ==
  \/ current = "open" /\ cooled /\ UNCHANGED breakerVars
  \/ current # "open" /\ UNCHANGED breakerVars
Admitted ==
  \/ current = "open" /\ cooled
     /\ Enter("halfOpen") /\ halfOpenWins' = 0 /\ UNCHANGED failures
  \/ current # "open" /\ UNCHANGED breakerVars

\* (Mutants: a success leaves the count of failures alone; so does closing.)
MutSuccessKeepsFailures ==
  \/ /\ current = "halfOpen" /\ halfOpenWins + 1 >= SuccessThreshold
     /\ Enter("closed") /\ failures' = 0 /\ halfOpenWins' = 0
  \/ /\ current = "halfOpen" /\ halfOpenWins + 1 < SuccessThreshold
     /\ Stay("ok") /\ halfOpenWins' = halfOpenWins + 1 /\ UNCHANGED failures
  \/ current = "closed" /\ Stay("ok") /\ UNCHANGED <<failures, halfOpenWins>>
  \/ current = "open" /\ Stay("ok") /\ UNCHANGED <<failures, halfOpenWins>>
MutCloseKeepsFailures ==
  \/ /\ current = "halfOpen" /\ halfOpenWins + 1 >= SuccessThreshold
     /\ Enter("closed") /\ halfOpenWins' = 0 /\ UNCHANGED failures
  \/ /\ current = "halfOpen" /\ halfOpenWins + 1 < SuccessThreshold
     /\ Stay("ok") /\ halfOpenWins' = halfOpenWins + 1 /\ UNCHANGED failures
  \/ current = "closed" /\ Stay("ok") /\ failures' = 0 /\ UNCHANGED halfOpenWins
  \/ current = "open" /\ Stay("ok") /\ UNCHANGED <<failures, halfOpenWins>>
OnSuccess ==
  \/ /\ current = "halfOpen" /\ halfOpenWins + 1 >= SuccessThreshold
     /\ Enter("closed") /\ failures' = 0 /\ halfOpenWins' = 0
  \/ /\ current = "halfOpen" /\ halfOpenWins + 1 < SuccessThreshold
     /\ Stay("ok") /\ halfOpenWins' = halfOpenWins + 1 /\ UNCHANGED failures
  \/ current = "closed" /\ Stay("ok") /\ failures' = 0 /\ UNCHANGED halfOpenWins
  \/ current = "open" /\ Stay("ok") /\ UNCHANGED <<failures, halfOpenWins>>

OnFailure ==
  /\ failures' = failures + 1
  /\ \/ current = "halfOpen" /\ Enter("open") /\ halfOpenWins' = 0
     \/ /\ current = "closed" /\ failures + 1 >= FailureThreshold
        /\ Enter("open") /\ UNCHANGED halfOpenWins
     \/ /\ current = "closed" /\ failures + 1 < FailureThreshold
        /\ Stay("error") /\ UNCHANGED halfOpenWins
     \/ current = "open" /\ Stay("error") /\ UNCHANGED halfOpenWins

\* time.Since(b.openedAt) reaches cfg.OpenTimeout.
Cool ==
  /\ current = "open" /\ ~cooled
  /\ cooled' = TRUE
  /\ UNCHANGED <<current, failures, halfOpenWins, recent, callVars, faults>>

-----------------------------------------------------------------------------
(* A call of Run.                                                           *)

Goto(c, where) == pc' = [pc EXCEPT ![c] = where]
Answer(c, a) == answer' = [answer EXCEPT ![c] = a]

\* beforeCall, and the first attempt of an admitted call.
Admit(c) ==
  /\ pc[c] = "idle" /\ Admitted
  /\ Goto(c, "try") /\ attempt' = [attempt EXCEPT ![c] = 1]
  /\ UNCHANGED <<outcome, answer, ctxDone, faults>>

\* ErrOpen: a degraded text and no error, the tool is not called.
Refuse(c) ==
  /\ pc[c] = "idle" /\ current = "open" /\ ~cooled
  /\ Answer(c, "circuitOpen")
  /\ UNCHANGED <<breakerVars, pc, attempt, outcome, ctxDone, faults>>

\* The retry loop ends with result k.
Done(c, k) == Goto(c, "report") /\ outcome' = [outcome EXCEPT ![c] = k]

\* (Mutant: one attempt too many.)
MutTriesAgain(c) == attempt[c] <= MaxAttempts
TriesAgain(c) == attempt[c] < MaxAttempts

\* The tool succeeds.
ToolSucceeds(c) ==
  /\ pc[c] = "try"
  /\ Done(c, "ok")
  /\ UNCHANGED <<breakerVars, attempt, answer, ctxDone, faults>>

\* It fails, with an error that is temporary (a timeout of the attempt among
\* them) or not; a tool that is not retried has MaxAttempts = 1.
ToolFails(c) ==
  /\ pc[c] = "try" /\ faults > 0
  /\ faults' = faults - 1
  /\ \/ Done(c, "error")
     \/ TriesAgain(c) /\ Goto(c, "delay") /\ UNCHANGED outcome
  /\ UNCHANGED <<breakerVars, attempt, answer, ctxDone>>

\* The delay before the next attempt, or the end of the context in it.
DelayOver(c) ==
  /\ pc[c] = "delay"
  /\ Goto(c, "try") /\ attempt' = [attempt EXCEPT ![c] = @ + 1]
  /\ UNCHANGED <<breakerVars, outcome, answer, ctxDone, faults>>

DelayCtx(c) ==
  /\ pc[c] = "delay" /\ c \in ctxDone
  /\ Done(c, "error")
  /\ UNCHANGED <<breakerVars, attempt, answer, ctxDone, faults>>

\* The caller gives up; only the delay looks.
CtxEnd(c) ==
  /\ pc[c] \in {"try", "delay"} /\ c \notin ctxDone
  /\ ctxDone' = ctxDone \cup {c}
  /\ UNCHANGED <<breakerVars, pc, attempt, outcome, answer, faults>>

\* afterCall, and Run returns.
Report(c) ==
  /\ pc[c] = "report"
  /\ IF outcome[c] = "ok" THEN OnSuccess ELSE OnFailure
  /\ Goto(c, "idle") /\ attempt' = [attempt EXCEPT ![c] = 0]
  /\ Answer(c, outcome[c]) /\ outcome' = [outcome EXCEPT ![c] = "none"]
  /\ ctxDone' = ctxDone \ {c}
  /\ UNCHANGED faults

-----------------------------------------------------------------------------
Step(c) == ToolSucceeds(c) \/ ToolFails(c) \/ DelayOver(c) \/ DelayCtx(c) \/ Report(c)
Next == Cool \/ \E c \in Calls : Admit(c) \/ Refuse(c) \/ Step(c) \/ CtxEnd(c)

Spec == Init /\ [][Next]_vars

\* Time passes, and a call that was let through goes on: every attempt has a
\* context with a timeout, so the tool returns.  Nobody has to call.
FairSpec == Spec /\ WF_vars(Cool) /\ \A c \in Calls : WF_vars(Step(c))

-----------------------------------------------------------------------------
(* Properties.                                                              *)

\* The variables have their types, and no Run makes more than MaxAttempts
\* attempts.
BreakerType ==
  /\ current \in {"closed", "open", "halfOpen"}
  /\ failures \in Nat /\ halfOpenWins \in Nat
  /\ recent \in Seq({"ok", "error"}) /\ Len(recent) <= HistorySize
CallType ==
  /\ pc \in [Calls -> {"idle", "try", "delay", "report"}]
  /\ attempt \in [Calls -> 0..MaxAttempts]
  /\ \A c \in Calls : pc[c] = "delay" => attempt[c] < MaxAttempts
  /\ outcome \in [Calls -> {"none", "ok", "error"}]
  /\ \A c \in Calls : pc[c] = "report" <=> outcome[c] # "none"
  /\ answer \in [Calls -> {"none", "ok", "error", "circuitOpen"}]
  /\ ctxDone \subseteq Calls /\ faults \in 0..FaultBudget
TypeOK == BreakerType /\ CallType /\ cooled \in BOOLEAN

\* The last n reports were failures, and the one before them, if any, was not.
FailedLast(s, n) == n <= Len(s) /\ \A i \in 1..Len(s) : i > Len(s) - n => s[i] = "error"
Streak(n) == FailedLast(recent, n) /\ (n < Len(recent) => recent[Len(recent) - n] = "ok")

\* Whatever calls overlap and in whatever order they report, the counters say
\* what has been reported in the present state: failures the failures in a row
\* since the breaker closed, halfOpenWins the successes since it half opened;
\* and neither has reached its threshold.  (onSuccess, onFailure, beforeCall.)
CountersExact ==
  /\ current = "closed" => failures < FailureThreshold /\ Streak(failures)
  /\ current = "halfOpen" => /\ halfOpenWins < SuccessThreshold
                             /\ halfOpenWins = Len(recent)
                             /\ \A i \in 1..Len(recent) : recent[i] = "ok"
  /\ current # "halfOpen" => halfOpenWins = 0

\* The breaker changes its state only for the reasons Config gives: it opens on
\* FailureThreshold failures in a row or on one failure while half open, half
\* opens after OpenTimeout, closes after SuccessThreshold successes in a row.
Reported(k) ==
  \E c \in Calls : pc[c] = "report" /\ pc'[c] = "idle" /\ outcome[c] = k
StateChange ==
  \/ /\ current = "closed" /\ current' = "open"
     /\ Reported("error") /\ FailedLast(recent, FailureThreshold - 1)
  \/ current = "open" /\ current' = "halfOpen" /\ cooled
  \/ /\ current = "halfOpen" /\ current' = "closed"
     /\ Reported("ok") /\ Len(recent) = SuccessThreshold - 1
     /\ \A i \in 1..Len(recent) : recent[i] = "ok"
  \/ current = "halfOpen" /\ current' = "open" /\ Reported("error")
ChangesForReason == [][current' # current => StateChange]_vars

\* If the tool works from some time on (FaultBudget is finite) and calls keep
\* being let through, the breaker closes for good, late reports notwithstanding.
Recovers ==
  (\E c \in Calls : []<><<Admit(c)>>_vars) => <>[](current = "closed")
=============================================================================

--------------------------- MODULE ToolGuardProofs ---------------------------
(***************************************************************************)
(* Theorems about ToolGuard for any number of calls, any thresholds and     *)
(* any number of faults.  TypeOK and CountersExact are inductive together:  *)
(* that a report leaves the counters exact needs their types and the length *)
(* of the history, which HistorySize >= the thresholds makes sufficient.    *)
(***************************************************************************)
EXTENDS ToolGuard, TLAPS

IInv == TypeOK /\ CountersExact

\* A report that does not change the state is the last of the history, which
\* loses its first entry when it would grow too long.
LEMMA StayFacts ==
  ASSUME BreakerType, NEW k \in {"ok", "error"}, Stay(k)
  PROVE  /\ recent' \in Seq({"ok", "error"}) /\ Len(recent') <= HistorySize
         /\ \/ /\ Len(recent') = Len(recent) + 1 /\ Len(recent) < HistorySize
               /\ \A i \in 1..Len(recent) : recent'[i] = recent[i]
            \/ /\ Len(recent') = Len(recent) /\ Len(recent) = HistorySize
               /\ \A i \in 1..(Len(recent) - 1) : recent'[i] = recent[i + 1]
         /\ Len(recent') > 0
         /\ recent'[Len(recent')] = k
<1> DEFINE s == Append(recent, k)
<1>1. /\ s \in Seq({"ok", "error"}) /\ Len(s) = Len(recent) + 1 /\ s[Len(s)] = k
      /\ \A i \in 1..Len(recent) : s[i] = recent[i]
  BY DEF BreakerType
<1>2. Len(recent) \in Nat /\ HistorySize \in Nat \ {0} /\ Len(recent) <= HistorySize
  BY GuardAssumption DEF BreakerType
<1>3. CASE Len(s) > HistorySize
  <2>1. recent' = Tail(s)
    BY <1>3 DEF Stay
  <2>2. /\ Tail(s) \in Seq({"ok", "error"}) /\ Len(Tail(s)) = Len(recent)
        /\ \A i \in 1..Len(recent) : Tail(s)[i] = s[i + 1]
    BY <1>1, <1>2
  <2> HIDE DEF s
  <2> QED
    BY <1>1, <1>2, <1>3, <2>1, <2>2
<1>4. CASE ~(Len(s) > HistorySize)
  <2>1. recent' = s
    BY <1>4 DEF Stay
  <2> HIDE DEF s
  <2> QED
    BY <1>1, <1>2, <1>4, <2>1
<1> QED
  BY <1>3, <1>4

\* The initial state.
LEMMA InitIInv == Init => IInv
<1> SUFFICES ASSUME Init PROVE IInv
  OBVIOUS
<1>1. BreakerType /\ CountersExact
  BY GuardAssumption DEF Init, BreakerType, CountersExact, Streak, FailedLast
<1>2. CallType
  BY GuardAssumption DEF Init, CallType
<1>3. cooled \in BOOLEAN
  BY DEF Init
<1> QED
  BY <1>1, <1>2, <1>3 DEF IInv, TypeOK

\* A success keeps the breaker typed and its counters exact.
LEMMA SuccessStep ==
  ASSUME BreakerType, CountersExact, OnSuccess
  PROVE  BreakerType' /\ CountersExact'
<1> USE GuardAssumption
<1>1. CASE /\ current = "halfOpen" /\ halfOpenWins + 1 >= SuccessThreshold
           /\ Enter("closed") /\ failures' = 0 /\ halfOpenWins' = 0
  <2>1. current' = "closed" /\ recent' = <<>>
    BY <1>1 DEF Enter
  <2> QED
    BY <1>1, <2>1 DEF BreakerType, CountersExact, Streak, FailedLast
<1>2. CASE /\ current = "halfOpen" /\ halfOpenWins + 1 < SuccessThreshold
           /\ Stay("ok") /\ halfOpenWins' = halfOpenWins + 1 /\ UNCHANGED failures
  <2>1. current' = "halfOpen"
    BY <1>2 DEF Stay
  <2>2. /\ Len(recent) \in Nat /\ Len(recent) < HistorySize /\ halfOpenWins = Len(recent)
        /\ \A i \in 1..Len(recent) : recent[i] = "ok"
    BY <1>2 DEF CountersExact, BreakerType
  <2>3. /\ Len(recent') = Len(recent) + 1 /\ recent'[Len(recent')] = "ok"
        /\ \A i \in 1..Len(recent) : recent'[i] = recent[i]
        /\ recent' \in Seq({"ok", "error"}) /\ Len(recent') <= HistorySize
    BY <1>2, <2>2, StayFacts
  <2> QED
    BY <1>2, <2>1, <2>2, <2>3 DEF BreakerType, CountersExact
<1>3. CASE current = "closed" /\ Stay("ok") /\ failures' = 0 /\ UNCHANGED halfOpenWins
  <2>1. current' = "closed"
    BY <1>3 DEF Stay
  <2>2. /\ recent' \in Seq({"ok", "error"}) /\ Len(recent') <= HistorySize
        /\ Len(recent') > 0 /\ recent'[Len(recent')] = "ok"
    BY <1>3, StayFacts
  <2> QED
    BY <1>3, <2>1, <2>2 DEF BreakerType, CountersExact, Streak, FailedLast
<1>4. CASE current = "open" /\ Stay("ok") /\ UNCHANGED <<failures, halfOpenWins>>
  BY <1>4, StayFacts DEF BreakerType, CountersExact, Stay
<1> QED
  BY <1>1, <1>2, <1>3, <1>4 DEF OnSuccess

\* So does a failure.
LEMMA FailureStep ==
  ASSUME BreakerType, CountersExact, OnFailure
  PROVE  BreakerType' /\ CountersExact'
<1> USE GuardAssumption
<1>0. failures' = failures + 1
  BY DEF OnFailure
<1>1. CASE current = "halfOpen" /\ Enter("open") /\ halfOpenWins' = 0
  BY <1>0, <1>1 DEF BreakerType, CountersExact, Enter
<1>2. CASE /\ current = "closed" /\ failures + 1 >= FailureThreshold
           /\ Enter("open") /\ UNCHANGED halfOpenWins
  BY <1>0, <1>2 DEF BreakerType, CountersExact, Enter
<1>3. CASE /\ current = "closed" /\ failures + 1 < FailureThreshold
           /\ Stay("error") /\ UNCHANGED halfOpenWins
  <2>1. /\ Len(recent) \in Nat /\ failures \in Nat
        /\ failures <= Len(recent)
        /\ \A i \in 1..Len(recent) : i > Len(recent) - failures => recent[i] = "error"
        /\ failures < Len(recent) => recent[Len(recent) - failures] = "ok"
    BY <1>3 DEF BreakerType, CountersExact, Streak, FailedLast
  <2>2. /\ recent' \in Seq({"ok", "error"}) /\ Len(recent') <= HistorySize
        /\ Len(recent') > 0 /\ recent'[Len(recent')] = "error"
    BY <1>3, StayFacts
  <2>3. current' = "closed" /\ failures' < FailureThreshold /\ halfOpenWins' = 0
    BY <1>0, <1>3 DEF Stay, CountersExact
  <2>4. CASE /\ Len(recent') = Len(recent) + 1
             /\ \A i \in 1..Len(recent) : recent'[i] = recent[i]
    BY <1>0, <2>1, <2>2, <2>3, <2>4 DEF CountersExact, Streak, FailedLast, BreakerType
  <2>5. CASE /\ Len(recent') = Len(recent) /\ Len(recent) = HistorySize
             /\ \A i \in 1..(Len(recent) - 1) : recent'[i] = recent[i + 1]
    BY <1>0, <1>3, <2>1, <2>2, <2>3, <2>5
    DEF CountersExact, Streak, FailedLast, BreakerType
  <2> QED
    BY <1>3, <2>4, <2>5, StayFacts
<1>4. CASE current = "open" /\ Stay("error") /\ UNCHANGED halfOpenWins
  BY <1>0, <1>4, StayFacts DEF BreakerType, CountersExact, Stay
<1> QED
  BY <1>1, <1>2, <1>3, <1>4 DEF OnFailure

\* A step that leaves the breaker alone.
LEMMA SameBreaker ==
  ASSUME IInv, UNCHANGED breakerVars
  PROVE  BreakerType' /\ CountersExact' /\ cooled' \in BOOLEAN
BY DEF IInv, TypeOK, BreakerType, CountersExact, Streak, FailedLast, breakerVars

\* Every step keeps the inductive invariant.
LEMMA NextIInv == IInv /\ [Next]_vars => IInv'
<1> SUFFICES ASSUME IInv, [Next]_vars PROVE IInv'
  OBVIOUS
<1> USE GuardAssumption
<1>1. CASE Cool
  <2>1. CallType'
    BY <1>1 DEF Cool, IInv, TypeOK, CallType, callVars
  <2>2. BreakerType' /\ CountersExact'
    BY <1>1
    DEF Cool, IInv, TypeOK, BreakerType, CountersExact, Streak, FailedLast
  <2>3. cooled' \in BOOLEAN
    BY <1>1 DEF Cool
  <2> QED
    BY <2>1, <2>2, <2>3 DEF IInv, TypeOK
<1>2. ASSUME NEW c \in Calls, Admit(c) PROVE IInv'
  <2>1. CallType'
    BY <1>2 DEF Admit, Goto, IInv, TypeOK, CallType
  <2>2. CASE /\ current = "open" /\ cooled
             /\ Enter("halfOpen") /\ halfOpenWins' = 0 /\ UNCHANGED failures
    <3>1. current' = "halfOpen" /\ recent' = <<>> /\ cooled' \in BOOLEAN
      BY <2>2 DEF Enter
    <3> QED
      BY <2>1, <2>2, <3>1 DEF IInv, TypeOK, BreakerType, CountersExact
  <2>3. CASE UNCHANGED breakerVars
    BY <2>1, <2>3, SameBreaker DEF IInv, TypeOK
  <2> QED
    BY <1>2, <2>2, <2>3 DEF Admit, Admitted
<1>3. ASSUME NEW c \in Calls, \/ Refuse(c) \/ ToolSucceeds(c) \/ ToolFails(c)
                              \/ DelayOver(c) \/ DelayCtx(c) \/ CtxEnd(c)
      PROVE IInv'
  <2>1. UNCHANGED breakerVars
    BY <1>3 DEF Refuse, ToolSucceeds, ToolFails, DelayOver, DelayCtx, CtxEnd
  <2>2. CallType'
    BY <1>3
    DEF Refuse, ToolSucceeds, ToolFails, TriesAgain, DelayOver, DelayCtx, CtxEnd, Goto,
        Done, Answer, IInv, TypeOK, CallType
  <2> QED
    BY <2>1, <2>2, SameBreaker DEF IInv, TypeOK
<1>4. ASSUME NEW c \in Calls, Report(c) PROVE IInv'
  <2>1. OnSuccess \/ OnFailure
    BY <1>4 DEF Report
  <2>2. BreakerType' /\ CountersExact'
    BY <2>1, SuccessStep, FailureStep DEF IInv, TypeOK
  <2>3. cooled' \in BOOLEAN
    BY <2>1 DEF OnSuccess, OnFailure, Enter, Stay, IInv, TypeOK
  <2>4. CallType'
    BY <1>4 DEF Report, Goto, Answer, IInv, TypeOK, CallType
  <2> QED
    BY <2>2, <2>3, <2>4 DEF IInv, TypeOK
<1>5. CASE UNCHANGED vars
  BY <1>5, SameBreaker DEF vars, callVars, IInv, TypeOK, CallType
<1> QED
  BY <1>1, <1>2, <1>3, <1>4, <1>5 DEF Next, Step

\* TypeOK and CountersExact hold in every reachable state.
LEMMA Invariance == Spec => []IInv
<1> QED
  BY InitIInv, NextIInv, PTL DEF Spec

\* Every variable keeps its type and no Run makes more than MaxAttempts attempts
\* (DoWithErrorHandler).
THEOREM GuardTypeCorrect == Spec => []TypeOK
<1>1. IInv => TypeOK
  BY DEF IInv
<1> QED
  BY <1>1, Invariance, PTL

\* The breaker's counters say what was reported in its present state, in
\* whatever order the overlapping calls report (onSuccess, onFailure).
THEOREM CountersCorrect == Spec => []CountersExact
<1>1. IInv => CountersExact
  BY DEF IInv
<1> QED
  BY <1>1, Invariance, PTL

\* The breaker changes its state only for the reasons its Config gives.
THEOREM StateChangesJustified == Spec => ChangesForReason
<1> USE GuardAssumption
<1>1. IInv /\ [Next]_vars => [current' # current => StateChange]_vars
  <2> SUFFICES ASSUME IInv, Next, current' # current PROVE StateChange
    BY DEF vars
  <2>1. CASE Cool
    BY <2>1 DEF Cool
  <2>2. ASSUME NEW c \in Calls, Admit(c) PROVE StateChange
    <3>1. current = "open" /\ cooled /\ Enter("halfOpen")
      BY <2>2 DEF Admit, Admitted, breakerVars
    <3> QED
      BY <3>1 DEF Enter, StateChange
  <2>3. ASSUME NEW c \in Calls, \/ Refuse(c) \/ ToolSucceeds(c) \/ ToolFails(c)
                                \/ DelayOver(c) \/ DelayCtx(c) \/ CtxEnd(c)
        PROVE FALSE
    BY <2>3 DEF Refuse, ToolSucceeds, ToolFails, DelayOver, DelayCtx, CtxEnd, breakerVars
  <2>4. ASSUME NEW c \in Calls, Report(c) PROVE StateChange
    <3>1. BreakerType /\ CountersExact /\ outcome[c] \in {"ok", "error"}
      BY <2>4 DEF Report, IInv, TypeOK, CallType
    <3>2. pc[c] = "report" /\ pc'[c] = "idle"
      BY <2>4 DEF Report, Goto, IInv, TypeOK, CallType
    <3>3. CASE outcome[c] = "ok"
      <4>1. Reported("ok")
        BY <3>2, <3>3 DEF Reported
      <4>2. /\ current = "halfOpen" /\ halfOpenWins + 1 >= SuccessThreshold
            /\ current' = "closed"
        BY <2>4, <3>3 DEF Report, OnSuccess, Stay, Enter
      <4>3. /\ Len(recent) = SuccessThreshold - 1
            /\ \A i \in 1..Len(recent) : recent[i] = "ok"
        BY <3>1, <4>2 DEF CountersExact, BreakerType
      <4> QED
        BY <4>1, <4>2, <4>3 DEF StateChange
    <3>4. CASE outcome[c] # "ok"
      <4>1. OnFailure
        BY <2>4, <3>4 DEF Report
      <4>2. Reported("error")
        BY <2>4, <3>2, <3>4, <3>1 DEF Reported
      <4>3. CASE current = "halfOpen" /\ Enter("open")
        BY <4>2, <4>3 DEF StateChange, Enter
      <4>4. CASE current = "closed" /\ failures + 1 >= FailureThreshold /\ Enter("open")
        <5>1. failures = FailureThreshold - 1 /\ FailedLast(recent, failures)
          BY <3>1, <4>4 DEF CountersExact, BreakerType, Streak
        <5> QED
          BY <4>2, <4>4, <5>1 DEF StateChange, Enter
      <4> QED
        BY <4>1, <4>3, <4>4 DEF OnFailure, Stay
    <3> QED
      BY <3>3, <3>4
  <2> QED
    BY <2>1, <2>2, <2>3, <2>4 DEF Next, Step
<1> QED
  BY <1>1, Invariance, PTL DEF Spec, ChangesForReason
=============================================================================

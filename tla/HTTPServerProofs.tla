-------------------------- MODULE HTTPServerProofs --------------------------
(***************************************************************************)
(* The safety of the chain around the routes: of the timeout middleware, for *)
(* any number of chunks, of the rate limiter, for every capacity, rate,     *)
(* grain of the clock and number of requests, and of the two together.      *)
(* WriterInv says that the response belongs to the one who began it: once    *)
(* the status line is someone's, the flags of the writer say whose, and the *)
(* middleware leaves its select with one of them set.                       *)
(* LimiterInv follows the bucket instead of the log: what was admitted since *)
(* any decision, with the tokens that are left, is covered by a full bucket *)
(* and the time refilled since (Covered); and by the time of the latest     *)
(* decision nothing is owed any more, though Redis may have counted a late   *)
(* request's time backwards (Solvent).                                      *)
(***************************************************************************)
EXTENDS HTTPServer, TLAPS

-----------------------------------------------------------------------------
(* The timeout middleware                                                  *)

\* What the flags say of the response.
Begun ==
  /\ timedOut => status = "timeout" /\ authors = {"timeout"}
  /\ ~timedOut => authors \subseteq {status} /\ status # "timeout"
  /\ status = "handler" => wroteHeader
  /\ refused => timedOut

\* Nobody is left to begin it when the middleware has left its select.
LeftBegun ==
  /\ middleware \in {"leaving", "cut"} => wroteHeader \/ timedOut
  /\ middleware = "done" => handler = "returned"
  /\ wroteHeader /\ ~timedOut => status = "handler"

WriterInv == TypeOK /\ Begun /\ LeftBegun

LEMMA InitWriter == Init => WriterInv
<1> SUFFICES ASSUME Init PROVE WriterInv
  OBVIOUS
<1>a. chunks \in 0..MaxChunks
  BY WriterAssumption DEF Init
<1>b. handler = "work" /\ authors \subseteq {"handler", "timeout"}
  BY DEF Init
<1>1. TypeOK
  BY <1>a, <1>b, Zenon DEF Init, TypeOK, RequestType, WriterType
<1>2. Begun /\ LeftBegun
  BY DEF Init, Begun, LeftBegun
<1>3. QED
  BY <1>1, <1>2 DEF WriterInv

\* A write that is let through keeps flags and response in step: the response
\* is the handler's already or nobody has begun it and the middleware waits.
LEMMA WriteOkStep ==
  ASSUME WriterInv, handler # "returned", WriteOk
  PROVE  /\ wroteHeader' = TRUE /\ ~timedOut' /\ refused' = refused
         /\ status' = "handler" /\ authors' \subseteq {"handler"} /\ Begun' /\ WriterType'
<1> USE DEF WriteOk, SendBody, SendStatus, Returned
<1>1. Returned => wroteHeader
  BY DEF WriterInv, LeftBegun
<1>2. status' = "handler"
  BY <1>1 DEF WriterInv, TypeOK, WriterType, Begun, LeftBegun
<1>3. authors' \subseteq {"handler"}
  BY <1>1 DEF WriterInv, TypeOK, WriterType, Begun, LeftBegun
<1>4. ~timedOut' /\ refused' = refused /\ ~refused
  BY DEF WriterInv, Begun
<1>5. Begun'
  BY <1>2, <1>3, <1>4 DEF Begun
<1>6. WriterType'
  BY <1>2, <1>3, <1>4 DEF WriterInv, TypeOK, WriterType
<1>7. QED
  BY <1>2, <1>3, <1>4, <1>5, <1>6

LEMMA StepWriter == WriterInv /\ [Next]_vars => WriterInv'
<1> SUFFICES ASSUME WriterInv, [Next]_vars PROVE WriterInv'
  OBVIOUS
<1> USE DEF WriterInv, writer, response
<1>1. CASE CtxEnd
  BY <1>1 DEF CtxEnd, TypeOK, RequestType, WriterType, Begun, LeftBegun
<1>2. CASE HandlerDone
  BY <1>2 DEF HandlerDone, TypeOK, RequestType, WriterType, Begun, LeftBegun
<1>3. CASE CtxSeen
  <2>1. CASE wroteHeader /\ UNCHANGED <<writer, response>>
    BY <1>3, <2>1 DEF CtxSeen, TypeOK, RequestType, WriterType, Begun, LeftBegun
  <2>2. CASE ~wroteHeader /\ timedOut' = TRUE /\ SendBody("timeout") /\ UNCHANGED wroteHeader
    <3>1. status' = "timeout" /\ authors' = {"timeout"}
      BY <1>3, <2>2 DEF CtxSeen, SendBody, SendStatus, Returned, TypeOK, RequestType, WriterType, Begun
    <3>2. QED
      BY <1>3, <2>2, <3>1 DEF CtxSeen, TypeOK, RequestType, WriterType, Begun, LeftBegun
  <2>3. QED
    BY <1>3, <2>1, <2>2 DEF CtxSeen, Timeout
<1>4. CASE Leave
  BY <1>4 DEF Leave, TypeOK, RequestType, WriterType, Begun, LeftBegun
<1>5. CASE ServiceReturns
  BY <1>5, WriterAssumption DEF ServiceReturns, Goto, TypeOK, RequestType, WriterType, Begun, LeftBegun
<1>6. CASE Chunk
  <2>1. chunks' \in 0..MaxChunks
    BY <1>6, WriterAssumption DEF Chunk, TypeOK, RequestType
  <2>2. CASE WriteOk
    <3>1. LeftBegun'
      BY <1>6, <2>1, <2>2, WriteOkStep DEF Chunk, Goto, LeftBegun
    <3>2. RequestType'
      BY <1>6, <2>1, <2>2 DEF Chunk, Goto, TypeOK, RequestType
    <3>3. QED
      BY <1>6, <2>1, <2>2, <3>1, <3>2, WriteOkStep DEF Chunk, TypeOK
  <2>3. CASE WriteRefused
    BY <1>6, <2>1, <2>3 DEF Chunk, Goto, WriteRefused, TypeOK, RequestType, WriterType, Begun, LeftBegun
  <2>4. QED
    BY <1>6, <2>2, <2>3 DEF Chunk
<1>7. CASE LastEvent
  <2>1. CASE WriteOk
    <3>1. LeftBegun'
      BY <1>7, <2>1, WriteOkStep DEF LastEvent, Goto, LeftBegun
    <3>2. RequestType'
      BY <1>7, <2>1 DEF LastEvent, Goto, TypeOK, RequestType
    <3>3. QED
      BY <1>7, <2>1, <3>1, <3>2, WriteOkStep DEF LastEvent, TypeOK
  <2>2. CASE WriteRefused
    BY <1>7, <2>2 DEF LastEvent, Goto, WriteRefused, TypeOK, RequestType, WriterType, Begun, LeftBegun
  <2>3. QED
    BY <1>7, <2>1, <2>2 DEF LastEvent
<1>8. CASE JsonHeader
  <2>1. CASE timedOut
    BY <1>8, <2>1 DEF JsonHeader, Goto, WriteHeader, TypeOK, RequestType, WriterType, Begun, LeftBegun
  <2>2. CASE ~timedOut
    <3>1. status' = "handler"
      BY <1>8, <2>2 DEF JsonHeader, WriteHeader, SendStatus, Returned, TypeOK, RequestType, WriterType, Begun, LeftBegun
    <3>2. authors' \subseteq {"handler"}
      BY <1>8, <2>2 DEF JsonHeader, WriteHeader, TypeOK, RequestType, WriterType, Begun, LeftBegun
    <3>3. Begun' /\ LeftBegun'
      BY <1>8, <2>2, <3>1, <3>2 DEF JsonHeader, Goto, WriteHeader, Begun, LeftBegun
    <3>4. TypeOK'
      BY <1>8, <2>2, <3>1, <3>2 DEF JsonHeader, Goto, WriteHeader, TypeOK, RequestType, WriterType
    <3>5. QED
      BY <3>3, <3>4
  <2>3. QED
    BY <2>1, <2>2
<1>9. CASE JsonBody
  <2>1. CASE WriteOk /\ Goto("returned")
    <3>1. LeftBegun'
      BY <1>9, <2>1, WriteOkStep DEF JsonBody, Goto, LeftBegun
    <3>2. RequestType'
      BY <1>9, <2>1 DEF JsonBody, Goto, TypeOK, RequestType
    <3>3. QED
      BY <1>9, <2>1, <3>1, <3>2, WriteOkStep DEF JsonBody, TypeOK
  <2>2. CASE WriteRefused /\ Goto("httpError")
    BY <1>9, <2>2 DEF JsonBody, Goto, WriteRefused, TypeOK, RequestType, WriterType, Begun, LeftBegun
  <2>3. QED
    BY <1>9, <2>1, <2>2 DEF JsonBody
<1>10. CASE HttpError
  BY <1>10 DEF HttpError, Goto, WriteRefused, TypeOK, RequestType, WriterType, Begun, LeftBegun
<1>11. CASE UNCHANGED vars
  BY <1>11 DEF vars, TypeOK, RequestType, WriterType, Begun, LeftBegun
<1>12. QED
  BY <1>1, <1>2, <1>3, <1>4, <1>5, <1>6, <1>7, <1>8, <1>9, <1>10, <1>11
     DEF Next, Middleware, Handler

LEMMA WriterInvariance == Spec => []WriterInv
  BY InitWriter, StepWriter, PTL DEF Spec

\* The variables of TimeoutWriter keep their types.
THEOREM WriterTypeCorrect == Spec => []TypeOK
<1>1. WriterInv => TypeOK
  BY DEF WriterInv
<1>2. QED
  BY <1>1, WriterInvariance, PTL

\* The client never gets a mixture of the handler's response and the timeout's
\* (timeoutWriter.Write, timeoutWriter.timeout).
THEOREM ResponseUnmixed == Spec => []OneAuthor
<1>1. WriterInv => OneAuthor
  BY DEF WriterInv, TypeOK, WriterType, Begun, OneAuthor
<1>2. QED
  BY <1>1, WriterInvariance, PTL

\* ErrHandlerTimeout means that the client gets the whole 504 and nothing else.
THEOREM RefusalsJustified == Spec => []RefusedOnlyAfter504
<1>1. WriterInv => RefusedOnlyAfter504
  BY DEF WriterInv, Begun, RefusedOnlyAfter504
<1>2. QED
  BY <1>1, WriterInvariance, PTL

-----------------------------------------------------------------------------
(* The rate limiter                                                        *)

Told == IF log = <<>> THEN 0 ELSE log[Len(log)].told

Decision == [stamp : Int, told : Int, allowed : BOOLEAN, before : Int, total : Int]
Request == [at : {"out", "asked", "admitted", "refused", "unavailable"}, stamp : Int]

LimiterType ==
    /\ shared \in BOOLEAN /\ now \in Int
    /\ bucket \in [tokens : Int, last : Int]
    /\ calls \in [Calls -> Request]
    /\ log \in Seq(Decision)

Covered ==
    \A i \in 1..Len(log) :
        (Total - log[i].before) * Second + bucket.tokens
            <= Full + RefillRate * (bucket.last - log[i].stamp)

Solvent ==
    /\ bucket.tokens <= Full
    /\ 0 <= bucket.tokens + RefillRate * (Told - bucket.last)
    /\ ~shared => 0 <= bucket.tokens /\ bucket.last = Told

Clocks == Told <= now /\ \A c \in Calls : calls[c].stamp <= now

LimiterInv == LimiterType /\ Covered /\ Solvent /\ Clocks /\ LimitKept

-----------------------------------------------------------------------------
LEMMA Distribute ==
    ASSUME NEW r \in Int, NEW a \in Int, NEW b \in Int
    PROVE  r * (a - b) = r * a - r * b /\ r * a \in Int /\ r * b \in Int
BY SMT

LEMMA Monotone ==
    ASSUME NEW r \in Nat, NEW a \in Int, NEW b \in Int, a <= b
    PROVE  r * a <= r * b
BY SMT

\* Sums, over the products as they are.
LEMMA StillSolvent ==
    ASSUME NEW t \in Int, NEW s \in Int, NEW l \in Int, NEW d \in Int, NEW n \in Int,
           0 <= t + d - l, d <= n
    PROVE  0 <= (t + (s - l)) + (n - s)
OBVIOUS

LEMMA SecondRefilled ==
    ASSUME NEW t \in Int, NEW s \in Int, NEW l \in Int, NEW d \in Int, NEW c \in Int,
           0 <= t + d - l, c <= s - d
    PROVE  c <= t + (s - l)
OBVIOUS

LEMMA Quotient ==
    ASSUME NEW s \in Nat \ {0}, NEW x \in Int
    PROVE  /\ x \div s \in Int
           /\ s * (x \div s) <= x
           /\ 0 <= x => 0 <= s * (x \div s)
           /\ s <= x => s <= s * (x \div s)
BY SMTT(30)

\* Refill never adds more than the rate allows, Redis exactly that; time that
\* passes adds no less than nothing, and a second adds a token.
LEMMA RefillBounds ==
    ASSUME LimiterType, NEW e \in Int
    PROVE  /\ Refill(e) \in Int
           /\ Refill(e) <= RefillRate * e
           /\ shared => Refill(e) = RefillRate * e
           /\ 0 <= e => 0 <= Refill(e)
           /\ Second <= e => Second <= Refill(e)
<1> DEFINE x == e * RefillRate
<1>1. x \in Int /\ x = RefillRate * e
  BY LimiterAssumption, SMT
<1>2. 0 <= e => 0 <= x
  BY LimiterAssumption, SMT
<1>3. Second <= e => Second <= x
  <2> SUFFICES ASSUME Second <= e PROVE Second <= x
    OBVIOUS
  <2>1. RefillRate \in Nat /\ 1 <= RefillRate /\ 0 <= e /\ Second \in Nat
    BY LimiterAssumption
  <2>2. e * 1 <= e * RefillRate
    BY <2>1, Monotone
  <2>3. QED
    BY <2>1, <2>2
<1> HIDE DEF x
<1>4. CASE shared
  BY <1>1, <1>2, <1>3, <1>4 DEF Refill, x
<1>5. CASE ~shared
  <2>1. Refill(e) = Second * (x \div Second)
    BY <1>5 DEF Refill, x
  <2>2. x \div Second \in Int /\ Second \in Nat \ {0}
    BY <1>1, Quotient, LimiterAssumption
  <2>3. Second * (x \div Second) \in Int
    BY <2>2, SMT
  <2>4. QED
    BY <1>1, <1>2, <1>3, <1>5, <2>1, <2>2, <2>3, Quotient
<1>6. QED
  BY <1>4, <1>5 DEF LimiterType

LEMMA LogType == ASSUME LimiterType PROVE Told \in Int /\ Total \in Int
<1>1. CASE log = <<>>
  BY <1>1 DEF Told, Total
<1>2. CASE log # <<>>
  <2>1. Len(log) \in 1..Len(log) /\ \A i \in 1..Len(log) : log[i] \in Decision
    BY <1>2 DEF LimiterType
  <2>2. log[Len(log)] \in Decision
    BY <2>1
  <2>3. QED
    BY <1>2, <2>2 DEF Told, Total, Decision
<1>3. QED
  BY <1>1, <1>2

-----------------------------------------------------------------------------
LEMMA InitLimiter == LimiterInit => LimiterInv
<1> SUFFICES ASSUME LimiterInit PROVE LimiterInv
  OBVIOUS
<1> USE DEF LimiterInit
<1>1. Full \in Int /\ 0 <= Full
  BY LimiterAssumption, SMT DEF Full
<1>2. LimiterType
  BY <1>1 DEF LimiterType, Request
<1>3. Told = 0 /\ Len(log) = 0 /\ DOMAIN log = {}
  BY DEF Told
<1>4. RefillRate * (0 - 0) = 0
  BY LimiterAssumption, SMT
<1>5. Covered /\ Solvent /\ Clocks
  BY <1>1, <1>3, <1>4 DEF Covered, Solvent, Clocks
<1>6. LimitKept
  BY <1>3 DEF LimitKept, WithinRate, RetryHonoured
<1>7. QED
  BY <1>2, <1>5, <1>6 DEF LimiterInv

\* A decision that takes the time it was asked at, which is not to come.
LEMMA DecideStep ==
    ASSUME LimiterInv, NEW stamp \in Int, stamp <= now, ~shared => stamp = now,
           NEW allowed \in BOOLEAN, Decide(stamp, allowed), UNCHANGED <<shared, now>>
    PROVE  /\ bucket' \in [tokens : Int, last : Int] /\ log' \in Seq(Decision)
           /\ Covered' /\ Solvent' /\ (Told <= now)' /\ LimitKept'
<1> DEFINE tokens == bucket.tokens
           last == bucket.last
           n == Len(log)
           refill == Refill(stamp - last)
           have == Refilled(stamp)
           new == [stamp |-> stamp, told |-> now, allowed |-> allowed,
                   before |-> Total, total |-> Total + (IF allowed THEN 1 ELSE 0)]
           R(a) == RefillRate * a
<1>1. /\ shared \in BOOLEAN /\ now \in Int /\ tokens \in Int /\ last \in Int
      /\ log \in Seq(Decision) /\ n \in Nat
  BY DEF LimiterInv, LimiterType
<1>2. Full \in Int /\ Second \in Nat \ {0} /\ RefillRate \in Nat \ {0} /\ Second <= Full
  <2>1. Capacity \in Nat /\ 1 <= Capacity /\ Second \in Nat /\ RefillRate \in Nat \ {0}
    BY LimiterAssumption
  <2>2. Second * 1 <= Second * Capacity /\ Second * Capacity = Capacity * Second
    BY <2>1, Monotone, SMT
  <2>3. QED
    BY <2>1, <2>2, LimiterAssumption, SMT DEF Full
<1>3. \A i \in 1..n : log[i] \in Decision
  BY <1>1
<1>4. Total \in Int /\ Told \in Int
  BY LogType DEF LimiterInv
<1>5. /\ refill \in Int /\ refill <= R(stamp - last)
      /\ shared => refill = R(stamp - last)
      /\ last <= stamp => 0 <= refill
      /\ last + Second <= stamp => Second <= refill
  <2>1. stamp - last \in Int
    BY <1>1
  <2>2. /\ refill \in Int /\ refill <= RefillRate * (stamp - last)
        /\ shared => refill = RefillRate * (stamp - last)
        /\ 0 <= stamp - last => 0 <= refill
        /\ Second <= stamp - last => Second <= refill
    BY <2>1, RefillBounds, Zenon DEF LimiterInv
  <2>3. (last <= stamp => 0 <= stamp - last) /\ (last + Second <= stamp => Second <= stamp - last)
    BY <1>1, <1>2
  <2>4. QED
    BY <2>2, <2>3, Zenon
<1>6. R(stamp - last) = R(stamp) - R(last) /\ R(stamp) \in Int /\ R(last) \in Int
  BY <1>1, <1>2, Distribute
<1>7. /\ have \in Int /\ have <= Full /\ have <= tokens + refill
      /\ have < Full => have = tokens + refill
  BY <1>1, <1>2, <1>5 DEF Refilled
<1>8. /\ allowed <=> have >= Second
      /\ bucket' = [tokens |-> IF allowed THEN have - Second ELSE have, last |-> stamp]
      /\ log' = Append(log, new)
  BY DEF Decide, After
<1> HIDE DEF tokens, last, n, refill, have, R
<1>9. bucket'.tokens = (IF allowed THEN have - Second ELSE have) /\ bucket'.last = stamp
  BY <1>8
<1>10. bucket' \in [tokens : Int, last : Int]
  BY <1>2, <1>7, <1>8
<1>11. new \in Decision
  BY <1>1, <1>4 DEF Decision
<1>12. /\ log' \in Seq(Decision) /\ Len(log') = n + 1
       /\ log'[n + 1] = new /\ \A i \in 1..n : log'[i] = log[i]
       /\ DOMAIN log' = 1..(n + 1)
  BY <1>1, <1>8, <1>11 DEF n
<1>13. Total' = Total + (IF allowed THEN 1 ELSE 0) /\ Told' = now
  <2>1. log' # <<>>
    BY <1>12, <1>1
  <2>2. QED
    BY <1>12, <2>1 DEF Total, Told
<1>14. Covered'
  <2> SUFFICES ASSUME NEW i \in 1..(n + 1)
               PROVE  (Total' - log'[i].before) * Second + bucket'.tokens
                         <= Full + RefillRate * (stamp - log'[i].stamp)
    BY <1>9, <1>12 DEF Covered, Full
  <2>1. CASE i = n + 1
    <3>1. log'[i].before = Total /\ log'[i].stamp = stamp
      BY <1>12, <2>1
    <3>2. RefillRate * (stamp - stamp) = 0
      BY <1>2, SMT
    <3>3. CASE allowed
      <4>1. (Total' - Total) * Second = Second
        BY <1>2, <1>4, <1>13, <3>3, SMT
      <4>2. QED
        BY <1>2, <1>7, <1>9, <3>1, <3>2, <3>3, <4>1
    <3>4. CASE ~allowed
      <4>1. (Total' - Total) * Second = 0
        BY <1>2, <1>4, <1>13, <3>4, SMT
      <4>2. QED
        BY <1>2, <1>7, <1>9, <3>1, <3>2, <3>4, <4>1
    <3>5. QED
      BY <3>3, <3>4
  <2>2. CASE i \in 1..n
    <3> DEFINE b == log[i].before
               s == log[i].stamp
    <3>1. b \in Int /\ s \in Int /\ log'[i].before = b /\ log'[i].stamp = s
      BY <1>3, <1>12, <2>2 DEF Decision
    <3>2. (Total - b) * Second + tokens <= Full + RefillRate * (last - s)
      BY <2>2 DEF LimiterInv, Covered, n, tokens, last
    <3>3. /\ RefillRate * (last - s) = R(last) - R(s)
          /\ RefillRate * (stamp - s) = R(stamp) - R(s) /\ R(s) \in Int
      BY <1>1, <1>2, <3>1, Distribute DEF R
    <3>4. (Total' - b) * Second
             = (Total - b) * Second + (IF allowed THEN Second ELSE 0)
      BY <1>2, <1>4, <1>13, <3>1, SMT
    <3>5. (Total - b) * Second \in Int
      BY <1>2, <1>4, <3>1, SMT
    <3> DEFINE spent == (Total - b) * Second
               spentNow == (Total' - b) * Second
               earned == RefillRate * (last - s)
               earnedNow == RefillRate * (stamp - s)
    <3> HIDE DEF b, s
    <3>6. /\ spent + tokens <= Full + earned /\ spent \in Int
          /\ spentNow = spent + (IF allowed THEN Second ELSE 0)
          /\ earned = R(last) - R(s) /\ earnedNow = R(stamp) - R(s) /\ R(s) \in Int
      BY <3>2, <3>3, <3>4, <3>5
    <3> HIDE DEF spent, spentNow, earned, earnedNow
    <3>7. bucket'.tokens <= tokens + R(stamp) - R(last) - (IF allowed THEN Second ELSE 0)
      BY <1>1, <1>2, <1>5, <1>6, <1>7, <1>9
    <3>8. bucket'.tokens \in Int
      BY <1>10
    <3>9. spentNow + bucket'.tokens <= Full + earnedNow
      <4>1. PICK x \in Int : x = IF allowed THEN Second ELSE 0
        BY <1>2
      <4>2. spentNow = spent + x /\ bucket'.tokens <= tokens + R(stamp) - R(last) - x
        BY <3>6, <3>7, <4>1, Zenon
      <4>3. spent + tokens <= Full + (R(last) - R(s)) /\ spentNow \in Int
        BY <3>6, <4>2
      <4>4. spentNow + bucket'.tokens <= Full + (R(stamp) - R(s))
        <5>1. PICK t \in Int, u \in Int, f \in Int, l \in Int, r \in Int, s2 \in Int :
                 /\ t = tokens /\ u = bucket'.tokens /\ f = Full
                 /\ l = R(last) /\ r = R(s) /\ s2 = R(stamp)
          BY <1>1, <1>2, <1>6, <3>6, <3>8
        <5>2. /\ spent + t <= f + (l - r) /\ spentNow = spent + x /\ u <= t + s2 - l - x
              /\ spent \in Int /\ spentNow \in Int
          BY <3>6, <4>2, <4>3, <5>1, Zenon
        <5>3. spentNow + u <= f + (s2 - r)
          BY <4>1, <5>1, <5>2
        <5>4. QED
          BY <5>1, <5>3, Zenon
      <4>5. QED
        BY <3>6, <4>4, Zenon
    <3>10. QED
      BY <3>1, <3>9 DEF spentNow, earnedNow
  <2>3. QED
    BY <1>1, <2>1, <2>2
<1>15. /\ R(now - stamp) = R(now) - R(stamp) /\ R(now) \in Int
       /\ R(Told - last) = R(Told) - R(last) /\ R(Told) \in Int
       /\ R(stamp) <= R(now) /\ R(Told) <= R(now)
  <2>1. Told <= now
    BY DEF LimiterInv, Clocks
  <2>2. R(stamp) <= R(now) /\ R(Told) <= R(now)
    BY <1>1, <1>2, <1>4, <2>1, Monotone DEF R
  <2>3. QED
    BY <1>1, <1>2, <1>4, <2>2, Distribute DEF R
<1>16. 0 <= tokens + R(Told) - R(last)
  BY <1>1, <1>6, <1>15 DEF LimiterInv, Solvent, R, tokens, last
<1>17. ~shared => 0 <= tokens /\ last = Told /\ last <= stamp
  BY DEF LimiterInv, Solvent, Clocks, tokens, last
<1>18. 0 <= bucket'.tokens + R(now - stamp)
  <2>1. CASE allowed
    BY <1>2, <1>7, <1>8, <1>9, <1>6, <1>15, <2>1
  <2>2. CASE ~allowed
    <3>1. have = tokens + refill
      BY <1>2, <1>7, <1>8, <2>2
    <3>2. CASE shared
      <4>1. have = tokens + (R(stamp) - R(last)) /\ bucket'.tokens = have
        BY <1>5, <1>6, <1>9, <2>2, <3>1, <3>2
      <4>2. QED
        <5>1. 0 <= (tokens + (R(stamp) - R(last))) + (R(now) - R(stamp))
          BY <1>1, <1>6, <1>15, <1>16, StillSolvent
        <5>2. QED
          BY <1>15, <4>1, <5>1, Zenon
    <3>3. CASE ~shared
      BY <1>1, <1>5, <1>6, <1>9, <1>15, <1>17, <2>2, <3>1, <3>3
    <3>4. QED
      BY <1>1, <3>2, <3>3
  <2>3. QED
    BY <2>1, <2>2
<1>19. Solvent'
  <2>1. bucket'.tokens <= Full
    BY <1>2, <1>7, <1>9
  <2>2. ~shared => 0 <= bucket'.tokens /\ stamp = now
    BY <1>2, <1>5, <1>7, <1>8, <1>9, <1>17, <1>1
  <2>3. QED
    BY <1>9, <1>13, <1>18, <2>1, <2>2 DEF Solvent, Full, R
<1>20. WithinRate'
  <2> SUFFICES ASSUME NEW i \in 1..(n + 1), NEW j \in 1..(n + 1), i <= j, log'[j].allowed
               PROVE  (log'[j].total - log'[i].before) * Second
                         <= Full + RefillRate * (log'[j].stamp - log'[i].stamp)
    BY <1>12 DEF WithinRate, Full
  <2>1. CASE j \in 1..n
    <3>1. i \in 1..n
      BY <1>1, <2>1
    <3>2. DOMAIN log = 1..n
      BY <1>1 DEF n
    <3>3. QED
      BY <1>12, <2>1, <3>1, <3>2 DEF LimiterInv, LimitKept, WithinRate
  <2>2. CASE j = n + 1
    <3>1. log'[j].total = Total' /\ log'[j].stamp = stamp /\ allowed
      BY <1>12, <1>13, <2>2
    <3>2. 0 <= bucket'.tokens
      BY <1>2, <1>7, <1>8, <1>9, <3>1
    <3>3. (Total' - log'[i].before) * Second + bucket'.tokens
             <= Full + RefillRate * (stamp - log'[i].stamp)
      BY <1>9, <1>12, <1>14 DEF Covered, Full
    <3>4. log'[i] \in Decision
      BY <1>12
    <3>5. (Total' - log'[i].before) * Second \in Int /\ RefillRate * (stamp - log'[i].stamp) \in Int
      BY <1>2, <1>4, <1>13, <3>4, SMT DEF Decision
    <3>6. bucket'.tokens \in Int
      BY <1>10
    <3>7. QED
      BY <1>2, <3>1, <3>2, <3>3, <3>5, <3>6
  <2>3. QED
    BY <1>1, <2>1, <2>2
<1>21. RetryHonoured'
  <2> SUFFICES ASSUME NEW i \in 1..n, log'[i + 1].stamp >= log'[i].told + Second
               PROVE  log'[i + 1].allowed
    BY <1>1, <1>12 DEF RetryHonoured
  <2>1. CASE i + 1 \in 1..n
    <3>1. DOMAIN log = 1..n
      BY <1>1 DEF n
    <3>2. QED
      BY <1>12, <2>1, <3>1 DEF LimiterInv, LimitKept, RetryHonoured
  <2>2. CASE i = n
    <3>1. Told = log[i].told
      BY <1>1, <2>2 DEF Told, n
    <3>2. Told + Second <= stamp /\ log'[i + 1].allowed = allowed
      BY <1>12, <2>2, <3>1
    <3>3. Second <= tokens + refill
      <4>1. CASE ~shared
        BY <1>1, <1>2, <1>5, <1>17, <3>2, <4>1
      <4>2. CASE shared
        <5>1. Second <= R(stamp - Told) /\ R(stamp - Told) = R(stamp) - R(Told)
          <6>1. stamp - Told \in Int /\ Second <= stamp - Told /\ 1 <= RefillRate
            BY <1>2, <1>4, <3>2
          <6>2. (stamp - Told) * 1 <= (stamp - Told) * RefillRate
            BY <1>2, <6>1, Monotone
          <6>3. (stamp - Told) * RefillRate = R(stamp - Told)
            BY <1>2, <6>1, SMT DEF R
          <6>4. QED
            BY <1>2, <1>4, <6>1, <6>2, <6>3, Distribute DEF R
        <5>2. refill = R(stamp) - R(last)
          BY <1>5, <1>6, <4>2
        <5>3. QED
          <6>1. Second <= R(stamp) - R(Told)
            BY <5>1, Zenon
          <6>2. Second <= tokens + (R(stamp) - R(last))
            <7>1. PICK t \in Int, l \in Int, d \in Int, r \in Int, z \in Int :
                     t = tokens /\ l = R(last) /\ d = R(Told) /\ r = R(stamp) /\ z = Second
              BY <1>1, <1>2, <1>6, <1>15
            <7>2. 0 <= t + d - l /\ z <= r - d
              BY <1>16, <6>1, <7>1, Zenon
            <7>3. z <= t + (r - l)
              BY <7>1, <7>2, SecondRefilled
            <7>4. QED
              BY <7>1, <7>3, Zenon
          <6>3. QED
            BY <5>2, <6>2, Zenon
      <4>3. QED
        BY <1>1, <4>1, <4>2
    <3>4. have >= Second
      BY <1>1, <1>2, <1>5, <1>7, <3>3
    <3>5. QED
      BY <1>8, <3>2, <3>4
  <2>3. QED
    BY <1>1, <2>1, <2>2
<1>22. QED
  BY <1>1, <1>10, <1>12, <1>13, <1>14, <1>19, <1>20, <1>21 DEF LimitKept

LEMMA StepLimiter == LimiterInv /\ [LimiterNext]_limiterVars => LimiterInv'
<1> SUFFICES ASSUME LimiterInv, [LimiterNext]_limiterVars PROVE LimiterInv'
  OBVIOUS
<1> USE DEF LimiterInv
<1>1. ASSUME NEW c \in Calls, Ask(c) PROVE LimiterInv'
  <2>1. calls' \in [Calls -> Request] /\ \A d \in Calls : calls'[d].stamp <= now
    BY <1>1 DEF Ask, LimiterType, Request, Clocks
  <2>2. QED
    BY <1>1, <2>1 DEF Ask, LimiterType, Covered, Solvent, Clocks, LimitKept, WithinRate,
                      RetryHonoured, Told, Total, Full
<1>2. ASSUME NEW c \in Calls, Limit(c) PROVE LimiterInv'
  <2>1. Stamp(c) \in Int /\ Stamp(c) <= now /\ (~shared => Stamp(c) = now)
    BY DEF Stamp, LimiterType, Request, Clocks
  <2>2. UNCHANGED <<shared, now>> /\ \E place \in {"admitted", "refused", "unavailable"} :
            Answer(c, place)
    BY <1>2 DEF Limit, Allow, AllowFails
  <2>3. calls' \in [Calls -> Request] /\ \A d \in Calls : calls'[d].stamp = calls[d].stamp
    BY <2>2 DEF Answer, LimiterType, Request
  <2>4. CASE \E allowed \in BOOLEAN : Decide(Stamp(c), allowed)
    <3>1. /\ bucket' \in [tokens : Int, last : Int] /\ log' \in Seq(Decision)
          /\ Covered' /\ Solvent' /\ (Told <= now)' /\ LimitKept'
      BY <2>1, <2>2, <2>4, DecideStep
    <3>2. QED
      BY <2>2, <2>3, <3>1 DEF LimiterType, Clocks
  <2>5. CASE UNCHANGED <<bucket, log>>
    BY <2>2, <2>3, <2>5 DEF LimiterType, Covered, Solvent, Clocks, LimitKept, WithinRate,
                            RetryHonoured, Told, Total, Full
  <2>6. QED
    BY <1>2, <2>4, <2>5 DEF Limit, Allow, AllowFails
<1>3. ASSUME Tick PROVE LimiterInv'
  <2>1. Told \in Int
    BY LogType
  <2>2. now' \in Int /\ now <= now' /\ \A c \in Calls : calls[c].stamp \in Int
    BY <1>3 DEF Tick, LimiterType, Request
  <2>3. Clocks'
    BY <1>3, <2>1, <2>2 DEF Tick, LimiterType, Clocks, Told
  <2>4. QED
    BY <1>3, <2>2, <2>3 DEF Tick, LimiterType, Covered, Solvent, LimitKept, WithinRate,
                            RetryHonoured, Told, Total, Full
<1>4. CASE UNCHANGED limiterVars
  BY <1>4 DEF limiterVars, LimiterType, Covered, Solvent, Clocks, LimitKept, WithinRate,
              RetryHonoured, Told, Total, Full
<1>5. QED
  BY <1>1, <1>2, <1>3, <1>4 DEF LimiterNext

\* Requests are admitted within the rate, whatever order Redis serves them in,
\* and a client that waits its second is let in.
THEOREM LimitHolds == LimiterSpec => []LimitKept
<1>1. LimiterInv => LimitKept
  BY DEF LimiterInv
<1>2. QED
  BY InitLimiter, StepLimiter, <1>1, PTL DEF LimiterSpec

-----------------------------------------------------------------------------
(* The chain                                                               *)

\* Each of the two behaves in the chain as it does alone: the limiter takes its
\* steps before the middleware, and for other requests, without touching it,
\* and what goes on behind the limiter does not touch its bucket (main.go).
THEOREM ChainOfTwo == ServerSpec => Spec /\ LimiterSpec
<1>1. ServerInit => Init /\ LimiterInit
  BY DEF ServerInit
<1>2. [ServerNext]_chainVars => [Next]_vars /\ [LimiterNext]_limiterVars
  BY DEF ServerNext, chainVars, AtLimiter, Serve, LimiterNext
<1>3. QED
  BY <1>1, <1>2, PTL DEF ServerSpec, Spec, LimiterSpec

\* So whatever the limiter does to the requests, the client of the one that is
\* let through gets one response, whole, and whatever the handler does the
\* limiter keeps its limit.
THEOREM ChainIsSafe ==
    ServerSpec => [](TypeOK /\ OneAuthor /\ RefusedOnlyAfter504 /\ LimitKept)
BY ChainOfTwo, WriterTypeCorrect, ResponseUnmixed, RefusalsJustified, LimitHolds, PTL
=============================================================================

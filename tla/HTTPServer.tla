----------------------------- MODULE HTTPServer -----------------------------
(***************************************************************************)
(* The chain main.go puts around the routes: the rate limiter, and behind   *)
(* it the timeout middleware with the handler's goroutine.  One request is   *)
(* followed through the chain; the others only take tokens from it.         *)
(***************************************************************************)
EXTENDS TimeoutWriter, RateLimiter

CONSTANT Followed   \* the request that is followed

ASSUME ServerAssumption == Followed \in Calls

chainVars == <<vars, limiterVars>>

Inside == calls[Followed].at = "admitted"

ServerInit == Init /\ LimiterInit

(* Once it is let through, the followed request does not ask again.         *)
AtLimiter(c) == (~(c = Followed /\ Inside) /\ Ask(c)) \/ Limit(c)

Serve(step) == Inside /\ step /\ UNCHANGED limiterVars

ServerNext ==
    \/ (Tick \/ \E c \in Calls : AtLimiter(c)) /\ UNCHANGED vars
    \/ Serve(Next)

(* Redis answers or fails, the deadline comes and the middleware runs; the   *)
(* service may hang for ever, and no client has to come again.              *)
ServerSpec ==
    /\ ServerInit /\ [][ServerNext]_chainVars
    /\ WF_chainVars(Limit(Followed) /\ UNCHANGED vars)
    /\ WF_chainVars(Serve(CtxEnd)) /\ WF_chainVars(Serve(Middleware))

-----------------------------------------------------------------------------
(* A request that has come in is answered in the end: by the limiter, or     *)
(* once let through by the handler or the middleware, even if the service   *)
(* hangs, also when the response has been begun (Timeout).                  *)
Responds ==
    calls[Followed].at = "asked" ~> Returned \/ calls[Followed].at \in {"refused", "unavailable"}
=============================================================================

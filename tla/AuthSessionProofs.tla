-------------------------- MODULE AuthSessionProofs --------------------------
(***************************************************************************)
(* Theorems about AuthSession for any number of calls, users, sessions,     *)
(* tokens and failing commands.  A call that starts late knows what is over *)
(* (call.stale); the invariant IInv says where such a call may still be,    *)
(* and what a call that has a token or a session in its hands may rely on.  *)
(* Two more invariants stand on it: RInv follows a token from its Logout to *)
(* the calls that must refuse it, UInv follows the one record of a session  *)
(* that no Logout, race or failure has touched.                             *)
(***************************************************************************)
EXTENDS AuthSession, FiniteSetTheorems, SequenceTheorems, TLAPS

Deleting == {"delete", "deletePointer", "deleteKey"}
Parting  == {"tokens", "pipeline"} \cup Deleting
Ops == {"none", "register", "login", "refresh", "logout"} \cup Guarded
Steps == {"done", "name", "email", "user", "session", "save", "get", "known", "revoke", "drop",
          "revoked"} \cup Parting
Results == {"none", "ok", "error", "forbidden"}

CallRecord == [op : Ops, pc : Steps, acc : Nat, ref : Nat, sid : Nat, uid : Nat,
               name : Names \cup {""}, email : Emails \cup {""},
               stale : SUBSET {"ended", "loggedOut", "consumed"}, lost : BOOLEAN,
               new : Nat, result : Results]

UserType == [id : Nat, name : Names \cup {""}, email : Emails \cup {""}, role : {"admin", "user"}]

Typed ==
  /\ users \subseteq UserType /\ IsFiniteSet(users)
  /\ created \in Nat /\ created <= MaxSessions /\ sessions \in [Sessions -> Nat]
  /\ issued \in Seq([sid : Nat, uid : Nat])
  /\ \A t \in Tokens : SessionOf(t) \in 1..created
  /\ held \subseteq Tokens /\ byToken \subseteq Tokens
  /\ bySession \in [Sessions -> 0..Len(issued)]
  /\ agedAccess \in Nat /\ agedRefresh \in Nat
  /\ ended \subseteq 1..created /\ consumed \subseteq held
  /\ call \in [Calls -> CallRecord]

\* What a call holds in its hands at each of its steps.
HandsOK(r) ==
  /\ {r.acc, r.ref} \subseteq held \cup {0}
  /\ r.op = "refresh" /\ r.pc # "done" => r.ref \in held
  /\ r.op \in Guarded /\ r.pc # "done" => r.acc \in held
  /\ r.pc \in Deleting => r.ref \in held /\ r.op \in {"refresh", "logout"}
  /\ r.op = "logout" => r.sid \in 0..created
  /\ r.op = "logout" /\ r.pc \in {"revoke", "drop", "tokens", "pipeline"} => r.sid # 0
  /\ r.pc = "session" => r.op \in {"register", "login"}
  /\ r.pc = "save" => r.new \in Tokens \ held

\* A Logout whose Delete arrived has taken its session out of the store, and a
\* Refresh whose Delete arrived its token.
DoneOK(r) ==
  /\ r.op = "logout" /\ r.pc \in Parting /\ r.sid # 0 /\ ~r.lost => sessions[r.sid] = 0
  /\ r.op = "refresh" /\ r.pc = "save" /\ ~r.lost => r.ref \notin byToken

\* A call that began after the end of its session, or with a spent token, has
\* not passed the test that refuses it.
StaleOK(r) ==
  /\ "ended" \in r.stale =>
       IF r.pc = "done" THEN r.result # "ok"
       ELSE \/ r.op = "refresh" /\ r.pc \in {"get", "user", "known"} /\ SessionOf(r.ref) \in ended
            \/ r.op \in Guarded /\ r.pc \in {"revoked", "user", "known"}
               /\ SessionOf(r.acc) \in ended
  /\ "consumed" \in r.stale =>
       IF r.pc = "done" THEN r.result # "ok"
       ELSE r.op = "refresh" /\ r.pc = "get" /\ r.ref \in consumed

CallOK(r) == HandsOK(r) /\ DoneOK(r) /\ StaleOK(r)

\* No two calls are about to save the same token.
SavesDiffer ==
  \A c, d \in Calls : c # d /\ call[c].pc = "save" /\ call[d].pc = "save" =>
                        call[c].new # call[d].new

EndedGone == \A s \in ended : sessions[s] = 0
SpentGone == consumed \cap byToken = {}

IInv == Typed /\ SavesDiffer /\ EndedGone /\ SpentGone /\ MemoryStoreExact
          /\ \A c \in Calls : CallOK(call[c])

-----------------------------------------------------------------------------
(* What a step of one call leaves to the others.                            *)

\* Ids, tokens and histories only grow, a session that is gone stays away, and
\* no token a client holds comes back into the refresh store.
Grows ==
  /\ Len(issued) <= Len(issued') /\ \A t \in Tokens : issued'[t] = issued[t]
  /\ created <= created' /\ held \subseteq held'
  /\ ended \subseteq ended' /\ consumed \subseteq consumed'
  /\ \A s \in 1..created : sessions[s] = 0 => sessions'[s] = 0
  /\ \A t \in held : t \in byToken' => t \in byToken

\* What a call relies on survives a step that leaves its record alone.
LEMMA Frame ==
  ASSUME Typed, Typed', Grows, NEW r \in CallRecord, CallOK(r),
         r.pc = "save" => r.new \notin held'
  PROVE  CallOK(r)'
<1>1. HandsOK(r)'
  <2>1. r.acc \in held' \cup {0} /\ r.ref \in held' \cup {0}
    BY DEF Grows, CallOK, HandsOK
  <2>2. r.op = "logout" => r.sid \in 0..created'
    BY DEF Grows, CallOK, HandsOK, Typed
  <2>3. r.pc = "save" => r.new \in 1..Len(issued') \ held'
    BY DEF Grows, CallOK, HandsOK, Typed, Tokens
  <2>4. QED
    BY <2>1, <2>2, <2>3 DEF Grows, CallOK, HandsOK, Tokens
<1>2. DoneOK(r)'
  <2>1. r.op = "logout" /\ r.sid # 0 => r.sid \in 1..created
    BY DEF CallOK, HandsOK, Typed
  <2>2. r.op = "refresh" /\ r.pc = "save" => r.ref \in held
    BY DEF CallOK, HandsOK
  <2>3. QED
    BY <2>1, <2>2 DEF Grows, CallOK, DoneOK
<1>3. StaleOK(r)'
  <2>1. \A t \in Tokens : SessionOf(t) \in ended => issued'[t].sid \in ended'
    BY DEF Grows, SessionOf
  <2>2. /\ r.op = "refresh" /\ r.pc # "done" => r.ref \in Tokens
        /\ r.op \in Guarded /\ r.pc # "done" => r.acc \in Tokens
    BY DEF CallOK, HandsOK, Typed
  <2>3. QED
    BY <2>1, <2>2 DEF Grows, CallOK, StaleOK, SessionOf
<1>4. QED
  BY <1>1, <1>2, <1>3 DEF CallOK

\* A step of call c, once c's own part is settled.
LEMMA StepOfOne ==
  ASSUME IInv, Typed', Grows, NEW c \in Calls,
         \A d \in Calls \ {c} : call'[d] = call[d],
         \A t \in held' \ held : call[c].pc = "save" /\ t = call[c].new,
         call'[c].pc = "save" => call'[c].new \notin Tokens,
         CallOK(call[c])', EndedGone', SpentGone', MemoryStoreExact'
  PROVE  IInv'
<1>1. ASSUME NEW d \in Calls, d # c PROVE CallOK(call[d])'
  <2>1. PICK r \in CallRecord : r = call[d] /\ r = call'[d]
    BY <1>1 DEF IInv, Typed
  <2>2. CallOK(r)
    BY <2>1 DEF IInv
  <2>3. r.pc = "save" => r.new \notin held'
    <3>1. r.pc = "save" => r.new \notin held
      BY <2>2 DEF CallOK, HandsOK
    <3>2. r.pc = "save" /\ call[c].pc = "save" => r.new # call[c].new
      BY <1>1, <2>1 DEF IInv, SavesDiffer
    <3>3. QED
      BY <3>1, <3>2
  <2>4. CallOK(r)'
    BY <2>2, <2>3, Frame DEF IInv
  <2>5. QED
    BY <2>1, <2>4 DEF CallOK, HandsOK, DoneOK, StaleOK
<1>2. SavesDiffer'
  <2> SUFFICES ASSUME NEW d \in Calls, NEW e \in Calls, d # e,
                      call'[d].pc = "save", call'[e].pc = "save"
               PROVE  call'[d].new # call'[e].new
    BY DEF SavesDiffer
  <2>1. \A f \in Calls \ {c} : call[f].pc = "save" => call[f].new \in Tokens
    BY DEF IInv, CallOK, HandsOK
  <2>2. CASE d = c
    BY <2>1, <2>2
  <2>3. CASE e = c
    BY <2>1, <2>3
  <2>4. CASE d # c /\ e # c
    BY <2>4 DEF IInv, SavesDiffer
  <2>5. QED
    BY <2>2, <2>3, <2>4
<1>3. \A d \in Calls : CallOK(call[d])'
  BY <1>1
<1>4. QED
  BY <1>2, <1>3 DEF IInv

-----------------------------------------------------------------------------
(* How a call moves on.                                                     *)

\* The fields of a call that has not begun.
LEMMA IdleFacts ==
  /\ Idle \in CallRecord
  /\ Idle.op = "none" /\ Idle.pc = "done" /\ Idle.acc = 0 /\ Idle.ref = 0 /\ Idle.sid = 0
  /\ Idle.uid = 0 /\ Idle.stale = {} /\ Idle.lost = FALSE /\ Idle.new = 0
  /\ Idle.result = "none" /\ Idle.name = "" /\ Idle.email = ""
BY DEF Idle, CallRecord, Ops, Steps, Results

\* A call takes the record r.
LEMMA Replaced ==
  ASSUME Typed, NEW c \in Calls, NEW r \in CallRecord, call' = [call EXCEPT ![c] = r]
  PROVE  /\ call' \in [Calls -> CallRecord] /\ call'[c] = r
         /\ \A d \in Calls \ {c} : call'[d] = call[d]
BY DEF Typed

\* A call that is over has nothing in its hands but the access token it came
\* with; it is not one that had to be refused if it succeeds.
LEMMA ReturnOK ==
  ASSUME Typed, NEW c \in Calls, CallOK(call[c]), held \subseteq held',
         NEW result \in Results, Return(c, result),
         result = "ok" => call[c].stale \cap {"ended", "consumed"} = {}
  PROVE  /\ call' \in [Calls -> CallRecord] /\ \A d \in Calls \ {c} : call'[d] = call[d]
         /\ call'[c].pc = "done" /\ CallOK(call[c])'
<1> DEFINE r == [Idle EXCEPT !.acc = call[c].acc, !.stale = call[c].stale, !.result = result]
<1>1. r \in CallRecord
  <2>1. call[c].acc \in Nat /\ call[c].stale \subseteq {"ended", "loggedOut", "consumed"}
    BY DEF Typed, CallRecord
  <2>2. QED
    BY <2>1, IdleFacts DEF CallRecord
<1>2. /\ call' \in [Calls -> CallRecord] /\ call'[c] = r
      /\ \A d \in Calls \ {c} : call'[d] = call[d]
  BY <1>1, Replaced DEF Return
<1>3. /\ r.op = "none" /\ r.pc = "done" /\ r.acc = call[c].acc /\ r.ref = 0
      /\ r.stale = call[c].stale /\ r.result = result
  BY IdleFacts DEF CallRecord
<1>4. call[c].acc \in held' \cup {0}
  BY DEF CallOK, HandsOK
<1> HIDE DEF r
<1>5. CallOK(call[c])'
  BY <1>2, <1>3, <1>4 DEF CallOK, HandsOK, DoneOK, StaleOK, Guarded, Deleting
<1>6. QED
  BY <1>2, <1>3, <1>5

\* Calls that have to be refused are at a test still to come.
LEMMA StaleWhere ==
  ASSUME IInv, NEW c \in Calls, call[c].stale \cap {"ended", "consumed"} # {}, call[c].pc # "done"
  PROVE  \/ call[c].op = "refresh" /\ call[c].pc \in {"get", "user", "known"}
         \/ call[c].op \in Guarded /\ call[c].pc \in {"revoked", "user", "known"}
BY DEF IInv, CallOK, StaleOK

\* A store command succeeds or fails.
LEMMA Flags == ASSUME NEW external PROVE Outcomes(external) \subseteq BOOLEAN
BY DEF Outcomes

\* Nothing but the call, the blacklist and what no invariant reads changes.
Kept == UNCHANGED <<redis, storeVars, refreshVars, held, ended, consumed>>

\* A step that changes nothing but the call, to a record that is in order.
LEMMA Sets ==
  ASSUME IInv, Kept, NEW c \in Calls,
         NEW r \in CallRecord, call' = [call EXCEPT ![c] = r], CallOK(r), r.pc # "save"
  PROVE  IInv'
<1>1. /\ call' \in [Calls -> CallRecord] /\ call'[c] = r
      /\ \A d \in Calls \ {c} : call'[d] = call[d]
  BY Replaced DEF IInv
<1>2. Typed' /\ Grows
  BY <1>1 DEF IInv, Typed, Grows, Kept, storeVars, refreshVars, Sessions, Tokens, SessionOf
<1>3. EndedGone' /\ SpentGone' /\ MemoryStoreExact'
  BY DEF IInv, EndedGone, SpentGone, MemoryStoreExact, Kept, storeVars, refreshVars,
         Sessions, SessionOf
<1>4. CallOK(call[c])'
  BY <1>1 DEF CallOK, HandsOK, DoneOK, StaleOK, Kept, storeVars, refreshVars, Tokens, SessionOf
<1>5. QED
  BY <1>1, <1>2, <1>3, <1>4, StepOfOne DEF Kept

\* The record of a call that moves to pc.
LEMMA Moved ==
  ASSUME Typed, NEW c \in Calls, NEW pc \in Steps
  PROVE  \E q \in CallRecord :
           /\ q = [call[c] EXCEPT !.pc = pc] /\ q.pc = pc
           /\ q.op = call[c].op /\ q.acc = call[c].acc /\ q.ref = call[c].ref
           /\ q.sid = call[c].sid /\ q.stale = call[c].stale /\ q.lost = call[c].lost
<1>1. call[c] \in CallRecord
  BY DEF Typed
<1>2. [call[c] EXCEPT !.pc = pc] \in CallRecord
  BY <1>1 DEF CallRecord
<1>3. QED
  BY <1>1, <1>2 DEF CallRecord

\* A step to a place where nothing more is asked of the call than before.
LEMMA Moves ==
  ASSUME IInv, Kept, NEW c \in Calls,
         NEW pc \in Steps, Move(c, pc), call[c].pc # "done",
         pc \notin {"save", "session", "done"},
         pc \in Deleting => call[c].op \in {"refresh", "logout"} /\ call[c].ref \in held,
         call[c].op = "logout" => call[c].pc \in Deleting /\ pc \in Deleting,
         call[c].stale \cap {"ended", "consumed"} # {} =>
           \/ call[c].pc = "get" /\ pc = "user" /\ call[c].stale \cap {"consumed"} = {}
           \/ call[c].pc = "revoked" /\ pc = "user"
           \/ call[c].pc = "user" /\ pc = "known"
  PROVE  IInv'
<1>1. PICK q \in CallRecord :
           /\ q = [call[c] EXCEPT !.pc = pc] /\ q.pc = pc
           /\ q.op = call[c].op /\ q.acc = call[c].acc /\ q.ref = call[c].ref
           /\ q.sid = call[c].sid /\ q.stale = call[c].stale /\ q.lost = call[c].lost
  BY Moved DEF IInv
<1>2. call' = [call EXCEPT ![c] = q]
  BY <1>1 DEF Move
<1>3. CallOK(call[c])
  BY DEF IInv
<1>4. HandsOK(q)
  BY <1>1, <1>3 DEF CallOK, HandsOK, Deleting
<1>5. DoneOK(q)
  BY <1>1, <1>3 DEF CallOK, DoneOK, Parting
<1>6. StaleOK(q)
  BY <1>1, <1>3 DEF CallOK, StaleOK
<1>7. QED
  BY <1>1, <1>2, <1>4, <1>5, <1>6, Sets DEF CallOK

\* A call returns and nothing else changes.
LEMMA Returns ==
  ASSUME IInv, Kept, NEW c \in Calls,
         NEW result \in Results, Return(c, result),
         result = "ok" => call[c].stale \cap {"ended", "consumed"} = {}
  PROVE  IInv'
<1>1. /\ call' \in [Calls -> CallRecord] /\ \A d \in Calls \ {c} : call'[d] = call[d]
      /\ call'[c].pc = "done" /\ CallOK(call[c])'
  <2>1. CallOK(call[c]) /\ Typed /\ held \subseteq held'
    BY DEF IInv, Kept
  <2>2. QED
    BY <2>1, ReturnOK
<1>2. Typed' /\ Grows
  BY <1>1 DEF IInv, Typed, Grows, Kept, storeVars, refreshVars, Sessions, Tokens, SessionOf
<1>3. EndedGone' /\ SpentGone' /\ MemoryStoreExact'
  BY DEF IInv, EndedGone, SpentGone, MemoryStoreExact, Kept, storeVars, refreshVars,
         Sessions, SessionOf
<1>4. QED
  BY <1>1, <1>2, <1>3, StepOfOne DEF Kept

-----------------------------------------------------------------------------
(* The initial state and the operations.                                    *)

\* The initial state.
LEMMA InitIInv == Init => IInv
<1> SUFFICES ASSUME Init PROVE IInv
  OBVIOUS
<1>1. Typed
  <2>1. IsFiniteSet(users)
    BY FS_EmptySet DEF Init
  <2>2. call \in [Calls -> CallRecord]
    BY IdleFacts DEF Init
  <2>3. QED
    BY <2>1, <2>2, SessionAssumption DEF Init, Typed, Sessions, Tokens, SessionOf
<1>2. \A c \in Calls : call[c] = Idle
  BY DEF Init
<1>3. SavesDiffer
  BY <1>2, IdleFacts DEF SavesDiffer
<1>4. \A c \in Calls : CallOK(call[c])
  <2>1. CallOK(Idle)
    BY IdleFacts DEF CallOK, HandsOK, DoneOK, StaleOK, Guarded, Deleting
  <2>2. QED
    BY <1>2, <2>1
<1>5. EndedGone /\ SpentGone /\ MemoryStoreExact
  BY DEF Init, EndedGone, SpentGone, MemoryStoreExact, Sessions
<1>6. QED
  BY <1>1, <1>3, <1>4, <1>5 DEF IInv

\* Register up to the user's row.
LEMMA RegisterKeeps ==
  ASSUME IInv, NEW c \in Calls, Register(c) \/ RegisterName(c) \/ RegisterEmail(c)
  PROVE  IInv'
<1>1. CASE Register(c)
  <2>1. PICK n \in Names, e \in Emails :
           Start(c, [Idle EXCEPT !.op = "register", !.pc = "name", !.name = n, !.email = e])
    BY <1>1 DEF Register
  <2> DEFINE r == [Idle EXCEPT !.op = "register", !.pc = "name", !.name = n, !.email = e]
  <2>2. /\ r \in CallRecord /\ r.op = "register" /\ r.pc = "name" /\ r.acc = 0 /\ r.ref = 0
        /\ r.stale = {}
    BY IdleFacts DEF CallRecord, Ops, Steps
  <2>3. call' = [call EXCEPT ![c] = r] /\ Kept
    BY <1>1, <2>1 DEF Start, Register, histVars, Kept, OnlyCall
  <2> HIDE DEF r
  <2>4. CallOK(r)
    BY <2>2 DEF CallOK, HandsOK, DoneOK, StaleOK, Guarded, Deleting
  <2>5. QED
    BY <2>2, <2>3, <2>4, Sets
<1>2. CASE RegisterName(c)
  <2>1. At(c, "register", "name") /\ Kept
    BY <1>2 DEF RegisterName, histVars, Kept, OnlyCall
  <2>2. call[c].stale \cap {"ended", "consumed"} = {}
    BY <2>1, StaleWhere DEF At, Guarded
  <2>3. CASE Return(c, "error")
    BY <2>1, <2>3, Returns DEF Results
  <2>4. CASE Move(c, "email")
    BY <2>1, <2>2, <2>4, Moves DEF At, Steps, Deleting, Parting
  <2>5. QED
    BY <1>2, <2>3, <2>4 DEF RegisterName
<1>3. CASE RegisterEmail(c)
  <2>1. At(c, "register", "email") /\ Kept
    BY <1>3 DEF RegisterEmail, histVars, Kept, OnlyCall
  <2>2. call[c].stale \cap {"ended", "consumed"} = {}
    BY <2>1, StaleWhere DEF At, Guarded
  <2>3. CASE Return(c, "error")
    BY <2>1, <2>3, Returns DEF Results
  <2>4. CASE Move(c, "user")
    BY <2>1, <2>2, <2>4, Moves DEF At, Steps, Deleting, Parting
  <2>5. QED
    BY <1>3, <2>3, <2>4 DEF RegisterEmail
<1>4. QED
  BY <1>1, <1>2, <1>3

\* A call of Register or Login has its user and goes on to a session.
LEMMA SessionNext ==
  ASSUME Typed, NEW c \in Calls, NEW id \in Nat,
         call' = [call EXCEPT ![c].pc = "session", ![c].uid = id]
  PROVE  \E q \in CallRecord :
           /\ call' = [call EXCEPT ![c] = q] /\ q.pc = "session"
           /\ q.op = call[c].op /\ q.acc = call[c].acc /\ q.ref = call[c].ref
           /\ q.sid = call[c].sid /\ q.stale = call[c].stale /\ q.lost = call[c].lost
<1>1. call[c] \in CallRecord
  BY DEF Typed
<1> DEFINE q == [call[c] EXCEPT !.pc = "session", !.uid = id]
<1>2. /\ q \in CallRecord /\ q.pc = "session"
      /\ q.op = call[c].op /\ q.acc = call[c].acc /\ q.ref = call[c].ref
      /\ q.sid = call[c].sid /\ q.stale = call[c].stale /\ q.lost = call[c].lost
  BY <1>1 DEF CallRecord, Steps
<1>3. call' = [call EXCEPT ![c] = q]
  BY <1>1
<1>4. QED
  BY <1>2, <1>3

\* ... and nothing but the call changes (Login).
LEMMA ToSession ==
  ASSUME IInv, Kept, NEW c \in Calls,
         NEW id \in Nat, call[c].op \in {"register", "login"}, call[c].pc # "done",
         call' = [call EXCEPT ![c].pc = "session", ![c].uid = id]
  PROVE  IInv'
<1>1. PICK q \in CallRecord :
           /\ call' = [call EXCEPT ![c] = q] /\ q.pc = "session"
           /\ q.op = call[c].op /\ q.acc = call[c].acc /\ q.ref = call[c].ref
           /\ q.sid = call[c].sid /\ q.stale = call[c].stale /\ q.lost = call[c].lost
  BY SessionNext DEF IInv
<1>2. call[c].stale \cap {"ended", "consumed"} = {}
  BY StaleWhere DEF Guarded
<1>3. CallOK(q)
  BY <1>1, <1>2 DEF IInv, CallOK, HandsOK, DoneOK, StaleOK, Guarded, Deleting, Parting
<1>4. QED
  BY <1>1, <1>3, Sets

\* Login up to the new session.
LEMMA LoginKeeps ==
  ASSUME IInv, NEW c \in Calls, LoginStep(c)
  PROVE  IInv'
<1>1. CASE Login(c)
  <2>1. PICK n \in Names :
           Start(c, [Idle EXCEPT !.op = "login", !.pc = "name", !.name = n])
    BY <1>1 DEF Login
  <2> DEFINE r == [Idle EXCEPT !.op = "login", !.pc = "name", !.name = n]
  <2>2. /\ r \in CallRecord /\ r.op = "login" /\ r.pc = "name" /\ r.acc = 0 /\ r.ref = 0
        /\ r.stale = {}
    BY IdleFacts DEF CallRecord, Ops, Steps
  <2>3. call' = [call EXCEPT ![c] = r] /\ Kept
    BY <1>1, <2>1 DEF Start, Login, histVars, Kept, OnlyCall
  <2> HIDE DEF r
  <2>4. CallOK(r)
    BY <2>2 DEF CallOK, HandsOK, DoneOK, StaleOK, Guarded, Deleting
  <2>5. QED
    BY <2>2, <2>3, <2>4, Sets
<1>2. CASE LoginUser(c)
  <2>1. At(c, "login", "name") /\ Kept
    BY <1>2 DEF LoginUser, histVars, Kept, OnlyCall
  <2>2. CASE Return(c, "error")
    BY <2>1, <2>2, Returns DEF Results
  <2>3. CASE \E u \in users : call' = [call EXCEPT ![c].pc = "session", ![c].uid = u.id]
    <3>1. PICK u \in users : call' = [call EXCEPT ![c].pc = "session", ![c].uid = u.id]
      BY <2>3
    <3>2. u.id \in Nat
      BY DEF IInv, Typed, UserType
    <3>3. QED
      BY <2>1, <3>1, <3>2, ToSession DEF At
  <2>4. QED
    <3>1. \E ok \in Outcomes(pg) :
            \/ Return(c, "error")
            \/ \E u \in UserByName(call[c].name, ok) :
                 call' = [call EXCEPT ![c].pc = "session", ![c].uid = u.id]
      BY <1>2 DEF LoginUser
    <3>2. \A name, ok : UserByName(name, ok) \subseteq users
      BY DEF UserByName, Found
    <3>3. QED
      BY <2>2, <2>3, <3>1, <3>2
<1>3. QED
  BY <1>1, <1>2 DEF LoginStep

\* Refresh up to its Delete: a spent token and an ended session are refused.
LEMMA RefreshKeeps ==
  ASSUME IInv, NEW c \in Calls, RefreshStep(c)
  PROVE  IInv'
<1>1. CASE Refresh(c)
  <2>1. PICK t \in held :
           Start(c, [Idle EXCEPT !.op = "refresh", !.pc = "get", !.ref = t,
                                 !.stale = Stale(FALSE, t)])
    BY <1>1 DEF Refresh
  <2> DEFINE r == [Idle EXCEPT !.op = "refresh", !.pc = "get", !.ref = t,
                               !.stale = Stale(FALSE, t)]
  <2>2. Stale(FALSE, t) \subseteq {"ended", "loggedOut", "consumed"} /\ t \in Nat
    BY DEF Stale, IInv, Typed, Tokens
  <2>3. /\ r \in CallRecord /\ r.op = "refresh" /\ r.pc = "get" /\ r.acc = 0 /\ r.ref = t
        /\ r.stale = Stale(FALSE, t)
    BY <2>2, IdleFacts DEF CallRecord, Ops, Steps
  <2>4. call' = [call EXCEPT ![c] = r] /\ Kept
    BY <1>1, <2>1 DEF Start, Refresh, histVars, Kept, OnlyCall
  <2>5. /\ "ended" \in Stale(FALSE, t) => SessionOf(t) \in ended
        /\ "consumed" \in Stale(FALSE, t) => t \in consumed
    BY DEF Stale
  <2> HIDE DEF r
  <2>6. CallOK(r)
    BY <2>3, <2>5 DEF CallOK, HandsOK, DoneOK, StaleOK, Guarded, Deleting
  <2>7. QED
    BY <2>3, <2>4, <2>6, Sets
<1>2. CASE RefreshRecord(c)
  <2>1. At(c, "refresh", "get") /\ Kept
    BY <1>2 DEF RefreshRecord, Kept, OnlyCall
  <2>2. CASE Return(c, "error")
    BY <2>1, <2>2, Returns DEF Results
  <2>3. CASE call[c].ref \in byToken /\ Move(c, "user")
    <3>1. "consumed" \notin call[c].stale
      BY <2>1, <2>3 DEF At, IInv, CallOK, StaleOK, SpentGone
    <3>2. QED
      BY <2>1, <2>3, <3>1, Moves DEF At, Steps, Deleting, Parting
  <2>4. QED
    BY <1>2, <2>2, <2>3 DEF RefreshRecord, RefreshGet
<1>3. CASE RefreshUser(c)
  <2>1. At(c, "refresh", "user") /\ Kept
    BY <1>3 DEF RefreshUser, histVars, Kept, OnlyCall
  <2>2. CASE Return(c, "error")
    BY <2>1, <2>2, Returns DEF Results
  <2>3. CASE Move(c, "known")
    BY <2>1, <2>3, Moves DEF At, Steps, Deleting, Parting
  <2>4. QED
    BY <1>3, <2>2, <2>3 DEF RefreshUser
<1>4. CASE RefreshSession(c)
  <2>1. At(c, "refresh", "known") /\ Kept
    BY <1>4 DEF RefreshSession, histVars, Kept, OnlyCall
  <2>2. CASE Return(c, "error")
    BY <2>1, <2>2, Returns DEF Results
  <2>3. CASE sessions[SessionOf(call[c].ref)] # 0 /\ Move(c, "delete")
    <3>1. call[c].ref \in held
      BY <2>1 DEF At, IInv, CallOK, HandsOK
    <3>2. call[c].stale \cap {"ended", "consumed"} = {}
      BY <2>1, <2>3 DEF At, IInv, CallOK, StaleOK, EndedGone, Guarded
    <3>3. QED
      BY <2>1, <2>3, <3>1, <3>2, Moves DEF At, Steps, Deleting, Parting
  <2>4. QED
    BY <1>4, <2>2, <2>3 DEF RefreshSession, SessionKnown
<1>5. QED
  BY <1>1, <1>2, <1>3, <1>4 DEF RefreshStep

\* ValidateToken: an ended session is refused.
LEMMA ValidateKeeps ==
  ASSUME IInv, NEW c \in Calls, ValidateStep(c)
  PROVE  IInv'
<1>1. CASE Validate(c)
  <2>1. PICK t \in held, op \in Guarded :
           Start(c, [Idle EXCEPT !.op = op, !.acc = t, !.stale = Stale(TRUE, t),
                                 !.pc = IF t > agedAccess THEN "revoked" ELSE "done",
                                 !.result = "error"])
    BY <1>1 DEF Validate
  <2> DEFINE pc == IF t > agedAccess THEN "revoked" ELSE "done"
             r == [Idle EXCEPT !.op = op, !.acc = t, !.stale = Stale(TRUE, t), !.pc = pc,
                               !.result = "error"]
  <2>2. /\ Stale(TRUE, t) \subseteq {"ended", "loggedOut", "consumed"} /\ t \in Nat
        /\ pc \in {"revoked", "done"}
    BY DEF Stale, IInv, Typed, Tokens
  <2>3. call' = [call EXCEPT ![c] = r] /\ Kept
    BY <1>1, <2>1 DEF Start, Validate, histVars, Kept, OnlyCall
  <2> HIDE DEF pc
  <2>4. /\ r \in CallRecord /\ r.op = op /\ r.pc = pc /\ r.acc = t /\ r.ref = 0
        /\ r.stale = Stale(TRUE, t) /\ r.result = "error"
    BY <2>2, IdleFacts DEF CallRecord, Ops, Steps, Results
  <2>5. /\ "ended" \in Stale(TRUE, t) => SessionOf(t) \in ended
        /\ "consumed" \notin Stale(TRUE, t)
    BY DEF Stale
  <2> HIDE DEF r
  <2>6. CallOK(r)
    BY <2>2, <2>4, <2>5 DEF CallOK, HandsOK, DoneOK, StaleOK, Guarded, Deleting
  <2>7. QED
    BY <2>2, <2>3, <2>4, <2>6, Sets
<1>2. CASE ValidateRevoked(c)
  <2>1. /\ call[c].op \in Guarded /\ call[c].pc = "revoked"
        /\ Kept
    BY <1>2 DEF ValidateRevoked, histVars, Kept, OnlyCall
  <2>2. CASE Return(c, "error")
    BY <2>1, <2>2, Returns DEF Results
  <2>3. CASE Move(c, "user")
    BY <2>1, <2>3, Moves DEF Steps, Deleting, Parting, Guarded
  <2>4. QED
    BY <1>2, <2>2, <2>3 DEF ValidateRevoked
<1>3. CASE ValidateUser(c)
  <2>1. /\ call[c].op \in Guarded /\ call[c].pc = "user"
        /\ Kept
    BY <1>3 DEF ValidateUser, histVars, Kept, OnlyCall
  <2>2. CASE Return(c, "error")
    BY <2>1, <2>2, Returns DEF Results
  <2>3. CASE Move(c, "known")
    BY <2>1, <2>3, Moves DEF Steps, Deleting, Parting, Guarded
  <2>4. QED
    BY <1>3, <2>2, <2>3 DEF ValidateUser
<1>4. CASE ValidateSession(c)
  <2>1. /\ call[c].op \in Guarded /\ call[c].pc = "known"
        /\ Kept
    BY <1>4 DEF ValidateSession, histVars, Kept, OnlyCall
  <2>2. PICK result \in {"error", "ok", "forbidden"} :
           /\ Return(c, result)
           /\ result = "ok" => sessions[SessionOf(call[c].acc)] # 0
    BY <1>4 DEF ValidateSession, SessionKnown
  <2>3. result = "ok" => call[c].stale \cap {"ended", "consumed"} = {}
    BY <2>1, <2>2 DEF IInv, CallOK, StaleOK, EndedGone, Guarded
  <2>4. QED
    BY <2>1, <2>2, <2>3, Returns DEF Results
<1>5. QED
  BY <1>1, <1>2, <1>3, <1>4 DEF ValidateStep

\* A Logout comes in.
LEMMA LogoutBegins ==
  ASSUME IInv, NEW c \in Calls, Logout(c)
  PROVE  IInv'
<1>0. PICK t \in held : \E ref \in {0, t} :
         LET valid == t > agedAccess
             next  == IF valid THEN "revoke" ELSE IF ref # 0 THEN "delete" ELSE "done"
         IN  Start(c, [Idle EXCEPT !.op = "logout", !.pc = next, !.acc = t, !.ref = ref,
                                   !.sid = IF valid THEN SessionOf(t) ELSE 0, !.result = "ok"])
  BY DEF Logout
<1>1. PICK ref \in {0, t} :
         LET valid == t > agedAccess
             next  == IF valid THEN "revoke" ELSE IF ref # 0 THEN "delete" ELSE "done"
         IN  Start(c, [Idle EXCEPT !.op = "logout", !.pc = next, !.acc = t, !.ref = ref,
                                   !.sid = IF valid THEN SessionOf(t) ELSE 0, !.result = "ok"])
  BY <1>0
<1> DEFINE valid == t > agedAccess
           next  == IF valid THEN "revoke" ELSE IF ref # 0 THEN "delete" ELSE "done"
           sid   == IF valid THEN SessionOf(t) ELSE 0
           r == [Idle EXCEPT !.op = "logout", !.pc = next, !.acc = t, !.ref = ref,
                             !.sid = sid, !.result = "ok"]
<1>2. call' = [call EXCEPT ![c] = r] /\ Kept
  BY <1>1 DEF Start, Logout, Kept, OnlyCall
<1>3. /\ t \in Nat /\ ref \in Nat /\ sid \in 0..created /\ sid \in Nat
      /\ \/ next = "revoke" /\ sid # 0
         \/ next = "delete" /\ ref \in held /\ sid = 0
         \/ next = "done"
  BY DEF IInv, Typed, Tokens
<1> HIDE DEF next, sid
<1>4. /\ r \in CallRecord /\ r.op = "logout" /\ r.pc = next /\ r.acc = t /\ r.ref = ref
      /\ r.sid = sid /\ r.stale = {} /\ r.lost = FALSE
  BY <1>3, IdleFacts DEF CallRecord, Ops, Steps, Results, Parting, Deleting
<1> HIDE DEF r
<1>5. CallOK(r)
  BY <1>3, <1>4 DEF CallOK, HandsOK, DoneOK, StaleOK, Guarded, Deleting, Parting
<1>6. QED
  BY <1>2, <1>3, <1>4, <1>5, Sets

-----------------------------------------------------------------------------
(* Steps that change a store.                                               *)

Exact(records, current) ==
  /\ \A s \in Sessions : current[s] # 0 => current[s] \in records /\ SessionOf(current[s]) = s
  /\ \A t \in records : current[SessionOf(t)] = t

\* The memory store is exact whatever tokens are issued meanwhile.
LEMMA ExactLater ==
  ASSUME Typed, Grows, redis' = redis, byToken' \subseteq Tokens,
         ~redis => Exact(byToken', bySession')
  PROVE  MemoryStoreExact'
BY DEF Typed, Grows, Exact, MemoryStoreExact, Sessions, SessionOf

\* A save puts the token in the place of its session's previous one.
LEMMA SaveFacts ==
  ASSUME Typed, MemoryStoreExact, NEW t \in Tokens, Save(t)
  PROVE  /\ byToken' \subseteq byToken \cup {t}
         /\ bySession' \in [Sessions -> 0..Len(issued)]
         /\ ~redis => Exact(byToken', bySession')
<1> DEFINE s == SessionOf(t)
           n == Len(issued)
<1>0. /\ n \in Nat /\ created \in Nat /\ MaxSessions \in Nat /\ created <= MaxSessions
      /\ byToken \subseteq 1..n /\ t \in 1..n /\ bySession \in [Sessions -> 0..n]
      /\ \A u \in 1..n : SessionOf(u) \in 1..created
  BY SessionAssumption DEF Typed, Tokens
<1> HIDE DEF n
<1>1. s \in Sessions /\ t \in 1..n /\ n \in Nat
  BY <1>0 DEF Sessions
<1>2. /\ bySession \in [Sessions -> 0..n] /\ 0 \notin byToken
      /\ \A u \in byToken : SessionOf(u) \in Sessions
  BY <1>0 DEF Sessions
<1> HIDE DEF s
<1>3. byToken' \subseteq byToken \cup {t} /\ bySession' = [bySession EXCEPT ![s] = t]
  BY DEF Save, RedisSave, MemorySave, s
<1>4. bySession' \in [Sessions -> 0..n]
  BY <1>1, <1>2, <1>3
<1>5. ASSUME ~redis PROVE Exact(byToken', bySession')
  <2>1. byToken' = (byToken \ {bySession[s]}) \cup {t}
    BY <1>5 DEF Save, MemorySave, s
  <2>2. /\ \A r \in Sessions : bySession[r] # 0 =>
              bySession[r] \in byToken /\ SessionOf(bySession[r]) = r
        /\ \A u \in byToken : bySession[SessionOf(u)] = u
    BY <1>5 DEF MemoryStoreExact
  <2>3. ASSUME NEW r \in Sessions, bySession'[r] # 0
        PROVE  bySession'[r] \in byToken' /\ SessionOf(bySession'[r]) = r
    <3>1. CASE r = s
      BY <1>1, <1>2, <1>3, <2>1, <3>1 DEF s
    <3>2. CASE r # s
      <4>1. bySession'[r] = bySession[r]
        BY <1>1, <1>2, <1>3, <3>2
      <4>2. bySession[r] \in byToken /\ SessionOf(bySession[r]) = r
        BY <2>2, <2>3, <4>1
      <4>3. bySession[r] # bySession[s]
        BY <1>1, <1>2, <2>2, <3>2, <4>2
      <4>4. QED
        BY <2>1, <4>1, <4>2, <4>3
    <3>3. QED
      BY <3>1, <3>2
  <2>4. ASSUME NEW u \in byToken' PROVE bySession'[SessionOf(u)] = u
    <3>1. CASE u = t
      BY <1>1, <1>2, <1>3, <3>1 DEF s
    <3>2. CASE u # t
      BY <1>1, <1>2, <1>3, <2>1, <2>2, <2>4, <3>2
    <3>3. QED
      BY <3>1, <3>2
  <2>5. QED
    BY <2>3, <2>4 DEF Exact
<1>6. QED
  BY <1>3, <1>4, <1>5 DEF n

\* The memory store drops record and session together.
LEMMA DropFacts ==
  ASSUME Typed, MemoryStoreExact, ~redis, NEW t, NEW s \in Sessions,
         MemoryDelete(t) \/ MemoryDeleteBySession(s)
  PROVE  /\ byToken' \subseteq byToken
         /\ bySession' \in [Sessions -> 0..Len(issued)]
         /\ Exact(byToken', bySession')
<1>1. \A u \in byToken : SessionOf(u) \in Sessions /\ u \in Tokens
  BY SessionAssumption DEF Typed, Sessions
<1>2. CASE MemoryDelete(t)
  <2>1. CASE t \notin byToken
    BY <1>2, <2>1 DEF MemoryDelete, Typed, MemoryStoreExact, Exact
  <2>2. CASE t \in byToken
    <3> DEFINE r == SessionOf(t)
    <3>1. r \in Sessions /\ bySession \in [Sessions -> 0..Len(issued)] /\ bySession[r] = t
      BY <1>1, <2>2 DEF Typed, MemoryStoreExact
    <3> HIDE DEF r
    <3>2. byToken' = byToken \ {t} /\ bySession' = [bySession EXCEPT ![r] = 0]
      BY <1>2, <2>2 DEF MemoryDelete, r
    <3>3. bySession' \in [Sessions -> 0..Len(issued)]
      BY <3>1, <3>2 DEF Typed
    <3>4. Exact(byToken', bySession')
      BY <1>1, <3>1, <3>2 DEF MemoryStoreExact, Exact, r
    <3>5. QED
      BY <3>2, <3>3, <3>4
  <2>3. QED
    BY <2>1, <2>2
<1>3. CASE MemoryDeleteBySession(s)
  BY <1>1, <1>3 DEF MemoryDeleteBySession, Typed, MemoryStoreExact, Exact, Tokens
<1>4. QED
  BY <1>2, <1>3

\* ... the record too.
LEMMA DeleteDrops ==
  ASSUME Typed, MemoryStoreExact, ~redis, NEW t \in Tokens, MemoryDelete(t)
  PROVE  t \notin byToken'
BY DEF MemoryDelete

\* A step of call c that takes records out of the store, and may end sessions
\* that are gone.
LEMMA Drops ==
  ASSUME IInv, NEW c \in Calls,
         UNCHANGED <<redis, users, sessions, created, issued, held, consumed>>,
         agedAccess' = agedAccess, agedRefresh' = agedRefresh,
         byToken' \subseteq byToken, bySession' \in [Sessions -> 0..Len(issued)],
         ~redis => Exact(byToken', bySession'),
         ended \subseteq ended', ended' \subseteq 1..created,
         \A s \in ended' : sessions[s] = 0,
         call' \in [Calls -> CallRecord], \A d \in Calls \ {c} : call'[d] = call[d],
         call'[c].pc # "save", CallOK(call[c])'
  PROVE  IInv'
<1>1. Typed'
  BY DEF IInv, Typed, Sessions, Tokens, SessionOf
<1>2. Grows
  BY DEF IInv, Typed, Grows, Tokens
<1>3. MemoryStoreExact'
  BY <1>2, ExactLater DEF IInv, Typed
<1>4. EndedGone' /\ SpentGone'
  BY DEF IInv, EndedGone, SpentGone
<1>5. QED
  BY <1>1, <1>2, <1>3, <1>4, StepOfOne

\* A new user is one.
LEMMA UserFacts ==
  ASSUME NEW i \in Nat, NEW n \in Names \cup {""}, NEW e \in Emails \cup {""},
         NEW r \in {"admin", "user"}
  PROVE  LET u == [id |-> i, name |-> n, email |-> e, role |-> r]
         IN  u \in UserType /\ u.id = i
BY DEF UserType

\* Register stores its user.
LEMMA RegisterUserKeeps ==
  ASSUME IInv, NEW c \in Calls, RegisterUser(c)
  PROVE  IInv'
<1> DEFINE user == [id |-> Cardinality(users) + 1, name |-> call[c].name,
                    email |-> call[c].email, role |-> Role(call[c].name)]
<1>1. /\ At(c, "register", "user")
      /\ UNCHANGED <<redis, sessions, created, issued, agedAccess, agedRefresh, refreshVars,
                     held, ended, consumed>>
  BY DEF RegisterUser, histVars
<1>2. call[c].stale \cap {"ended", "consumed"} = {}
  BY <1>1, StaleWhere DEF At, Guarded
<1>3. CASE Return(c, "error") /\ UNCHANGED users
  BY <1>1, <1>3, Returns DEF Results, Kept, storeVars
<1>4. CASE SetUser(user) /\ call' = [call EXCEPT ![c].pc = "session", ![c].uid = user.id]
  <2>1. user \in UserType /\ user.id \in Nat
    <3>1. Cardinality(users) \in Nat
      BY FS_CardinalityType DEF IInv, Typed
    <3>2. call[c] \in CallRecord
      BY DEF IInv, Typed
    <3>3. /\ call[c].name \in Names \cup {""} /\ call[c].email \in Emails \cup {""}
          /\ Role(call[c].name) \in {"admin", "user"}
      BY <3>2 DEF CallRecord, Role
    <3>4. Cardinality(users) + 1 \in Nat
      BY <3>1
    <3>5. QED
      BY <3>3, <3>4, UserFacts
  <2> HIDE DEF user
  <2>2. users' \subseteq UserType /\ IsFiniteSet(users')
    BY <1>4, <2>1, FS_AddElement DEF SetUser, IInv, Typed
  <2>3. PICK q \in CallRecord :
           /\ call' = [call EXCEPT ![c] = q] /\ q.pc = "session"
           /\ q.op = call[c].op /\ q.acc = call[c].acc /\ q.ref = call[c].ref
           /\ q.sid = call[c].sid /\ q.stale = call[c].stale /\ q.lost = call[c].lost
    BY <1>4, <2>1, SessionNext DEF IInv
  <2>4. /\ call' \in [Calls -> CallRecord] /\ call'[c] = q
        /\ \A d \in Calls \ {c} : call'[d] = call[d]
    BY <2>3, Replaced DEF IInv
  <2>5. Typed' /\ Grows
    BY <1>1, <2>2, <2>4 DEF IInv, Typed, Grows, refreshVars, Sessions, Tokens, SessionOf
  <2>6. EndedGone' /\ SpentGone' /\ MemoryStoreExact'
    BY <1>1 DEF IInv, EndedGone, SpentGone, MemoryStoreExact, refreshVars, Sessions, SessionOf
  <2>7. CallOK(call[c])'
    BY <1>1, <1>2, <2>3, <2>4 DEF At, IInv, CallOK, HandsOK, DoneOK, StaleOK, Guarded,
                                  Deleting, Parting
  <2>8. QED
    BY <1>1, <2>3, <2>4, <2>5, <2>6, <2>7, StepOfOne
<1>5. QED
  BY <1>3, <1>4 DEF RegisterUser

\* Call c has drawn token n for session s.
ToSave(c, s, l, n) ==
  \/ call' = [call EXCEPT ![c].pc = "save", ![c].sid = s, ![c].lost = l, ![c].new = n]
  \/ /\ call' = [call EXCEPT ![c].pc = "save", ![c].sid = s, ![c].new = n]
     /\ l = call[c].lost

\* The record of that call.
LEMMA SaveNext ==
  ASSUME Typed, NEW c \in Calls, NEW s \in Nat, NEW n \in Nat, NEW l \in BOOLEAN,
         ToSave(c, s, l, n)
  PROVE  \E q \in CallRecord :
           /\ call' = [call EXCEPT ![c] = q] /\ q.pc = "save" /\ q.sid = s /\ q.new = n
           /\ q.lost = l /\ q.op = call[c].op /\ q.acc = call[c].acc /\ q.ref = call[c].ref
           /\ q.stale = call[c].stale
<1>1. call[c] \in CallRecord
  BY DEF Typed
<1> DEFINE q == [call[c] EXCEPT !.pc = "save", !.sid = s, !.lost = l, !.new = n]
           p == [call[c] EXCEPT !.pc = "save", !.sid = s, !.new = n]
<1>2. CASE call' = [call EXCEPT ![c].pc = "save", ![c].sid = s, ![c].lost = l, ![c].new = n]
  <2>1. /\ q \in CallRecord /\ q.pc = "save" /\ q.sid = s /\ q.new = n
        /\ q.lost = l /\ q.op = call[c].op /\ q.acc = call[c].acc /\ q.ref = call[c].ref
        /\ q.stale = call[c].stale
    BY <1>1 DEF CallRecord, Steps
  <2>2. call' = [call EXCEPT ![c] = q]
    BY <1>1, <1>2 DEF CallRecord
  <2>3. QED
    BY <2>1, <2>2
<1>3. CASE call' = [call EXCEPT ![c].pc = "save", ![c].sid = s, ![c].new = n] /\ l = call[c].lost
  <2>1. /\ p \in CallRecord /\ p.pc = "save" /\ p.sid = s /\ p.new = n
        /\ p.lost = l /\ p.op = call[c].op /\ p.acc = call[c].acc /\ p.ref = call[c].ref
        /\ p.stale = call[c].stale
    BY <1>1, <1>3 DEF CallRecord, Steps
  <2>2. call' = [call EXCEPT ![c] = p]
    BY <1>1, <1>3 DEF CallRecord
  <2>3. QED
    BY <2>1, <2>2
<1>4. QED
  BY <1>2, <1>3 DEF ToSave

\* A step that draws the next token, new to everybody.
LEMMA Draws ==
  ASSUME IInv, NEW c \in Calls, NEW s \in Nat, NEW u \in Nat, NEW l \in BOOLEAN, Draw(c, s, u),
         ToSave(c, s, l, Len(issued) + 1),
         UNCHANGED <<redis, users, held, agedAccess, agedRefresh, ended, consumed>>,
         created' \in Nat, created <= created', created' <= MaxSessions, s \in 1..created',
         sessions' \in [Sessions -> Nat], \A x \in 1..created : sessions'[x] = sessions[x],
         byToken' \subseteq byToken, bySession' \in [Sessions -> 0..Len(issued)],
         ~redis => Exact(byToken', bySession'),
         call[c].op # "logout", call[c].pc \notin {"done", "get", "known", "revoked", "user"},
         call[c].op = "refresh" /\ ~l => call[c].ref \notin byToken'
  PROVE  IInv'
<1> DEFINE n == Len(issued)
<1>1. PICK q \in CallRecord :
           /\ call' = [call EXCEPT ![c] = q] /\ q.pc = "save" /\ q.sid = s /\ q.new = n + 1
           /\ q.lost = l /\ q.op = call[c].op /\ q.acc = call[c].acc /\ q.ref = call[c].ref
           /\ q.stale = call[c].stale
  <2>1. n + 1 \in Nat
    BY DEF IInv, Typed
  <2>2. Typed
    BY DEF IInv
  <2>3. QED
    BY <2>1, <2>2, SaveNext
<1>2. /\ call' \in [Calls -> CallRecord] /\ call'[c] = q
      /\ \A d \in Calls \ {c} : call'[d] = call[d]
  BY <1>1, Replaced DEF IInv
<1>3. /\ n \in Nat /\ issued' \in Seq([sid : Nat, uid : Nat]) /\ Len(issued') = n + 1
      /\ \A t \in 1..n : issued'[t] = issued[t]
      /\ issued'[n + 1].sid = s
  BY DEF Draw, IInv, Typed
<1>4. /\ created \in Nat /\ held \subseteq 1..n /\ byToken \subseteq 1..n /\ consumed \subseteq held
      /\ \A t \in 1..n : issued[t].sid \in 1..created
      /\ ended \subseteq 1..created
  BY DEF IInv, Typed, Tokens, SessionOf
<1> HIDE DEF n
<1>5. Typed'
  <2>1. \A t \in 1..(n + 1) : issued'[t].sid \in 1..created'
    <3>1. \A t \in 1..(n + 1) : t \in 1..n \/ t = n + 1
      BY <1>3
    <3>2. ASSUME NEW t \in 1..n PROVE issued'[t].sid \in 1..created'
      <4>1. issued'[t].sid = issued[t].sid /\ issued[t].sid \in 1..created
        BY <1>3, <1>4
      <4>2. QED
        BY <1>4, <4>1
    <3>3. QED
      BY <1>3, <3>1, <3>2
  <2>2. bySession' \in [Sessions -> 0..(n + 1)]
    BY <1>3 DEF n
  <2>3. held' \subseteq 1..(n + 1) /\ byToken' \subseteq 1..(n + 1) /\ ended' \subseteq 1..created'
    BY <1>3, <1>4
  <2>4. QED
    BY <1>2, <1>3, <1>4, <2>1, <2>2, <2>3 DEF IInv, Typed, Sessions, Tokens, SessionOf
<1>6. Grows
  <2>1. n <= n + 1
    BY <1>3
  <2>2. QED
    BY <1>3, <1>4, <2>1 DEF Grows, Tokens, n
<1>7. EndedGone' /\ SpentGone'
  BY <1>4 DEF IInv, EndedGone, SpentGone
<1>8. MemoryStoreExact'
  <2>1. byToken' \subseteq Tokens
    BY <1>4 DEF Tokens, n
  <2>2. QED
    BY <1>6, <2>1, ExactLater DEF IInv
<1>9. call[c].stale \cap {"ended", "consumed"} = {}
  BY StaleWhere
<1>10. CallOK(call[c])'
  <2>1. n + 1 \in 1..Len(issued') /\ n + 1 \notin held
    BY <1>3, <1>4
  <2>2. HandsOK(call[c])'
    BY <1>1, <1>2, <2>1 DEF IInv, CallOK, HandsOK, Tokens, Deleting
  <2>3. DoneOK(call[c])'
    BY <1>1, <1>2 DEF DoneOK
  <2>4. StaleOK(call[c])'
    BY <1>1, <1>2, <1>9 DEF StaleOK
  <2>5. QED
    BY <2>2, <2>3, <2>4 DEF CallOK
<1>11. call'[c].new \notin Tokens
  BY <1>1, <1>2, <1>3 DEF Tokens, n
<1>12. QED
  BY <1>2, <1>5, <1>6, <1>7, <1>8, <1>10, <1>11, StepOfOne

\* Register and Login store a session under an id of its own.
LEMMA NewSessionKeeps ==
  ASSUME IInv, NEW c \in Calls, NewSession(c)
  PROVE  IInv'
<1> DEFINE s == created + 1
<1>1. /\ call[c].pc = "session" /\ created < MaxSessions /\ created' = s
      /\ Draw(c, s, call[c].uid)
      /\ ToSave(c, s, call[c].lost, Len(issued) + 1)
      /\ UNCHANGED <<redis, users, held, agedAccess, agedRefresh, byToken, bySession, ended,
                     consumed>>
      /\ sessions' = [sessions EXCEPT ![s] = call[c].uid] \/ sessions' = sessions
  BY DEF NewSession, ToSave, refreshVars, histVars
<1>2. /\ s \in Nat /\ created \in Nat /\ MaxSessions \in Nat /\ call[c].uid \in Nat
      /\ call[c].lost \in BOOLEAN /\ sessions \in [Sessions -> Nat]
  <2>1. call[c] \in CallRecord
    BY DEF IInv, Typed
  <2>2. call[c].uid \in Nat /\ call[c].lost \in BOOLEAN
    BY <2>1 DEF CallRecord
  <2>3. QED
    BY <2>2, SessionAssumption DEF IInv, Typed
<1>3. /\ created' \in Nat /\ created <= created' /\ created' <= MaxSessions /\ s \in 1..created'
      /\ s \notin 1..created
  BY <1>1, <1>2
<1>4. /\ sessions' \in [Sessions -> Nat] /\ \A x \in 1..created : sessions'[x] = sessions[x]
  <2>1. \A x \in 1..created : x \in Sessions /\ x # s
    BY <1>1, <1>2, <1>3 DEF Sessions
  <2> HIDE DEF s
  <2>2. QED
    BY <1>1, <1>2, <2>1
<1>5. /\ byToken' \subseteq byToken /\ bySession' \in [Sessions -> 0..Len(issued)]
      /\ ~redis => Exact(byToken', bySession')
  BY <1>1 DEF IInv, Typed, MemoryStoreExact, Exact
<1>6. call[c].op \in {"register", "login"}
  BY <1>1 DEF IInv, CallOK, HandsOK
<1> HIDE DEF s
<1>7. QED
  BY <1>1, <1>2, <1>3, <1>4, <1>5, <1>6, Draws

\* The pair is saved and returned; a Refresh has spent its token.
LEMMA IssueKeeps ==
  ASSUME IInv, NEW c \in Calls, Issue(c)
  PROVE  IInv'
<1> DEFINE n == call[c].new
<1>1. /\ call[c].pc = "save"
      /\ UNCHANGED <<redis, users, sessions, created, issued, agedAccess, agedRefresh, ended>>
  BY DEF Issue, storeVars
<1>2. n \in Tokens /\ n \notin held
  BY <1>1 DEF IInv, CallOK, HandsOK
<1>3. call[c].stale \cap {"ended", "consumed"} = {}
  BY <1>1, StaleWhere
<1>4. \/ /\ Save(n) /\ Return(c, "ok") /\ held' = held \cup {n}
         /\ consumed' = IF call[c].op = "refresh" /\ ~call[c].lost
                        THEN consumed \cup {call[c].ref} ELSE consumed
      \/ /\ UNCHANGED <<byToken, bySession>> /\ Return(c, "error") /\ held' = held
         /\ consumed' = consumed
  BY DEF Issue, refreshVars
<1>5. CallOK(call[c]) /\ Typed /\ held \subseteq held'
  BY <1>4 DEF IInv
<1>6. /\ call' \in [Calls -> CallRecord] /\ \A d \in Calls \ {c} : call'[d] = call[d]
      /\ call'[c].pc = "done" /\ CallOK(call[c])'
  <2>1. PICK result \in Results : Return(c, result)
    BY <1>4 DEF Results
  <2>2. QED
    BY <1>3, <1>5, <2>1, ReturnOK
<1>7. /\ byToken' \subseteq byToken \cup {n} /\ bySession' \in [Sessions -> 0..Len(issued)]
      /\ ~redis => Exact(byToken', bySession')
  <2>1. CASE Save(n)
    BY <1>2, <2>1, SaveFacts DEF IInv
  <2>2. CASE UNCHANGED <<byToken, bySession>>
    BY <2>2 DEF IInv, Typed, MemoryStoreExact, Exact
  <2>3. QED
    BY <1>4, <2>1, <2>2
<1>8. /\ held' \subseteq held \cup {n} /\ consumed \subseteq consumed' /\ consumed \subseteq held
      /\ \A t \in consumed' : \/ t \in consumed
                              \/ call[c].op = "refresh" /\ ~call[c].lost /\ t = call[c].ref
  BY <1>4 DEF IInv, Typed
<1>9. call[c].op = "refresh" /\ ~call[c].lost => call[c].ref \in held /\ call[c].ref \notin byToken
  BY <1>1, <1>5 DEF CallOK, HandsOK, DoneOK
<1> HIDE DEF n
<1>10. Typed'
  <2>1. consumed' \subseteq held'
    BY <1>5, <1>8, <1>9
  <2>2. held' \subseteq Tokens /\ byToken' \subseteq Tokens
    BY <1>2, <1>5, <1>7, <1>8 DEF Typed
  <2>3. QED
    BY <1>1, <1>5, <1>6, <1>7, <2>1, <2>2 DEF Typed, Sessions, Tokens, SessionOf
<1>11. Grows
  BY <1>1, <1>2, <1>5, <1>7, <1>8 DEF Grows, Typed, Tokens
<1>12. EndedGone' /\ SpentGone'
  <2>1. EndedGone'
    BY <1>1 DEF IInv, EndedGone
  <2>2. SpentGone'
    BY <1>2, <1>7, <1>8, <1>9 DEF IInv, SpentGone
  <2>3. QED
    BY <2>1, <2>2
<1>13. MemoryStoreExact'
  <2>1. byToken' \subseteq Tokens
    BY <1>2, <1>5, <1>7 DEF Typed
  <2>2. QED
    BY <1>1, <1>5, <1>7, <1>11, <2>1, ExactLater
<1>14. \A t \in held' \ held : call[c].pc = "save" /\ t = call[c].new
  BY <1>1, <1>8 DEF n
<1>15. QED
  BY <1>6, <1>10, <1>11, <1>12, <1>13, <1>14, StepOfOne

\* A Logout past its session's row comes to its end or goes on to its token.
LEMMA LogoutEnds ==
  ASSUME IInv, NEW c \in Calls, call[c].op = "logout", call[c].pc \in Parting,
         UNCHANGED <<redis, users, sessions, created, held, consumed>>,
         agedAccess' = agedAccess, agedRefresh' = agedRefresh,
         byToken' \subseteq byToken, bySession' \in [Sessions -> 0..Len(issued)],
         ~redis => Exact(byToken', bySession'), FinishLogout(c)
  PROVE  IInv'
<1>1. /\ Return(c, "ok") /\ issued' = issued
      /\ ended' = IF call[c].sid # 0 /\ ~call[c].lost THEN ended \cup {call[c].sid} ELSE ended
  BY DEF FinishLogout
<1>2. call[c].stale \cap {"ended", "consumed"} = {}
  BY StaleWhere DEF Parting, Deleting, Guarded
<1>3. CallOK(call[c]) /\ Typed /\ created \in Nat /\ call[c].sid \in 0..created
  BY DEF IInv, CallOK, HandsOK, Typed
<1>4. /\ ended \subseteq ended' /\ ended' \subseteq 1..created
      /\ \A s \in ended' : sessions[s] = 0
  <2>1. call[c].sid # 0 /\ ~call[c].lost =>
           sessions[call[c].sid] = 0 /\ call[c].sid \in 1..created
    BY <1>3 DEF CallOK, DoneOK
  <2>2. QED
    BY <1>1, <2>1 DEF IInv, Typed, EndedGone
<1>5. /\ call' \in [Calls -> CallRecord] /\ \A d \in Calls \ {c} : call'[d] = call[d]
      /\ call'[c].pc = "done" /\ CallOK(call[c])'
  <2>1. held \subseteq held' /\ "ok" \in Results
    BY DEF Results
  <2>2. QED
    BY <1>1, <1>2, <1>3, <2>1, ReturnOK
<1>6. QED
  BY <1>1, <1>4, <1>5, Drops

\* A step that takes records out of the store and moves the call on to the
\* deletion of its token.
LEMMA DropMoves ==
  ASSUME IInv, NEW c \in Calls, call[c].op \in {"refresh", "logout"},
         call[c].pc \in Parting, call[c].ref \in held, NEW pc \in Deleting, Move(c, pc),
         UNCHANGED <<redis, users, sessions, created, issued, held, ended, consumed>>,
         agedAccess' = agedAccess, agedRefresh' = agedRefresh,
         byToken' \subseteq byToken, bySession' \in [Sessions -> 0..Len(issued)],
         ~redis => Exact(byToken', bySession')
  PROVE  IInv'
<1>1. PICK q \in CallRecord :
           /\ q = [call[c] EXCEPT !.pc = pc] /\ q.pc = pc
           /\ q.op = call[c].op /\ q.acc = call[c].acc /\ q.ref = call[c].ref
           /\ q.sid = call[c].sid /\ q.stale = call[c].stale /\ q.lost = call[c].lost
  BY Moved DEF IInv, Deleting, Steps, Parting
<1>2. call' = [call EXCEPT ![c] = q]
  BY <1>1 DEF Move
<1>3. /\ call' \in [Calls -> CallRecord] /\ call'[c] = q
      /\ \A d \in Calls \ {c} : call'[d] = call[d]
  BY <1>2, Replaced DEF IInv
<1>4. call[c].stale \cap {"ended", "consumed"} = {}
  BY StaleWhere DEF Parting, Deleting, Guarded
<1>5. CallOK(call[c])'
  <2>1. CallOK(call[c])
    BY DEF IInv
  <2>2. HandsOK(call[c])' /\ StaleOK(call[c])'
    BY <1>1, <1>3, <1>4, <2>1 DEF CallOK, HandsOK, StaleOK, Deleting, Guarded
  <2>3. DoneOK(call[c])'
    BY <1>1, <1>3, <2>1 DEF CallOK, DoneOK, Deleting
  <2>4. QED
    BY <2>2, <2>3 DEF CallOK
<1>6. QED
  <2>1. ended \subseteq 1..created /\ \A s \in ended : sessions[s] = 0
    BY DEF IInv, Typed, EndedGone
  <2>2. call'[c].pc # "save"
    BY <1>1, <1>3 DEF Deleting
  <2>3. QED
    BY <1>3, <1>5, <2>1, <2>2, Drops

\* A Logout that is done with the tokens of its session.
LEMMA LogoutGoesOnKeeps ==
  ASSUME IInv, NEW c \in Calls, call[c].op = "logout", call[c].pc \in {"tokens", "pipeline"},
         UNCHANGED <<redis, users, sessions, created, held, consumed>>,
         agedAccess' = agedAccess, agedRefresh' = agedRefresh,
         byToken' \subseteq byToken, bySession' \in [Sessions -> 0..Len(issued)],
         ~redis => Exact(byToken', bySession'), LogoutGoesOn(c)
  PROVE  IInv'
<1>1. call[c].pc \in Parting
  BY DEF Parting
<1>2. CASE FinishLogout(c)
  BY <1>1, <1>2, LogoutEnds
<1>3. CASE call[c].ref # 0 /\ Move(c, "delete") /\ UNCHANGED <<issued, ended, loggedOut>>
  <2>1. call[c].ref \in held
    BY <1>3 DEF IInv, CallOK, HandsOK
  <2>2. "delete" \in Deleting
    BY DEF Deleting
  <2>3. QED
    BY <1>1, <1>3, <2>1, <2>2, DropMoves
<1>4. QED
  BY <1>2, <1>3 DEF LogoutGoesOn

\* Logout writes the blacklist.
LEMMA LogoutRevokeKeeps ==
  ASSUME IInv, NEW c \in Calls, LogoutRevoke(c)
  PROVE  IInv'
<1>1. At(c, "logout", "revoke") /\ Move(c, "drop") /\ Kept
  BY DEF LogoutRevoke, histVars, Kept
<1>2. PICK q \in CallRecord :
           /\ q = [call[c] EXCEPT !.pc = "drop"] /\ q.pc = "drop"
           /\ q.op = call[c].op /\ q.acc = call[c].acc /\ q.ref = call[c].ref
           /\ q.sid = call[c].sid /\ q.stale = call[c].stale /\ q.lost = call[c].lost
  <2>1. Typed /\ "drop" \in Steps
    BY DEF IInv, Steps
  <2>2. QED
    BY <2>1, Moved
<1>3. call[c].stale \cap {"ended", "consumed"} = {}
  BY <1>1, StaleWhere DEF At, Guarded
<1>4. CallOK(q)
  BY <1>1, <1>2, <1>3 DEF At, IInv, CallOK, HandsOK, DoneOK, StaleOK, Guarded, Deleting, Parting
<1>5. call' = [call EXCEPT ![c] = q]
  BY <1>1, <1>2 DEF Move
<1>6. QED
  BY <1>1, <1>2, <1>4, <1>5, Sets

\* Logout deletes its session.
LEMMA LogoutSessionKeeps ==
  ASSUME IInv, NEW c \in Calls, LogoutSession(c)
  PROVE  IInv'
<1>1. PICK ok \in BOOLEAN :
         /\ sessions' = IF ok THEN [sessions EXCEPT ![call[c].sid] = 0] ELSE sessions
         /\ call' = [call EXCEPT ![c].pc = "tokens", ![c].lost = ~ok]
  BY Flags DEF LogoutSession
<1>2. /\ At(c, "logout", "drop")
      /\ UNCHANGED <<redis, users, created, issued, agedAccess, agedRefresh, byToken, bySession,
                     held, ended, consumed>>
  BY DEF LogoutSession, refreshVars, histVars
<1> DEFINE q == [call[c] EXCEPT !.pc = "tokens", !.lost = ~ok]
<1>3. /\ q \in CallRecord /\ q.pc = "tokens" /\ q.lost = ~ok
      /\ q.op = call[c].op /\ q.acc = call[c].acc /\ q.ref = call[c].ref
      /\ q.sid = call[c].sid /\ q.stale = call[c].stale
  <2>1. call[c] \in CallRecord
    BY DEF IInv, Typed
  <2>2. PICK lost \in BOOLEAN : lost = ~ok
    OBVIOUS
  <2>3. QED
    BY <2>1, <2>2 DEF CallRecord, Steps, Parting
<1>4. call' = [call EXCEPT ![c] = q]
  BY <1>1
<1> HIDE DEF q
<1>5. /\ call' \in [Calls -> CallRecord] /\ call'[c] = q
      /\ \A d \in Calls \ {c} : call'[d] = call[d]
  BY <1>3, <1>4, Replaced DEF IInv
<1>6. call[c].sid \in 1..created /\ created \in Nat
  BY <1>2 DEF At, IInv, CallOK, HandsOK, Typed
<1>7. call[c].sid \in Sessions
  BY <1>6, SessionAssumption DEF IInv, Typed, Sessions
<1>8. /\ sessions' \in [Sessions -> Nat]
      /\ ok => sessions'[call[c].sid] = 0
      /\ \A s \in 1..created : sessions[s] = 0 => sessions'[s] = 0
  <2>1. sessions \in [Sessions -> Nat] /\ \A s \in 1..created : s \in Sessions
    BY <1>6, SessionAssumption DEF IInv, Typed, Sessions
  <2>2. QED
    BY <1>1, <1>7, <2>1
<1>9. Typed'
  BY <1>2, <1>5, <1>8 DEF IInv, Typed, Sessions, Tokens, SessionOf
<1>10. Grows
  BY <1>2, <1>6, <1>8 DEF Grows, IInv, Typed
<1>11. EndedGone' /\ SpentGone' /\ MemoryStoreExact'
  BY <1>2, <1>8 DEF IInv, Typed, EndedGone, SpentGone, MemoryStoreExact, Sessions, SessionOf
<1>12. call[c].stale \cap {"ended", "consumed"} = {}
  BY <1>2, StaleWhere DEF At, Guarded
<1>13. CallOK(call[c])'
  <2>1. CallOK(call[c])
    BY DEF IInv
  <2>2. HandsOK(call[c])' /\ StaleOK(call[c])'
    BY <1>2, <1>3, <1>5, <1>6, <1>12, <2>1 DEF At, CallOK, HandsOK, StaleOK, Deleting, Guarded
  <2>3. DoneOK(call[c])'
    BY <1>2, <1>3, <1>5, <1>8 DEF At, DoneOK
  <2>4. QED
    BY <2>2, <2>3 DEF CallOK
<1>14. QED
  BY <1>2, <1>3, <1>5, <1>9, <1>10, <1>11, <1>13, StepOfOne

\* Logout drops the tokens of its session.
LEMMA LogoutTokensKeeps ==
  ASSUME IInv, NEW c \in Calls, LogoutTokens(c)
  PROVE  IInv'
<1>1. /\ At(c, "logout", "tokens")
      /\ UNCHANGED <<redis, users, sessions, created, agedAccess, agedRefresh, held, consumed>>
  BY DEF LogoutTokens
<1>2. call[c].sid \in Sessions
  <2>1. call[c].sid \in 1..created /\ created \in Nat
    BY <1>1 DEF At, IInv, CallOK, HandsOK, Typed
  <2>2. QED
    BY <2>1, SessionAssumption DEF IInv, Typed, Sessions
<1>3. CASE ~redis /\ MemoryDeleteBySession(call[c].sid) /\ LogoutGoesOn(c)
  <2>1. /\ byToken' \subseteq byToken /\ bySession' \in [Sessions -> 0..Len(issued)]
        /\ Exact(byToken', bySession')
    BY <1>2, <1>3, DropFacts DEF IInv
  <2>2. QED
    BY <1>1, <1>3, <2>1, LogoutGoesOnKeeps DEF At
<1>4. CASE UNCHANGED refreshVars /\ LogoutGoesOn(c)
  <2>1. /\ byToken' \subseteq byToken /\ bySession' \in [Sessions -> 0..Len(issued)]
        /\ ~redis => Exact(byToken', bySession')
    BY <1>4 DEF IInv, Typed, MemoryStoreExact, Exact, refreshVars
  <2>2. QED
    BY <1>1, <1>4, <2>1, LogoutGoesOnKeeps DEF At
<1>5. CASE /\ UNCHANGED refreshVars
           /\ call' = [call EXCEPT ![c].pc = "pipeline", ![c].new = bySession[call[c].sid]]
           /\ UNCHANGED <<issued, ended, loggedOut>>
  <2> DEFINE n == bySession[call[c].sid]
             q == [call[c] EXCEPT !.pc = "pipeline", !.new = n]
  <2>1. n \in Nat /\ call[c] \in CallRecord
    BY <1>2 DEF IInv, Typed
  <2>2. /\ q \in CallRecord /\ q.pc = "pipeline"
        /\ q.op = call[c].op /\ q.acc = call[c].acc /\ q.ref = call[c].ref
        /\ q.sid = call[c].sid /\ q.stale = call[c].stale /\ q.lost = call[c].lost
    BY <2>1 DEF CallRecord, Steps, Parting
  <2>3. call' = [call EXCEPT ![c] = q] /\ Kept
    BY <1>1, <1>5 DEF Kept, storeVars
  <2> HIDE DEF q, n
  <2>4. call[c].stale \cap {"ended", "consumed"} = {}
    BY <1>1, StaleWhere DEF At, Guarded
  <2>5. CallOK(q)
    BY <1>1, <2>2, <2>4 DEF At, IInv, CallOK, HandsOK, DoneOK, StaleOK, Guarded, Deleting, Parting
  <2>6. QED
    BY <2>2, <2>3, <2>5, Sets
<1>6. QED
  BY <1>3, <1>4, <1>5 DEF LogoutTokens

\* Logout drops them in Redis.
LEMMA LogoutPipelineKeeps ==
  ASSUME IInv, NEW c \in Calls, LogoutPipeline(c)
  PROVE  IInv'
<1>1. /\ redis /\ At(c, "logout", "pipeline") /\ LogoutGoesOn(c)
      /\ UNCHANGED <<redis, users, sessions, created, agedAccess, agedRefresh, held, consumed>>
      /\ \/ /\ byToken' = byToken \ {call[c].new}
            /\ bySession' = [bySession EXCEPT ![call[c].sid] = 0]
         \/ byToken' = byToken /\ bySession' = bySession
  BY DEF LogoutPipeline, refreshVars
<1>2. byToken' \subseteq byToken /\ bySession' \in [Sessions -> 0..Len(issued)]
  BY <1>1 DEF IInv, Typed
<1>3. QED
  BY <1>1, <1>2, LogoutGoesOnKeeps DEF At

\* The end of a Delete: the next pair of a Refresh, or the end of a Logout.
LEMMA DeletedKeeps ==
  ASSUME IInv, NEW c \in Calls, call[c].pc \in Deleting, NEW ok \in BOOLEAN,
         UNCHANGED <<redis, users, sessions, created, held, consumed>>,
         agedAccess' = agedAccess, agedRefresh' = agedRefresh,
         byToken' \subseteq byToken, bySession' \in [Sessions -> 0..Len(issued)],
         ~redis => Exact(byToken', bySession'),
         ok => call[c].ref \notin byToken', Deleted(c, ok)
  PROVE  IInv'
<1>1. call[c].op \in {"refresh", "logout"} /\ call[c].ref \in Tokens
  BY DEF IInv, CallOK, HandsOK, Typed
<1>2. CASE call[c].op = "refresh"
  <2> DEFINE t == call[c].ref
             s == SessionOf(t)
             u == issued[t].uid
             l == ~ok
  <2>1. DrawNext(c, ok)
    BY <1>2 DEF Deleted
  <2>2. Draw(c, s, u) /\ ToSave(c, s, l, Len(issued) + 1) /\ ended' = ended
    BY <2>1 DEF DrawNext, ToSave
  <2>3. s \in 1..created /\ created \in Nat /\ created <= MaxSessions /\ issued[t].uid \in Nat
    <3>1. s \in 1..created /\ created \in Nat /\ created <= MaxSessions
      BY <1>1 DEF IInv, Typed
    <3>2. t \in 1..Len(issued) /\ issued \in Seq([sid : Nat, uid : Nat])
      BY <1>1 DEF IInv, Typed, Tokens
    <3> HIDE DEF t, s
    <3>3. issued[t] \in [sid : Nat, uid : Nat]
      BY <3>2, ElementOfSeq
    <3>4. QED
      BY <3>1, <3>3
  <2>4. s \in Nat /\ u \in Nat /\ l \in BOOLEAN
    <3>1. s \in Nat
      BY <2>3
    <3>2. u \in Nat
      BY <2>3
    <3>3. l \in BOOLEAN
      OBVIOUS
    <3>4. QED
      BY <3>1, <3>2, <3>3
  <2>5. /\ created' \in Nat /\ created <= created' /\ created' <= MaxSessions /\ s \in 1..created'
        /\ sessions' \in [Sessions -> Nat] /\ \A x \in 1..created : sessions'[x] = sessions[x]
    BY <2>3 DEF IInv, Typed, Sessions
  <2>6. /\ call[c].op # "logout" /\ call[c].pc \notin {"done", "get", "known", "revoked", "user"}
        /\ ~l => call[c].ref \notin byToken'
    BY <1>2 DEF Deleting
  <2> HIDE DEF s, u, l
  <2>7. QED
    BY <2>2, <2>4, <2>5, <2>6, Draws
<1>3. CASE call[c].op = "logout"
  <2>1. FinishLogout(c)
    BY <1>3 DEF Deleted
  <2>2. call[c].pc \in Parting
    BY DEF Parting
  <2>3. QED
    BY <1>3, <2>1, <2>2, LogoutEnds
<1>4. QED
  BY <1>1, <1>2, <1>3

\* A function changed at one place.
LEMMA Pointed ==
  ASSUME NEW S, NEW T, NEW f \in [S -> T], NEW x, NEW y \in T
  PROVE  [f EXCEPT ![x] = y] \in [S -> T]
OBVIOUS

\* Delete, in one critical section or command by command.
LEMMA DeleteKeeps ==
  ASSUME IInv, NEW c \in Calls, Delete(c)
  PROVE  IInv'
<1> DEFINE t == call[c].ref
<1>1. UNCHANGED <<redis, users, sessions, created, agedAccess, agedRefresh, held, consumed>>
  BY DEF Delete
<1>2. \/ ~redis /\ call[c].pc = "delete" /\ MemoryDelete(t) /\ Deleted(c, TRUE)
      \/ redis /\ RedisDelete(c)
  BY DEF Delete
<1>3. CASE ~redis /\ call[c].pc = "delete" /\ MemoryDelete(t) /\ Deleted(c, TRUE)
  <2>1. t \in Tokens /\ Typed /\ MemoryStoreExact
    BY <1>3 DEF IInv, CallOK, HandsOK, Deleting, Typed
  <2> HIDE DEF t
  <2>2. SessionOf(t) \in Sessions
    BY <2>1, SessionAssumption DEF Typed, Sessions
  <2>3. /\ byToken' \subseteq byToken /\ bySession' \in [Sessions -> 0..Len(issued)]
        /\ Exact(byToken', bySession') /\ t \notin byToken'
    BY <1>3, <2>1, <2>2, DropFacts, DeleteDrops
  <2>4. call[c].pc \in Deleting
    BY <1>3 DEF Deleting
  <2>5. QED
    BY <1>1, <1>3, <2>3, <2>4, DeletedKeeps DEF t
<1>4. CASE redis /\ RedisDelete(c)
  <2>1. PICK ok \in BOOLEAN :
          \/ /\ call[c].pc = "delete" /\ UNCHANGED refreshVars /\ Later
             /\ Move(c, IF ok /\ t \in byToken THEN "deletePointer" ELSE "deleteKey")
          \/ /\ call[c].pc = "deletePointer" /\ UNCHANGED byToken /\ Later
             /\ bySession' = IF ok THEN [bySession EXCEPT ![SessionOf(t)] = 0] ELSE bySession
             /\ Move(c, "deleteKey")
          \/ /\ call[c].pc = "deleteKey" /\ UNCHANGED bySession
             /\ byToken' = IF ok THEN byToken \ {t} ELSE byToken
             /\ Deleted(c, ok)
    <3>1. PICK ok \in Outcomes(redis) :
            \/ /\ call[c].pc = "delete" /\ UNCHANGED refreshVars /\ Later
               /\ Move(c, IF ok /\ t \in byToken THEN "deletePointer" ELSE "deleteKey")
            \/ /\ call[c].pc = "deletePointer" /\ UNCHANGED byToken /\ Later
               /\ bySession' = IF ok THEN [bySession EXCEPT ![SessionOf(t)] = 0] ELSE bySession
               /\ Move(c, "deleteKey")
            \/ /\ call[c].pc = "deleteKey" /\ UNCHANGED bySession
               /\ byToken' = IF ok THEN byToken \ {t} ELSE byToken
               /\ Deleted(c, ok)
      BY <1>4 DEF RedisDelete
    <3>2. ok \in BOOLEAN
      BY Flags
    <3>3. QED
      BY <3>1, <3>2
  <2>2. call[c].pc \in Deleting
    BY <2>1 DEF Deleting
  <2>3. /\ call[c].op \in {"refresh", "logout"} /\ t \in held /\ call[c].pc \in Parting
        /\ bySession \in [Sessions -> 0..Len(issued)]
    BY <2>2 DEF IInv, CallOK, HandsOK, Parting, Typed
  <2>4. CASE /\ call[c].pc \in {"delete", "deletePointer"} /\ UNCHANGED byToken /\ Later
             /\ bySession' \in [Sessions -> 0..Len(issued)]
             /\ \E pc \in Deleting : Move(c, pc)
    <3>1. PICK pc \in Deleting : Move(c, pc)
      BY <2>4
    <3>2. UNCHANGED <<issued, ended>>
      BY <2>4 DEF Later
    <3>3. QED
      BY <1>1, <1>4, <2>3, <2>4, <3>1, <3>2, DropMoves
  <2>5. CASE /\ call[c].pc = "deleteKey" /\ UNCHANGED bySession
             /\ byToken' = IF ok THEN byToken \ {t} ELSE byToken
             /\ Deleted(c, ok)
    BY <1>1, <1>4, <2>2, <2>3, <2>5, DeletedKeeps
  <2>6. bySession' = [bySession EXCEPT ![SessionOf(t)] = 0] =>
           bySession' \in [Sessions -> 0..Len(issued)]
    <3>1. Len(issued) \in Nat
      BY DEF IInv, Typed
    <3>2. 0 \in 0..Len(issued)
      BY <3>1
    <3>3. QED
      BY <2>3, <3>2, Pointed
  <2>7. QED
    BY <2>1, <2>3, <2>4, <2>5, <2>6 DEF refreshVars, Deleting
<1>5. QED
  BY <1>2, <1>3, <1>4

\* Time passes: no call moves, and records only go.
LEMMA TimeKeeps ==
  ASSUME IInv, AccessExpires \/ RefreshExpires
  PROVE  IInv'
<1>1. /\ UNCHANGED <<redis, users, sessions, created, issued, held, call, ended, consumed>>
      /\ agedAccess' \in Nat /\ agedRefresh' \in Nat
  BY DEF AccessExpires, RefreshExpires, refreshVars, histVars, IInv, Typed
<1>2. /\ byToken' \subseteq byToken /\ bySession' \in [Sessions -> 0..Len(issued)]
      /\ ~redis => UNCHANGED <<byToken, bySession>>
  <2>1. CASE UNCHANGED refreshVars
    BY <2>1 DEF refreshVars, IInv, Typed
  <2>2. CASE /\ redis /\ byToken' = byToken \ {agedRefresh'}
             /\ bySession' = [s \in Sessions |-> IF bySession[s] = agedRefresh' THEN 0
                                                 ELSE bySession[s]]
    <3>1. bySession \in [Sessions -> 0..Len(issued)] /\ Len(issued) \in Nat
      BY DEF IInv, Typed
    <3>2. QED
      BY <2>2, <3>1
  <2>3. QED
    BY <2>1, <2>2 DEF AccessExpires, RefreshExpires
<1>3. Typed'
  BY <1>1, <1>2 DEF IInv, Typed, Sessions, Tokens, SessionOf
<1>4. Grows
  BY <1>1, <1>2 DEF IInv, Typed, Grows
<1>5. ASSUME NEW c \in Calls PROVE CallOK(call[c])'
  <2>1. PICK r \in CallRecord : r = call[c] /\ r = call'[c]
    BY <1>1 DEF IInv, Typed
  <2>2. CallOK(r) /\ Typed
    BY <2>1 DEF IInv
  <2>3. r.pc = "save" => r.new \notin held'
    BY <1>1, <2>2 DEF CallOK, HandsOK
  <2>4. CallOK(r)'
    BY <1>3, <1>4, <2>2, <2>3, Frame
  <2>5. QED
    BY <2>1, <2>4 DEF CallOK, HandsOK, DoneOK, StaleOK
<1>6. SavesDiffer' /\ EndedGone' /\ SpentGone'
  BY <1>1, <1>2 DEF IInv, SavesDiffer, EndedGone, SpentGone
<1>7. MemoryStoreExact'
  BY <1>1, <1>2 DEF IInv, MemoryStoreExact, Sessions, SessionOf
<1>8. QED
  BY <1>3, <1>5, <1>6, <1>7 DEF IInv

\* Every step.
LEMMA StepIInv == IInv /\ [Next]_vars => IInv'
<1> SUFFICES ASSUME IInv, [Next]_vars PROVE IInv'
  OBVIOUS
<1>1. ASSUME NEW c \in Calls, RegisterStep(c) PROVE IInv'
  BY <1>1, RegisterKeeps, RegisterUserKeeps DEF RegisterStep
<1>2. ASSUME NEW c \in Calls, LoginStep(c) PROVE IInv'
  BY <1>2, LoginKeeps
<1>3. ASSUME NEW c \in Calls, RefreshStep(c) PROVE IInv'
  BY <1>3, RefreshKeeps
<1>4. ASSUME NEW c \in Calls, LogoutStep(c) PROVE IInv'
  BY <1>4, LogoutBegins, LogoutRevokeKeeps, LogoutSessionKeeps, LogoutTokensKeeps,
     LogoutPipelineKeeps DEF LogoutStep
<1>5. ASSUME NEW c \in Calls, ValidateStep(c) PROVE IInv'
  BY <1>5, ValidateKeeps
<1>6. ASSUME NEW c \in Calls, NewSession(c) \/ Issue(c) \/ Delete(c) PROVE IInv'
  BY <1>6, NewSessionKeeps, IssueKeeps, DeleteKeeps
<1>7. CASE AccessExpires \/ RefreshExpires
  BY <1>7, TimeKeeps
<1>8. CASE UNCHANGED vars
  BY <1>8 DEF vars, storeVars, refreshVars, histVars, IInv, Typed, SavesDiffer, EndedGone,
              SpentGone, MemoryStoreExact, CallOK, HandsOK, DoneOK, StaleOK, Sessions, Tokens,
              SessionOf
<1>9. QED
  BY <1>1, <1>2, <1>3, <1>4, <1>5, <1>6, <1>7, <1>8 DEF Next

LEMMA Invariance == Spec => []IInv
BY InitIInv, StepIInv, PTL DEF Spec

-----------------------------------------------------------------------------
(* What a Logout leaves behind of its access token.                         *)

\* The token no longer authenticates: one of the three things that refuse it.
Refused(t) == sessions[SessionOf(t)] = 0 \/ t \in blacklist \/ t <= agedAccess

LogsOut == {"revoke", "drop"} \cup Parting
\* A Logout has revoked its token when it comes to the session's row, or the one
\* command that may fail has failed; past the row the token is refused.
LeavesOK(r) ==
  r.op = "logout" /\ r.pc \in LogsOut /\ r.sid # 0 =>
    /\ r.acc \in Tokens /\ r.sid = SessionOf(r.acc)
    /\ r.pc = "drop" => r.acc \in blacklist \/ r.acc <= agedAccess \/ faults = 0
    /\ r.pc \in Parting => Refused(r.acc)
\* A guarded call that began with a token logged out has not passed both tests.
LateOK(r) ==
  "loggedOut" \in r.stale =>
    IF r.pc = "done" THEN r.result = "ok" => r.acc <= agedAccess
    ELSE /\ r.op \in Guarded /\ r.acc \in loggedOut /\ r.pc \in {"revoked", "user", "known"}
         /\ r.pc \in {"user", "known"} =>
              sessions[SessionOf(r.acc)] = 0 \/ r.acc <= agedAccess

RInv == /\ faults \in 0..MaxFaults /\ loggedOut \subseteq Tokens
        /\ \A t \in loggedOut : Refused(t)
        /\ \A c \in Calls : LeavesOK(call[c]) /\ LateOK(call[c])

-----------------------------------------------------------------------------
(* The last token of a session that no Logout, race or failure has touched. *)

Clean(s) == faults = MaxFaults /\ s \notin raced /\ s \notin left
Saving(r, s)  == r.pc = "save" /\ r.sid = s
Holding(r, s) == r.op = "refresh" /\ r.pc \notin {"get", "done", "save"} /\ SessionOf(r.ref) = s
Busy(r, s)    == Saving(r, s) \/ Holding(r, s)

\* What a call has in its hands belongs to its session; a Logout has left its
\* sessions.
OwnOK(r) ==
  /\ r.pc = "session" => r.uid # 0
  /\ r.pc = "save" => /\ r.sid = SessionOf(r.new)
                      /\ r.op = "refresh" => r.sid = SessionOf(r.ref)
  /\ r.op = "logout" /\ r.pc # "done" => /\ r.sid # 0 => r.sid \in left
                                         /\ r.ref # 0 => SessionOf(r.ref) \in left
  /\ r.op = "logout" /\ r.pc = "pipeline" => r.new \in Tokens /\ SessionOf(r.new) = r.sid

\* One call at a time works on the session; no record is there while its pair
\* is being saved, else the token last returned has the only one.
TokenOf(t, s) == SessionOf(t) = s
CleanOK(s) ==
  /\ sessions[s] # 0
  /\ \A c, d \in Calls : Busy(call[c], s) /\ Busy(call[d], s) => c = d
  /\ \A t \in byToken, u \in held : TokenOf(t, s) /\ TokenOf(u, s) => u <= t
  /\ \A c \in Calls : Saving(call[c], s) => /\ \A t \in byToken : ~TokenOf(t, s)
                                            /\ \A u \in held : TokenOf(u, s) => u < call[c].new
  /\ \A c \in Calls : Holding(call[c], s) => \A u \in held : TokenOf(u, s) => u <= call[c].ref
  /\ (\A c \in Calls : ~Saving(call[c], s)) =>
       \A t \in LastReturned(s) : t > agedRefresh => t \in byToken

UInv == /\ faults \in 0..MaxFaults /\ byToken \subseteq held
        /\ \A u \in users : u.id # 0
        /\ \A s \in Sessions : bySession[s] # 0 => SessionOf(bySession[s]) = s
        /\ \A c \in Calls : OwnOK(call[c])
        /\ \A s \in 1..created : Clean(s) => CleanOK(s)

\* A command costs at most one failure, and only while there is one left.
LEMMA Charged ==
  ASSUME NEW external, NEW ok \in Outcomes(external), Charge(ok), faults \in Nat
  PROVE  ok \in BOOLEAN /\ faults' \in 0..faults /\ (ok \/ faults > 0)
<1>1. ok \in BOOLEAN /\ (ok = FALSE => faults > 0)
  BY DEF Outcomes
<1>2. CASE ok = TRUE
  BY <1>2 DEF Charge
<1>3. CASE ok = FALSE
  BY <1>1, <1>3 DEF Charge
<1>4. QED
  BY <1>1, <1>2, <1>3

\* What refuses a token stays, and failures are not paid back.
Wears ==
  /\ \A t \in Tokens : t \in 1..Len(issued') /\ issued'[t] = issued[t]
  /\ \A s \in 1..created : sessions[s] = 0 => sessions'[s] = 0
  /\ blacklist \subseteq blacklist' /\ faults' \in 0..faults
  /\ agedAccess' \in Nat /\ agedAccess <= agedAccess'

\* A new token and a new session leave the old ones alone.
LEMMA DrawWears ==
  ASSUME Typed, NEW c \in Calls, NEW s \in Nat, NEW u \in Nat, Draw(c, s, u)
  PROVE  /\ issued' \in Seq([sid : Nat, uid : Nat]) /\ Len(issued') = Len(issued) + 1
         /\ issued'[Len(issued) + 1] = [sid |-> s, uid |-> u]
         /\ \A t \in Tokens : t \in 1..Len(issued') /\ issued'[t] = issued[t]
BY DEF Typed, Draw, Tokens

\* Every step of a call or of time wears the tokens so.
LEMMA StepWears ==
  ASSUME IInv, faults \in Nat, Next PROVE Wears
<1>1. Typed /\ \A s \in 1..created : s \in Sessions
  BY SessionAssumption DEF IInv, Typed, Sessions
<1>2. ASSUME NEW c \in Calls, RegisterStep(c) \/ LoginStep(c) PROVE Wears
  <2>1. /\ UNCHANGED <<sessions, created, issued, agedAccess, blacklist>>
        /\ faults' = faults \/ \E ok \in Outcomes(pg) : Charge(ok)
    BY <1>2 DEF RegisterStep, LoginStep, Register, RegisterName, RegisterEmail,
       RegisterUser, Login, LoginUser, OnlyCall, storeVars
  <2>2. QED
    BY <1>1, <2>1, Charged DEF Wears, Typed, Tokens
<1>3. ASSUME NEW c \in Calls, RefreshStep(c) \/ ValidateStep(c) PROVE Wears
  <2>1. /\ UNCHANGED <<sessions, created, issued, agedAccess, blacklist>>
        /\ faults' = faults \/ \E external : \E ok \in Outcomes(external) : Charge(ok)
    BY <1>3 DEF RefreshStep, Refresh, RefreshRecord, RefreshUser, RefreshSession,
       ValidateStep, Validate, ValidateRevoked, ValidateUser, ValidateSession,
       OnlyCall, storeVars
  <2>2. QED
    BY <1>1, <2>1, Charged DEF Wears, Typed, Tokens
<1>4. ASSUME NEW c \in Calls, FinishLogout(c) \/ LogoutGoesOn(c) PROVE issued' = issued
  BY <1>4 DEF FinishLogout, LogoutGoesOn
<1>5. ASSUME NEW c \in Calls, Logout(c) PROVE Wears
  BY <1>1, <1>5 DEF Logout, OnlyCall, storeVars, histVars, Wears, Typed, Tokens
<1>6. ASSUME NEW c \in Calls, LogoutRevoke(c) PROVE Wears
  BY <1>1, <1>6, Charged DEF LogoutRevoke, Revoke, storeVars, histVars, Wears, Typed, Tokens
<1>7. ASSUME NEW c \in Calls, LogoutSession(c) PROVE Wears
  <2>1. /\ UNCHANGED <<created, issued, agedAccess, blacklist>> /\ faults' \in 0..faults
        /\ sessions' = [sessions EXCEPT ![call[c].sid] = 0] \/ sessions' = sessions
    BY <1>7, Charged DEF LogoutSession
  <2>2. QED
    BY <1>1, <2>1 DEF Wears, Typed, Tokens
<1>8. ASSUME NEW c \in Calls, LogoutTokens(c) \/ LogoutPipeline(c) PROVE Wears
  <2>1. UNCHANGED <<sessions, created, agedAccess, blacklist>> /\ faults' \in 0..faults
    BY <1>8, Charged DEF LogoutTokens, LogoutPipeline
  <2>2. issued' = issued
    BY <1>4, <1>8 DEF LogoutTokens, LogoutPipeline
  <2>3. QED
    BY <1>1, <2>1, <2>2 DEF Wears, Typed, Tokens
<1>9. ASSUME NEW c \in Calls, NewSession(c) PROVE Wears
  <2>1. /\ Draw(c, created + 1, call[c].uid) /\ UNCHANGED <<agedAccess, blacklist>>
        /\ faults' \in 0..faults
        /\ sessions' = [sessions EXCEPT ![created + 1] = call[c].uid] \/ sessions' = sessions
    BY <1>9, Charged DEF NewSession
  <2>2. call[c].uid \in Nat /\ created + 1 \in Nat /\ created + 1 \notin 1..created
    <3>1. call[c] \in CallRecord /\ created \in Nat
      BY <1>1 DEF Typed
    <3>2. call[c].uid \in Nat
      BY <3>1 DEF CallRecord
    <3>3. QED
      BY <3>1, <3>2
  <2>3. \A s \in 1..created : sessions'[s] = sessions[s]
    BY <1>1, <2>1, <2>2 DEF Typed
  <2>4. \A t \in Tokens : t \in 1..Len(issued') /\ issued'[t] = issued[t]
    BY <1>1, <2>1, <2>2, DrawWears
  <2>5. QED
    BY <1>1, <2>1, <2>3, <2>4 DEF Wears, Typed
<1>10. ASSUME NEW c \in Calls, Issue(c) PROVE Wears
  BY <1>1, <1>10, Charged DEF Issue, storeVars, Wears, Typed, Tokens
<1>11. ASSUME NEW c \in Calls, Delete(c) PROVE Wears
  <2>1. UNCHANGED <<sessions, created, agedAccess, blacklist>>
    BY <1>11 DEF Delete
  <2>2. faults' \in 0..faults
    <3>1. faults' = faults \/ \E ok \in Outcomes(redis) : Charge(ok)
      BY <1>11 DEF Delete, RedisDelete
    <3>2. QED
      BY <3>1, Charged
  <2>3. CASE issued' = issued
    BY <1>1, <2>1, <2>2, <2>3 DEF Wears, Typed, Tokens
  <2>4. CASE \E ok : Deleted(c, ok) /\ call[c].pc \in Deleting
    <3>1. CASE call[c].op # "refresh"
      BY <1>4, <2>3, <2>4, <3>1 DEF Deleted
    <3>2. CASE call[c].op = "refresh"
      <4>1. call[c].ref \in Tokens /\ issued \in Seq([sid : Nat, uid : Nat])
        BY <1>1, <2>4 DEF IInv, CallOK, HandsOK, Typed
      <4>2. issued[call[c].ref] \in [sid : Nat, uid : Nat]
        BY <4>1, ElementOfSeq DEF Tokens
      <4>3. issued[call[c].ref].sid \in Nat /\ issued[call[c].ref].uid \in Nat
        BY <4>2
      <4>4. Draw(c, issued[call[c].ref].sid, issued[call[c].ref].uid)
        BY <2>4, <3>2 DEF Deleted, DrawNext, SessionOf
      <4>5. \A t \in Tokens : t \in 1..Len(issued') /\ issued'[t] = issued[t]
        BY <1>1, <4>3, <4>4, DrawWears
      <4>6. QED
        BY <1>1, <2>1, <2>2, <4>5 DEF Wears, Typed
    <3>3. QED
      BY <3>1, <3>2
  <2>5. issued' = issued \/ \E ok : Deleted(c, ok) /\ call[c].pc \in Deleting
    BY <1>11 DEF Delete, RedisDelete, Later, Deleting
  <2>6. QED
    BY <2>3, <2>4, <2>5
<1>12. CASE AccessExpires \/ RefreshExpires
  <2>1. /\ UNCHANGED <<sessions, created, issued, blacklist, faults>>
        /\ agedAccess' = agedAccess \/ agedAccess' = agedAccess + 1
    BY <1>12 DEF AccessExpires, RefreshExpires
  <2>2. QED
    BY <1>1, <2>1 DEF Wears, Typed, Tokens
<1>13. QED
  BY <1>2, <1>3, <1>5, <1>6, <1>7, <1>8, <1>9, <1>10, <1>11, <1>12 DEF Next, LogoutStep

\* The fields of a call after each way of moving on.
LEMMA MoveFields ==
  ASSUME Typed, NEW c \in Calls, NEW pc \in Steps, Move(c, pc)
  PROVE  /\ \A d \in Calls \ {c} : call'[d] = call[d]
         /\ call'[c].pc = pc /\ call'[c].op = call[c].op /\ call'[c].acc = call[c].acc
         /\ call'[c].ref = call[c].ref /\ call'[c].sid = call[c].sid
         /\ call'[c].uid = call[c].uid /\ call'[c].new = call[c].new
         /\ call'[c].stale = call[c].stale /\ call'[c].lost = call[c].lost
<1>1. call[c] \in CallRecord /\ call \in [Calls -> CallRecord]
  BY DEF Typed
<1>2. call'[c] = [call[c] EXCEPT !.pc = pc] /\ \A d \in Calls \ {c} : call'[d] = call[d]
  BY <1>1 DEF Move
<1>3. QED
  BY <1>1, <1>2 DEF CallRecord
\* ... of a call that returns,
LEMMA ReturnFields ==
  ASSUME Typed, NEW c \in Calls, NEW result, Return(c, result)
  PROVE  /\ \A d \in Calls \ {c} : call'[d] = call[d]
         /\ call'[c].pc = "done" /\ call'[c].op = "none" /\ call'[c].acc = call[c].acc
         /\ call'[c].stale = call[c].stale /\ call'[c].result = result
<1>1. call \in [Calls -> CallRecord]
  BY DEF Typed
<1>2. /\ call'[c] = [Idle EXCEPT !.acc = call[c].acc, !.stale = call[c].stale, !.result = result]
      /\ \A d \in Calls \ {c} : call'[d] = call[d]
  BY <1>1 DEF Return
<1>3. QED
  BY <1>2, IdleFacts DEF CallRecord
\* ... and of one that has drawn its pair.
LEMMA SaveFields ==
  ASSUME Typed, NEW c \in Calls, NEW s, NEW n, NEW l, ToSave(c, s, l, n)
  PROVE  /\ \A d \in Calls \ {c} : call'[d] = call[d]
         /\ call'[c].pc = "save" /\ call'[c].op = call[c].op /\ call'[c].acc = call[c].acc
         /\ call'[c].ref = call[c].ref /\ call'[c].sid = s /\ call'[c].new = n
         /\ call'[c].stale = call[c].stale
<1>1. call[c] \in CallRecord /\ call \in [Calls -> CallRecord]
  BY DEF Typed
<1>2. /\ \A d \in Calls \ {c} : call'[d] = call[d]
      /\ \/ call'[c] = [call[c] EXCEPT !.pc = "save", !.sid = s, !.lost = l, !.new = n]
         \/ call'[c] = [call[c] EXCEPT !.pc = "save", !.sid = s, !.new = n]
  BY <1>1 DEF ToSave
<1>3. QED
  BY <1>1, <1>2 DEF CallRecord

\* What a call may rely on when another step wears the tokens.
LEMMA LateFrame ==
  ASSUME IInv, Wears, RInv, loggedOut \subseteq loggedOut', NEW r \in CallRecord,
         LeavesOK(r), LateOK(r)
  PROVE  LeavesOK(r)' /\ LateOK(r)'
<1>1. \A t \in Tokens : /\ t \in Tokens' /\ issued'[t] = issued[t] /\ t \in Nat
                        /\ SessionOf(t) \in 1..created
  BY DEF Wears, Tokens, IInv, Typed
<1>2. \A t \in Nat : t <= agedAccess => t <= agedAccess'
  <2>1. agedAccess \in Nat /\ agedAccess' \in Nat
    BY DEF IInv, Typed, Wears
  <2>2. QED
    BY <1>1, <2>1 DEF Wears
<1>3. \A t \in Tokens : Refused(t) => Refused(t)'
  BY <1>1, <1>2 DEF Refused, Wears, SessionOf
<1>4. LeavesOK(r)'
  BY <1>1, <1>2, <1>3 DEF LeavesOK, Wears, SessionOf
<1>5. LateOK(r)'
  <2>1. "loggedOut" \in r.stale => r.acc \in Nat
    BY DEF CallRecord
  <2>2. QED
    BY <1>1, <1>2, <2>1 DEF LateOK, Wears, SessionOf, RInv
<1>6. QED
  BY <1>4, <1>5

\* The tokens logged out stay so, and those added are refused.
AddsRefused == /\ loggedOut \subseteq loggedOut'
               /\ \A t \in loggedOut' : t \in loggedOut \/ (t \in Tokens /\ Refused(t))

\* A step that adds none.
LEMMA AddsNone == ASSUME loggedOut' = loggedOut PROVE AddsRefused
BY DEF AddsRefused

\* A step of call c, once c's own part and the tokens it adds are settled.
LEMMA LateStep ==
  ASSUME IInv, RInv, Wears, NEW c \in Calls, \A d \in Calls \ {c} : call'[d] = call[d],
         LeavesOK(call[c])', LateOK(call[c])',
         AddsRefused
  PROVE  RInv'
<1>1. \A d \in Calls : LeavesOK(call[d])' /\ LateOK(call[d])'
  <2> SUFFICES ASSUME NEW d \in Calls, d # c PROVE LeavesOK(call[d])' /\ LateOK(call[d])'
    OBVIOUS
  <2>1. PICK r \in CallRecord : r = call[d] /\ r = call'[d]
    BY DEF IInv, Typed
  <2>2. LeavesOK(r)' /\ LateOK(r)'
    BY <2>1, LateFrame DEF RInv, AddsRefused
  <2>3. QED
    BY <2>1, <2>2 DEF LeavesOK, LateOK
<1>2. \A t \in loggedOut' : t \in Tokens' /\ Refused(t)'
  <2> SUFFICES ASSUME NEW t \in loggedOut' PROVE t \in Tokens' /\ Refused(t)'
    OBVIOUS
  <2>1. t \in Tokens /\ Refused(t)
    BY DEF RInv, AddsRefused
  <2>2. /\ t \in 1..Len(issued') /\ issued'[t] = issued[t] /\ t \in Nat /\ SessionOf(t) \in 1..created
        /\ agedAccess \in Nat /\ agedAccess' \in Nat /\ agedAccess <= agedAccess'
    BY <2>1 DEF Wears, IInv, Typed, Tokens
  <2>3. t <= agedAccess => t <= agedAccess'
    BY <2>2
  <2>4. QED
    BY <2>1, <2>2, <2>3 DEF Refused, Wears, SessionOf, Tokens
<1>3. faults' \in 0..MaxFaults
  BY SessionAssumption DEF RInv, Wears
<1>4. QED
  BY <1>1, <1>2, <1>3 DEF RInv

\* A step of a call that is no Logout and did not begin with a token logged
\* out, or ends with an error.
LEMMA PlainLate ==
  ASSUME IInv, RInv, Wears, NEW c \in Calls, \A d \in Calls \ {c} : call'[d] = call[d],
         loggedOut' = loggedOut, call'[c].op # "logout",
         \/ "loggedOut" \notin call'[c].stale
         \/ call'[c].pc = "done" /\ call'[c].result # "ok"
  PROVE  RInv'
<1>1. LeavesOK(call[c])' /\ LateOK(call[c])'
  BY DEF LeavesOK, LateOK
<1>2. AddsRefused
  BY AddsNone
<1>3. QED
  BY <1>1, <1>2, LateStep

\* Register and Login.
LEMMA EnterLate ==
  ASSUME IInv, RInv, Wears, NEW c \in Calls, RegisterStep(c) \/ LoginStep(c) \/ NewSession(c)
  PROVE  RInv'
<1>1. loggedOut' = loggedOut
  BY DEF RegisterStep, Register, RegisterName, RegisterEmail, RegisterUser, LoginStep, Login,
     LoginUser, NewSession, histVars
<1>2. /\ \A d \in Calls \ {c} : call'[d] = call[d]
      /\ call'[c].op # "logout" /\ "loggedOut" \notin call'[c].stale
  <2>1. call \in [Calls -> CallRecord]
    BY DEF IInv, Typed
  <2>2. CASE Register(c) \/ Login(c)
    <3>1. \E r : /\ call' = [call EXCEPT ![c] = r] /\ r.op # "logout" /\ r.stale = {}
      <4>1. CASE Register(c)
        <5>1. PICK n \in Names, e \in Emails : call' = [call EXCEPT ![c] =
                 [Idle EXCEPT !.op = "register", !.pc = "name", !.name = n, !.email = e]]
          BY <4>1 DEF Register, Start
        <5> DEFINE r == [Idle EXCEPT !.op = "register", !.pc = "name", !.name = n, !.email = e]
        <5>2. r.op = "register" /\ r.stale = {}
          BY IdleFacts DEF CallRecord
        <5> HIDE DEF r
        <5>3. QED
          BY <5>1, <5>2 DEF r
      <4>2. CASE Login(c)
        <5>1. PICK n \in Names : call' = [call EXCEPT ![c] =
                 [Idle EXCEPT !.op = "login", !.pc = "name", !.name = n]]
          BY <4>2 DEF Login, Start
        <5> DEFINE r == [Idle EXCEPT !.op = "login", !.pc = "name", !.name = n]
        <5>2. r.op = "login" /\ r.stale = {}
          BY IdleFacts DEF CallRecord
        <5> HIDE DEF r
        <5>3. QED
          BY <5>1, <5>2 DEF r
      <4>3. QED
        BY <2>2, <4>1, <4>2
    <3>2. QED
      BY <2>1, <3>1
  <2>3. CASE call[c].op \in {"register", "login"} /\ call[c].pc # "done"
    <3>1. "loggedOut" \notin call[c].stale
      BY <2>3 DEF RInv, LateOK, Guarded
    <3>2. CASE \E result : Return(c, result)
      BY <3>1, <3>2, ReturnFields DEF IInv
    <3>3. CASE \E pc \in Steps : Move(c, pc)
      BY <2>3, <3>1, <3>3, MoveFields DEF IInv
    <3>4. CASE \E id \in Nat : call' = [call EXCEPT ![c].pc = "session", ![c].uid = id]
      <4>0. Typed
        BY DEF IInv
      <4>1. PICK q \in CallRecord : /\ call' = [call EXCEPT ![c] = q]
                                    /\ q.op = call[c].op /\ q.stale = call[c].stale
        BY <3>4, <4>0, SessionNext
      <4>2. call'[c] = q /\ \A d \in Calls \ {c} : call'[d] = call[d]
        BY <4>0, <4>1, Replaced
      <4>3. QED
        BY <2>3, <3>1, <4>1, <4>2
    <3>5. CASE NewSession(c)
      <4>1. ToSave(c, created + 1, call[c].lost, Len(issued) + 1)
        BY <3>5 DEF NewSession, ToSave
      <4>2. QED
        BY <2>3, <3>1, <4>1, SaveFields DEF IInv
    <3>6. \/ NewSession(c) \/ Register(c) \/ Login(c)
          \/ \E result : Return(c, result)
          \/ \E pc \in Steps : Move(c, pc)
          \/ \E id \in Nat : call' = [call EXCEPT ![c].pc = "session", ![c].uid = id]
      <4>1. CASE RegisterName(c) \/ RegisterEmail(c)
        <5>1. {"email", "user"} \subseteq Steps
          BY DEF Steps
        <5>2. QED
          BY <4>1, <5>1 DEF RegisterName, RegisterEmail
      <4>2. CASE RegisterUser(c)
        <5>1. Cardinality(users) + 1 \in Nat
          BY FS_CardinalityType DEF IInv, Typed
        <5>2. \/ \E result : Return(c, result)
              \/ call' = [call EXCEPT ![c].pc = "session", ![c].uid = Cardinality(users) + 1]
          BY <4>2 DEF RegisterUser
        <5>3. QED
          BY <5>1, <5>2
      <4>3. CASE LoginUser(c)
        <5>1. \A u \in users : u.id \in Nat
          BY DEF IInv, Typed, UserType
        <5>2. \A name, ok : UserByName(name, ok) \subseteq users
          BY DEF UserByName, Found
        <5>3. \/ \E result : Return(c, result)
              \/ \E u \in users : call' = [call EXCEPT ![c].pc = "session", ![c].uid = u.id]
          BY <4>3, <5>2 DEF LoginUser
        <5>4. QED
          BY <5>1, <5>3
      <4>4. QED
        BY <4>1, <4>2, <4>3 DEF RegisterStep, LoginStep
    <3>7. QED
      BY <2>2, <3>2, <3>3, <3>4, <3>5, <3>6
  <2>4. \/ Register(c) \/ Login(c)
        \/ call[c].op \in {"register", "login"} /\ call[c].pc # "done"
    BY DEF RegisterStep, RegisterName, RegisterEmail, RegisterUser, LoginStep,
       LoginUser, NewSession, At, IInv, CallOK, HandsOK
  <2>5. QED
    BY <2>2, <2>3, <2>4
<1>3. QED
  BY <1>1, <1>2, PlainLate

\* Refresh, and the answer with a new pair.
LEMMA RefreshLate ==
  ASSUME IInv, RInv, Wears, NEW c \in Calls, RefreshStep(c) \/ Issue(c)
  PROVE  RInv'
<1>1. loggedOut' = loggedOut
  BY DEF RefreshStep, Refresh, RefreshRecord, RefreshUser, RefreshSession, Issue, histVars
<1>2. CASE Refresh(c)
  <2>1. PICK t \in held : call' = [call EXCEPT ![c] =
           [Idle EXCEPT !.op = "refresh", !.pc = "get", !.ref = t, !.stale = Stale(FALSE, t)]]
    BY <1>2 DEF Refresh, Start
  <2>2. "loggedOut" \notin Stale(FALSE, t)
    BY DEF Stale
  <2>3. /\ \A d \in Calls \ {c} : call'[d] = call[d]
        /\ call'[c].op = "refresh" /\ call'[c].stale = Stale(FALSE, t)
    BY <2>1, IdleFacts DEF IInv, Typed, CallRecord
  <2>4. QED
    BY <1>1, <2>2, <2>3, PlainLate
<1>3. CASE ~Refresh(c)
  <2>1. "loggedOut" \notin call[c].stale
    <3>1. call[c].pc # "done" /\ (call[c].op = "refresh" \/ call[c].pc = "save")
      BY <1>3 DEF RefreshStep, RefreshRecord, RefreshUser, RefreshSession, At, Issue
    <3>2. QED
      BY <3>1 DEF RInv, LateOK, Guarded
  <2>2. CASE \E result : Return(c, result)
    BY <1>1, <2>1, <2>2, ReturnFields, PlainLate DEF IInv
  <2>3. CASE At(c, "refresh", call[c].pc) /\ \E pc \in {"user", "known", "delete"} : Move(c, pc)
    <3>1. PICK pc \in Steps : Move(c, pc)
      BY <2>3 DEF Steps, Parting, Deleting
    <3>2. QED
      BY <1>1, <2>1, <2>3, <3>1, MoveFields, PlainLate DEF IInv, At
  <2>4. QED
    BY <1>3, <2>2, <2>3 DEF RefreshStep, RefreshRecord, RefreshUser, RefreshSession, At, Issue
<1>4. QED
  BY <1>2, <1>3

\* ValidateToken: one of the two tests refuses a token logged out.
LEMMA ValidateLate ==
  ASSUME IInv, RInv, Wears, NEW c \in Calls, ValidateStep(c)
  PROVE  RInv'
<1>0. loggedOut' = loggedOut
  BY DEF ValidateStep, Validate, ValidateRevoked, ValidateUser, ValidateSession, histVars
<1>1. loggedOut' = loggedOut /\ AddsRefused
  BY <1>0, AddsNone
<1>2. UNCHANGED <<sessions, issued, agedAccess, blacklist>> /\ Typed
  BY DEF ValidateStep, Validate, ValidateRevoked, ValidateUser, ValidateSession,
     OnlyCall, storeVars, IInv
<1>3. CASE Validate(c)
  <2>1. PICK t \in held, op \in Guarded : call' = [call EXCEPT ![c] =
           [Idle EXCEPT !.op = op, !.acc = t, !.stale = Stale(TRUE, t),
                        !.pc = IF t > agedAccess THEN "revoked" ELSE "done",
                        !.result = "error"]]
    BY <1>3 DEF Validate, Start
  <2>2. "loggedOut" \in Stale(TRUE, t) => t \in loggedOut
    BY DEF Stale
  <2>3. /\ \A d \in Calls \ {c} : call'[d] = call[d]
        /\ call'[c].op = op /\ call'[c].acc = t /\ call'[c].stale = Stale(TRUE, t)
        /\ call'[c].pc \in {"revoked", "done"} /\ call'[c].result = "error"
    BY <2>1, IdleFacts DEF IInv, Typed, CallRecord
  <2>4. LeavesOK(call[c])' /\ LateOK(call[c])'
    BY <1>1, <2>2, <2>3 DEF LeavesOK, LateOK, Guarded
  <2>5. QED
    BY <1>1, <2>3, <2>4, LateStep
<1>4. CASE Return(c, "error")
  BY <1>1, <1>4, ReturnFields, PlainLate DEF IInv
<1>5. ASSUME call[c].op \in Guarded, NEW pc \in {"user", "known"}, Move(c, pc),
             "loggedOut" \in call[c].stale =>
               /\ call[c].acc \in loggedOut
               /\ sessions[SessionOf(call[c].acc)] = 0 \/ call[c].acc <= agedAccess
      PROVE  RInv'
  <2>1. pc \in Steps
    BY DEF Steps
  <2>2. /\ \A d \in Calls \ {c} : call'[d] = call[d]
        /\ call'[c].pc = pc /\ call'[c].op = call[c].op /\ call'[c].acc = call[c].acc
        /\ call'[c].stale = call[c].stale
    BY <1>2, <1>5, <2>1, MoveFields
  <2>3. LeavesOK(call[c])' /\ LateOK(call[c])'
    BY <1>1, <1>2, <1>5, <2>2 DEF LeavesOK, LateOK, Guarded, SessionOf
  <2>4. QED
    BY <1>1, <2>2, <2>3, LateStep
<1>6. CASE ValidateRevoked(c)
  <2>1. /\ call[c].op \in Guarded /\ call[c].pc = "revoked"
        /\ Return(c, "error") \/ (~IsRevoked(call[c].acc) /\ Move(c, "user"))
    BY <1>6, Flags DEF ValidateRevoked
  <2>2. "loggedOut" \in call[c].stale => call[c].acc \in loggedOut /\ Refused(call[c].acc)
    BY <2>1 DEF RInv, LateOK
  <2>3. call[c].acc \in Nat /\ agedAccess \in Nat
    BY DEF IInv, Typed, CallRecord
  <2>4. QED
    BY <1>4, <1>5, <2>1, <2>2, <2>3 DEF IsRevoked, Refused
<1>7. CASE ValidateUser(c)
  <2>1. /\ call[c].op \in Guarded /\ call[c].pc = "user"
        /\ Return(c, "error") \/ Move(c, "known")
    BY <1>7 DEF ValidateUser
  <2>2. QED
    BY <1>4, <1>5, <2>1 DEF RInv, LateOK
<1>8. CASE ValidateSession(c)
  <2>1. PICK result \in Results :
          /\ call[c].op \in Guarded /\ call[c].pc = "known" /\ Return(c, result)
          /\ result = "ok" => sessions[SessionOf(call[c].acc)] # 0
    BY <1>8 DEF ValidateSession, SessionKnown, Results
  <2>2. "loggedOut" \in call[c].stale /\ result = "ok" => call[c].acc <= agedAccess
    BY <2>1 DEF RInv, LateOK
  <2>3. /\ \A d \in Calls \ {c} : call'[d] = call[d]
        /\ call'[c].pc = "done" /\ call'[c].op = "none" /\ call'[c].acc = call[c].acc
        /\ call'[c].stale = call[c].stale /\ call'[c].result = result
    BY <1>2, <2>1, ReturnFields
  <2>4. LeavesOK(call[c])' /\ LateOK(call[c])'
    BY <1>2, <2>2, <2>3 DEF LeavesOK, LateOK
  <2>5. QED
    BY <1>1, <2>3, <2>4, LateStep
<1>9. QED
  BY <1>3, <1>6, <1>7, <1>8 DEF ValidateStep

\* A Logout comes in.
LEMMA LogoutBeginsLate ==
  ASSUME IInv, RInv, Wears, NEW c \in Calls, Logout(c)
  PROVE  RInv'
<1>1. loggedOut' = loggedOut /\ UNCHANGED <<issued, agedAccess, created>>
  BY DEF Logout, OnlyCall, storeVars
<1>0. PICK t \in held : \E ref \in {0, t} :
         LET valid == t > agedAccess
             next  == IF valid THEN "revoke" ELSE IF ref # 0 THEN "delete" ELSE "done"
         IN  call' = [call EXCEPT ![c] =
               [Idle EXCEPT !.op = "logout", !.pc = next, !.acc = t, !.ref = ref,
                            !.sid = IF valid THEN SessionOf(t) ELSE 0, !.result = "ok"]]
  BY DEF Logout, Start
<1>2. PICK ref \in {0, t} :
         LET valid == t > agedAccess
             next  == IF valid THEN "revoke" ELSE IF ref # 0 THEN "delete" ELSE "done"
         IN  call' = [call EXCEPT ![c] =
               [Idle EXCEPT !.op = "logout", !.pc = next, !.acc = t, !.ref = ref,
                            !.sid = IF valid THEN SessionOf(t) ELSE 0, !.result = "ok"]]
  BY <1>0
<1> DEFINE sid  == IF t > agedAccess THEN SessionOf(t) ELSE 0
           next == IF t > agedAccess THEN "revoke" ELSE IF ref # 0 THEN "delete" ELSE "done"
<1>3. (sid = SessionOf(t) /\ next = "revoke") \/ sid = 0
  OBVIOUS
<1> HIDE DEF sid, next
<1>4. /\ \A d \in Calls \ {c} : call'[d] = call[d]
      /\ call'[c].op = "logout" /\ call'[c].pc = next /\ call'[c].acc = t
      /\ call'[c].sid = sid /\ call'[c].stale = {}
  BY <1>2, IdleFacts DEF IInv, Typed, CallRecord, sid, next
<1>5. t \in Tokens'
  BY <1>1 DEF IInv, Typed, Tokens
<1>6. LeavesOK(call[c])' /\ LateOK(call[c])'
  BY <1>1, <1>3, <1>4, <1>5 DEF LeavesOK, LateOK, Parting, Deleting, SessionOf
<1>7. QED
  BY <1>1, <1>4, <1>6, AddsNone, LateStep

\* A Logout past its session's row goes on, or leaves a token that is refused.
LEMMA PartsLate ==
  ASSUME IInv, RInv, Wears, NEW c \in Calls, call[c].op = "logout", call[c].pc \in Parting,
         \/ FinishLogout(c)
         \/ /\ loggedOut' = loggedOut /\ \A d \in Calls \ {c} : call'[d] = call[d]
            /\ call'[c].pc \in Parting /\ call'[c].op = "logout" /\ call'[c].acc = call[c].acc
            /\ call'[c].sid = call[c].sid /\ call'[c].stale = call[c].stale
  PROVE  RInv'
<1>1. /\ "loggedOut" \notin call[c].stale
      /\ call[c].sid # 0 => /\ call[c].acc \in Tokens /\ call[c].sid = SessionOf(call[c].acc)
                            /\ Refused(call[c].acc)
  BY DEF RInv, LeavesOK, LateOK, LogsOut, Parting, Deleting, Guarded
<1>2. CASE FinishLogout(c)
  <2>1. AddsRefused
    BY <1>1, <1>2 DEF FinishLogout, AddsRefused
  <2>2. /\ \A d \in Calls \ {c} : call'[d] = call[d]
        /\ call'[c].op = "none" /\ call'[c].stale = call[c].stale
    BY <1>2, ReturnFields DEF FinishLogout, IInv
  <2>3. LeavesOK(call[c])' /\ LateOK(call[c])'
    BY <1>1, <2>2 DEF LeavesOK, LateOK
  <2>4. QED
    BY <2>1, <2>2, <2>3, LateStep
<1>3. CASE /\ loggedOut' = loggedOut /\ \A d \in Calls \ {c} : call'[d] = call[d]
           /\ call'[c].pc \in Parting /\ call'[c].op = "logout" /\ call'[c].acc = call[c].acc
           /\ call'[c].sid = call[c].sid /\ call'[c].stale = call[c].stale
  <2>1. call[c] \in CallRecord /\ LeavesOK(call[c]) /\ LateOK(call[c])
    BY DEF IInv, Typed, RInv
  <2>2. PICK r \in CallRecord : r = call[c]
    BY <2>1
  <2>3. LeavesOK(r)' /\ LateOK(r)'
    BY <1>3, <2>1, <2>2, AddsNone, LateFrame DEF AddsRefused
  <2>4. LeavesOK(call[c])' /\ LateOK(call[c])'
    BY <1>1, <1>3, <2>2, <2>3 DEF LeavesOK, LateOK, LogsOut, Parting, Deleting
  <2>5. QED
    BY <1>3, <2>4, AddsNone, LateStep
<1>4. QED
  BY <1>2, <1>3

\* The blacklist and the session's row: at most one of the two commands fails.
LEMMA LogoutWritesLate ==
  ASSUME MaxFaults <= 1, IInv, RInv, Wears, NEW c \in Calls, LogoutRevoke(c) \/ LogoutSession(c)
  PROVE  RInv'
<1>1. loggedOut' = loggedOut /\ UNCHANGED <<issued, agedAccess, created>> /\ faults \in Nat
  BY DEF LogoutRevoke, LogoutSession, storeVars, histVars, RInv
<1>2. /\ call[c].op = "logout" /\ call[c].pc \in {"revoke", "drop"} /\ call[c].sid \in 1..created
      /\ call[c].acc \in Tokens /\ call[c].sid = SessionOf(call[c].acc)
      /\ "loggedOut" \notin call[c].stale
  <2>1. call[c].op = "logout" /\ call[c].pc \in {"revoke", "drop"}
    BY DEF LogoutRevoke, LogoutSession, At
  <2>2. call[c].sid \in 1..created
    BY <2>1 DEF IInv, CallOK, HandsOK, Typed
  <2>3. 0 \notin 1..created
    OBVIOUS
  <2>4. QED
    BY <2>1, <2>2, <2>3 DEF RInv, LeavesOK, LateOK, LogsOut, Guarded
<1>3. call[c].acc \in Tokens' /\ issued'[call[c].acc].sid = call[c].sid
  <2>1. Tokens' = Tokens
    BY <1>1 DEF Tokens
  <2>2. issued'[call[c].acc] = issued[call[c].acc]
    BY <1>1
  <2>3. QED
    BY <1>2, <2>1, <2>2 DEF SessionOf
<1>4. CASE LogoutRevoke(c)
  <2>1. PICK ok \in Outcomes(redis) : Charge(ok) /\ Revoke(call[c].acc, ok)
    BY <1>4 DEF LogoutRevoke
  <2>2. faults' = 0 \/ call[c].acc \in blacklist' \/ call[c].acc <= agedAccess'
    <3>1. /\ ok \in BOOLEAN /\ faults \in 0..MaxFaults /\ faults \in 0..1
          /\ call[c].acc \in Nat /\ agedAccess \in Nat
      BY <1>2, <2>1, Charged, SessionAssumption DEF RInv, IInv, Typed, Tokens
    <3>2. CASE ok = TRUE
      BY <1>1, <2>1, <3>1, <3>2 DEF Revoke
    <3>3. CASE ok = FALSE
      <4>1. faults > 0 /\ faults' = faults - 1
        BY <1>1, <2>1, <3>3, Charged DEF Charge
      <4>2. QED
        BY <3>1, <4>1
    <3>4. QED
      BY <3>1, <3>2, <3>3
  <2>3. /\ \A d \in Calls \ {c} : call'[d] = call[d]
        /\ call'[c].pc = "drop" /\ call'[c].op = "logout" /\ call'[c].acc = call[c].acc
        /\ call'[c].sid = call[c].sid /\ call'[c].stale = call[c].stale
    BY <1>2, <1>4, MoveFields DEF LogoutRevoke, IInv, Steps
  <2>4. LeavesOK(call[c])' /\ LateOK(call[c])'
    BY <1>2, <1>3, <2>2, <2>3 DEF LeavesOK, LateOK, Parting, Deleting, SessionOf
  <2>5. QED
    BY <1>1, <2>3, <2>4, AddsNone, LateStep
<1>5. CASE LogoutSession(c)
  <2>1. PICK ok \in Outcomes(pg) :
          /\ Charge(ok)
          /\ sessions' = IF ok THEN [sessions EXCEPT ![call[c].sid] = 0] ELSE sessions
          /\ call' = [call EXCEPT ![c].pc = "tokens", ![c].lost = ~ok]
    BY <1>5 DEF LogoutSession
  <2>2. /\ \A d \in Calls \ {c} : call'[d] = call[d]
        /\ call'[c].pc = "tokens" /\ call'[c].op = "logout" /\ call'[c].acc = call[c].acc
        /\ call'[c].sid = call[c].sid /\ call'[c].stale = call[c].stale
    BY <1>2, <2>1 DEF IInv, Typed, CallRecord
  <2>3. Refused(call[c].acc)'
    <3>1. ok \in BOOLEAN /\ (ok \/ faults > 0)
      BY <1>1, <2>1, Charged
    <3>2. CASE ok = TRUE
      <4>1. sessions \in [Sessions -> Nat] /\ call[c].sid \in Sessions
        BY <1>2, SessionAssumption DEF IInv, Typed, Sessions
      <4>2. sessions'[call[c].sid] = 0
        BY <2>1, <3>2, <4>1
      <4>3. QED
        BY <1>3, <2>2, <4>2 DEF Refused, SessionOf
    <3>3. CASE ok = FALSE
      <4>1. call[c].pc = "drop"
        BY <1>5 DEF LogoutSession, At
      <4>2. call[c].acc \in blacklist \/ call[c].acc <= agedAccess
        BY <1>2, <3>1, <3>3, <4>1 DEF RInv, LeavesOK, LogsOut
      <4>3. QED
        BY <1>1, <2>2, <4>2 DEF Refused, Wears
    <3>4. QED
      BY <3>1, <3>2, <3>3
  <2>4. LeavesOK(call[c])' /\ LateOK(call[c])'
    BY <1>2, <1>3, <2>2, <2>3 DEF LeavesOK, LateOK, Parting, Deleting, SessionOf
  <2>5. QED
    BY <1>1, <2>2, <2>4, AddsNone, LateStep
<1>6. QED
  BY <1>4, <1>5

\* The tokens of the session, and Delete.
LEMMA DropsLate ==
  ASSUME IInv, RInv, Wears, NEW c \in Calls,
         LogoutTokens(c) \/ LogoutPipeline(c) \/ Delete(c)
  PROVE  RInv'
<1>1. CASE LogoutTokens(c) \/ LogoutPipeline(c)
  <2>1. call[c].op = "logout" /\ call[c].pc \in Parting
    BY <1>1 DEF LogoutTokens, LogoutPipeline, At, Parting
  <2>2. \/ FinishLogout(c)
        \/ loggedOut' = loggedOut /\ Move(c, "delete")
        \/ /\ call' = [call EXCEPT ![c].pc = "pipeline", ![c].new = bySession[call[c].sid]]
           /\ loggedOut' = loggedOut
    BY <1>1 DEF LogoutTokens, LogoutPipeline, LogoutGoesOn
  <2>3. {"delete", "pipeline"} \subseteq Parting /\ "delete" \in Steps
    BY DEF Parting, Deleting, Steps
  <2>4. CASE loggedOut' = loggedOut /\ Move(c, "delete")
    BY <2>1, <2>3, <2>4, MoveFields, PartsLate DEF IInv
  <2>5. CASE /\ call' = [call EXCEPT ![c].pc = "pipeline", ![c].new = bySession[call[c].sid]]
             /\ loggedOut' = loggedOut
    <3>1. /\ \A d \in Calls \ {c} : call'[d] = call[d]
          /\ call'[c].pc = "pipeline" /\ call'[c].op = "logout" /\ call'[c].acc = call[c].acc
          /\ call'[c].sid = call[c].sid /\ call'[c].stale = call[c].stale
      BY <2>1, <2>5 DEF IInv, Typed, CallRecord
    <3>2. QED
      BY <2>1, <2>3, <2>5, <3>1, PartsLate
  <2>6. QED
    BY <2>1, <2>2, <2>4, <2>5, PartsLate
<1>2. CASE Delete(c)
  <2>1. call[c].pc \in Deleting /\ call[c].op \in {"refresh", "logout"}
    <3>1. call[c].pc \in Deleting
      BY <1>2 DEF Delete, RedisDelete, Deleting
    <3>2. QED
      BY <3>1 DEF IInv, CallOK, HandsOK
  <2>2. \/ \E ok : Deleted(c, ok)
        \/ \E pc \in Deleting : Move(c, pc) /\ loggedOut' = loggedOut
    BY <1>2 DEF Delete, RedisDelete, Later, Deleting
  <2>3. Deleting \subseteq Steps /\ Deleting \subseteq Parting
    BY DEF Steps, Parting
  <2>4. CASE call[c].op = "refresh"
    <3>1. "loggedOut" \notin call[c].stale
      BY <2>1, <2>4 DEF RInv, LateOK, Guarded, Deleting
    <3>2. CASE \E pc \in Deleting : Move(c, pc) /\ loggedOut' = loggedOut
      BY <2>3, <2>4, <3>1, <3>2, MoveFields, PlainLate DEF IInv
    <3>3. ASSUME NEW ok, Deleted(c, ok) PROVE RInv'
      <4>1. ToSave(c, SessionOf(call[c].ref), ~ok, Len(issued) + 1) /\ loggedOut' = loggedOut
        BY <2>4, <3>3 DEF Deleted, DrawNext, ToSave
      <4>2. QED
        BY <2>4, <3>1, <4>1, SaveFields, PlainLate DEF IInv
    <3>4. QED
      BY <2>2, <3>2, <3>3
  <2>5. CASE call[c].op = "logout"
    <3>1. CASE \E pc \in Deleting : Move(c, pc) /\ loggedOut' = loggedOut
      BY <2>1, <2>3, <2>5, <3>1, MoveFields, PartsLate DEF IInv
    <3>2. CASE \E ok : Deleted(c, ok)
      BY <2>1, <2>3, <2>5, <3>2, PartsLate DEF Deleted
    <3>3. QED
      BY <2>2, <3>1, <3>2
  <2>6. QED
    BY <2>1, <2>4, <2>5
<1>3. QED
  BY <1>1, <1>2

\* Time.
LEMMA TimeLate ==
  ASSUME IInv, RInv, Wears, AccessExpires \/ RefreshExpires
  PROVE  RInv'
<1>1. UNCHANGED <<call, loggedOut, sessions, issued, blacklist, faults>>
  BY DEF AccessExpires, RefreshExpires, histVars
<1>2. \A t \in Nat : t <= agedAccess => t <= agedAccess'
  BY DEF Wears, IInv, Typed
<1>3. \A t \in loggedOut : t \in Nat
  BY DEF RInv, Tokens, IInv, Typed
<1>4. \A c \in Calls : LeavesOK(call[c])' /\ LateOK(call[c])'
  <2> SUFFICES ASSUME NEW c \in Calls PROVE LeavesOK(call[c])' /\ LateOK(call[c])'
    OBVIOUS
  <2>1. PICK r \in CallRecord : r = call[c] /\ r = call'[c]
    BY <1>1 DEF IInv, Typed
  <2>2. LeavesOK(r)' /\ LateOK(r)'
    BY <1>1, <2>1, AddsNone, LateFrame DEF RInv, AddsRefused
  <2>3. QED
    BY <2>1, <2>2 DEF LeavesOK, LateOK
<1>5. QED
  BY <1>1, <1>2, <1>3, <1>4 DEF RInv, Refused, Tokens, SessionOf

\* Together: at most one failing command leaves every token logged out refused.
LEMMA RefusedInvariance == ASSUME MaxFaults <= 1 PROVE Spec => []RInv
<1>1. Init => RInv
  <2> SUFFICES ASSUME Init PROVE RInv
    OBVIOUS
  <2>1. \A c \in Calls : call[c] = Idle
    BY DEF Init
  <2>2. LeavesOK(Idle) /\ LateOK(Idle)
    BY IdleFacts DEF LeavesOK, LateOK
  <2>3. QED
    BY <2>1, <2>2, SessionAssumption DEF Init, RInv
<1>2. IInv /\ RInv /\ [Next]_vars => RInv'
  <2> SUFFICES ASSUME IInv, RInv, [Next]_vars PROVE RInv'
    OBVIOUS
  <2>1. CASE Next
    <3>1. Wears
      BY <2>1, StepWears DEF RInv
    <3>2. ASSUME NEW c \in Calls, RegisterStep(c) \/ LoginStep(c) \/ NewSession(c) PROVE RInv'
      BY <3>1, <3>2, EnterLate
    <3>3. ASSUME NEW c \in Calls, RefreshStep(c) \/ Issue(c) PROVE RInv'
      BY <3>1, <3>3, RefreshLate
    <3>4. ASSUME NEW c \in Calls, ValidateStep(c) PROVE RInv'
      BY <3>1, <3>4, ValidateLate
    <3>5. ASSUME NEW c \in Calls, LogoutStep(c) \/ Delete(c) PROVE RInv'
      BY <3>1, <3>5, LogoutBeginsLate, LogoutWritesLate, DropsLate DEF LogoutStep
    <3>6. CASE AccessExpires \/ RefreshExpires
      BY <3>1, <3>6, TimeLate
    <3>7. QED
      BY <2>1, <3>2, <3>3, <3>4, <3>5, <3>6 DEF Next
  <2>2. CASE UNCHANGED vars
    BY <2>2 DEF vars, storeVars, refreshVars, histVars, RInv, LeavesOK, LateOK, Refused, Tokens,
                SessionOf
  <2>3. QED
    BY <2>1, <2>2
<1>3. QED
  BY <1>1, <1>2, Invariance, PTL DEF Spec

-----------------------------------------------------------------------------
(* The last token of a session stays good.                                  *)

\* No step takes a mark away.
Marks == raced \subseteq raced' /\ left \subseteq left'
\* Action by action.
LEMMA StepMarks == ASSUME Next PROVE Marks
<1>1. ASSUME NEW c \in Calls, RegisterStep(c) \/ LoginStep(c) PROVE Marks
  BY <1>1 DEF RegisterStep, LoginStep, Register, RegisterName, RegisterEmail, RegisterUser,
     Login, LoginUser, histVars, Marks
<1>2. ASSUME NEW c \in Calls, RefreshStep(c) \/ ValidateStep(c) PROVE Marks
  BY <1>2 DEF RefreshStep, Refresh, RefreshRecord, RefreshUser, RefreshSession,
     ValidateStep, Validate, ValidateRevoked, ValidateUser, ValidateSession, histVars, Marks
<1>3. ASSUME NEW c \in Calls, LogoutStep(c) PROVE Marks
  BY <1>3 DEF LogoutStep, Logout, LogoutRevoke, LogoutSession, LogoutTokens, LogoutPipeline,
     histVars, Marks
<1>4. ASSUME NEW c \in Calls, NewSession(c) \/ Issue(c) \/ Delete(c) PROVE Marks
  BY <1>4 DEF NewSession, Issue, Delete, histVars, Marks
<1>5. CASE AccessExpires \/ RefreshExpires
  BY <1>5 DEF AccessExpires, RefreshExpires, histVars, Marks
<1>6. QED
  BY <1>1, <1>2, <1>3, <1>4, <1>5 DEF Next

\* A session that is clean after a step was so before, and a command of that
\* step has not failed.
LEMMA CleanBefore ==
  ASSUME UInv, Wears, Marks, NEW s, Clean(s)'
  PROVE  /\ Clean(s) /\ faults' = faults
         /\ \A external : \A ok \in Outcomes(external) : Charge(ok) => ok = TRUE
<1>1. faults = MaxFaults /\ faults' = faults /\ faults \in Nat
  BY SessionAssumption DEF UInv, Wears, Clean
<1>2. Clean(s)
  BY <1>1 DEF Clean, Marks
<1>3. ASSUME NEW external, NEW ok \in Outcomes(external), Charge(ok) PROVE ok = TRUE
  BY <1>1, <1>3, Charged DEF Charge
<1>4. QED
  BY <1>1, <1>2, <1>3

\* What a step leaves alone for session s: the row, the tokens returned and the
\* records still good ...
StoresAlike(s) ==
  /\ sessions'[s] = sessions[s] /\ agedRefresh <= agedRefresh'
  /\ \A t \in held' : issued'[t].sid = s => t \in held
  /\ \A t \in byToken' : issued'[t].sid = s => t \in byToken
  /\ \A t \in byToken : issued[t].sid = s /\ t > agedRefresh' => t \in byToken'
\* ... and call d, except that it may let its token go.
CallAlike(d, s) ==
  /\ Saving(call'[d], s) <=> Saving(call[d], s)
  /\ Saving(call[d], s) => call'[d].new = call[d].new
  /\ Holding(call[d], s)' => Holding(call[d], s) /\ call'[d].ref = call[d].ref

\* A call whose record stays is left alone.
LEMMA OthersAlike ==
  ASSUME IInv, Wears, NEW d \in Calls, call'[d] = call[d], NEW s
  PROVE  CallAlike(d, s)
<1>1. call[d].op = "refresh" /\ call[d].pc # "done" => call[d].ref \in Tokens
  BY DEF IInv, CallOK, HandsOK, Typed
<1>2. QED
  BY <1>1 DEF CallAlike, Holding, Wears, SessionOf

\* A session that is left alone stays in order.
LEMMA CleanFrame ==
  ASSUME IInv, IInv', UInv, Wears, held \subseteq held',
         NEW s \in 1..created, CleanOK(s), StoresAlike(s), \A d \in Calls : CallAlike(d, s)
  PROVE  CleanOK(s)'
<1>1. /\ \A t \in held' : /\ t \in Nat
                          /\ issued'[t].sid = s => t \in held /\ issued[t].sid = s
      /\ \A t \in byToken' : /\ t \in Nat
                             /\ issued'[t].sid = s => t \in byToken /\ issued[t].sid = s
  <2>1. held \subseteq Tokens /\ byToken \subseteq Tokens
    BY DEF IInv, Typed
  <2>2. \A t \in held' \cup byToken' : t \in Nat
    BY DEF IInv, Typed, Tokens
  <2>3. QED
    BY <2>1, <2>2 DEF StoresAlike, Wears
<1>2. sessions'[s] # 0
  BY DEF CleanOK, StoresAlike
<1>3. \A c, d \in Calls : Busy(call[c], s)' /\ Busy(call[d], s)' => c = d
  BY DEF CleanOK, Busy, CallAlike, Saving
<1>4. \A t \in byToken', u \in held' : issued'[t].sid = s /\ issued'[u].sid = s => u <= t
  BY <1>1 DEF CleanOK, TokenOf, SessionOf
<1>5. ASSUME NEW c \in Calls, Saving(call'[c], s)
      PROVE  /\ \A t \in byToken' : issued'[t].sid # s
             /\ \A u \in held' : issued'[u].sid = s => u < call'[c].new
  BY <1>1, <1>5 DEF CleanOK, TokenOf, SessionOf, CallAlike
<1>6. ASSUME NEW c \in Calls, Holding(call[c], s)'
      PROVE  \A u \in held' : issued'[u].sid = s => u <= call'[c].ref
  BY <1>1, <1>6 DEF CleanOK, TokenOf, SessionOf, CallAlike
<1>7. ASSUME \A c \in Calls : ~Saving(call'[c], s), NEW t \in LastReturned(s)', t > agedRefresh'
      PROVE  t \in byToken'
  <2>1. /\ t \in held' /\ issued'[t].sid = s
        /\ \A u \in held' : issued'[u].sid = s => u <= t
    BY <1>7 DEF LastReturned, SessionOf
  <2>2. t \in held /\ issued[t].sid = s /\ t \in Nat
    BY <1>1, <2>1
  <2>3. \A u \in held : issued[u].sid = s => u <= t
    <3>1. \A u \in held : u \in held' /\ issued'[u] = issued[u]
      BY DEF IInv, Typed, Wears
    <3>2. QED
      BY <2>1, <3>1
  <2>4. t \in LastReturned(s)
    BY <2>2, <2>3 DEF LastReturned, SessionOf
  <2>5. agedRefresh \in Nat /\ agedRefresh' \in Nat /\ agedRefresh <= agedRefresh'
    BY DEF IInv, Typed, StoresAlike
  <2>6. t \in byToken
    BY <1>7, <2>2, <2>4, <2>5 DEF CleanOK, CallAlike
  <2>7. QED
    BY <1>7, <2>2, <2>6 DEF StoresAlike
<1>8. QED
  BY <1>2, <1>3, <1>4, <1>5, <1>6, <1>7 DEF CleanOK, TokenOf, SessionOf, Saving

\* Calls keep what is theirs.
LEMMA OwnFrame ==
  ASSUME IInv, UInv, Wears, Marks, NEW d \in Calls, call'[d] = call[d]
  PROVE  OwnOK(call[d])'
<1>1. /\ call[d].pc = "save" => call[d].new \in Tokens
      /\ call[d].op = "refresh" /\ call[d].pc = "save" => call[d].ref \in Tokens
      /\ call[d].ref # 0 => call[d].ref \in Tokens
  BY DEF IInv, CallOK, HandsOK, Typed
<1>2. OwnOK(call[d])
  BY DEF UInv
<1>3. QED
  BY <1>1, <1>2 DEF OwnOK, Wears, Marks, SessionOf, Tokens

\* The parts about the stores alone.
StoresOK == /\ byToken \subseteq held
            /\ \A u \in users : u.id # 0
            /\ \A s \in Sessions : bySession[s] # 0 => SessionOf(bySession[s]) = s
\* The pointers, when no pointer is set but to 0.
LEMMA PointersKept ==
  ASSUME IInv, UInv, Wears, \A s \in Sessions : bySession'[s] \in {0, bySession[s]}
  PROVE  \A s \in Sessions : bySession'[s] # 0 => issued'[bySession'[s]].sid = s
<1>1. \A s \in Sessions : bySession[s] # 0 => bySession[s] \in Tokens
  BY DEF IInv, Typed, Tokens
<1>2. QED
  BY <1>1 DEF UInv, Wears, SessionOf

\* A step of call c, session by session.
LEMMA UsableStep ==
  ASSUME IInv, UInv, Wears, Marks, NEW c \in Calls, \A d \in Calls \ {c} : call'[d] = call[d],
         StoresOK', OwnOK(call[c])',
         \A s \in 1..created' : Clean(s)' => CleanOK(s)'
  PROVE  UInv'
<1>1. \A d \in Calls : OwnOK(call[d])'
  BY OwnFrame
<1>2. faults' \in 0..MaxFaults
  BY SessionAssumption DEF UInv, Wears
<1>3. QED
  BY <1>1, <1>2 DEF UInv, StoresOK

\* ... that leaves the clean sessions alone.
LEMMA QuietStep ==
  ASSUME IInv, IInv', UInv, Wears, Marks, NEW c \in Calls,
         \A d \in Calls \ {c} : call'[d] = call[d],
         StoresOK', OwnOK(call[c])', created' = created, held \subseteq held',
         \A s \in 1..created : Clean(s) /\ Clean(s)' => StoresAlike(s) /\ CallAlike(c, s)
  PROVE  UInv'
<1>1. ASSUME NEW s \in 1..created, Clean(s)' PROVE CleanOK(s)'
  <2>1. Clean(s) /\ CleanOK(s)
    BY <1>1, CleanBefore DEF UInv
  <2>2. StoresAlike(s) /\ \A d \in Calls : CallAlike(d, s)
    BY <1>1, <2>1, OthersAlike
  <2>3. QED
    BY <2>1, <2>2, CleanFrame
<1>2. QED
  BY <1>1, UsableStep

\* A step that changes no store but the blacklist and the users.
LEMMA PlainUsable ==
  ASSUME IInv, IInv', UInv, Wears, Marks, NEW c \in Calls,
         \A d \in Calls \ {c} : call'[d] = call[d],
         UNCHANGED <<sessions, created, issued, held, byToken, bySession, agedRefresh>>,
         \A u \in users' : u.id # 0, OwnOK(call[c])',
         \A s \in 1..created : Clean(s) /\ Clean(s)' => CallAlike(c, s)
  PROVE  UInv'
<1>1. StoresOK'
  BY DEF StoresOK, UInv, SessionOf
<1>2. \A s \in 1..created : StoresAlike(s)
  BY DEF StoresAlike, IInv, Typed
<1>3. held \subseteq held' /\ created' = created
  OBVIOUS
<1>4. QED
  BY <1>1, <1>2, <1>3, QuietStep

\* Register and Login until they have a user: no session is touched.
LEMMA EnterUsable ==
  ASSUME IInv, IInv', UInv, Wears, Marks, NEW c \in Calls, RegisterStep(c) \/ LoginStep(c)
  PROVE  UInv'
<1>1. UNCHANGED <<sessions, created, issued, held, byToken, bySession, agedRefresh>>
  BY DEF RegisterStep, Register, RegisterName, RegisterEmail, RegisterUser, LoginStep, Login,
     LoginUser, OnlyCall, storeVars, refreshVars
<1>2. \A u \in users' : u.id # 0
  <2>1. CASE users' = users
    BY <2>1 DEF UInv
  <2>2. CASE RegisterUser(c)
    <3>1. Cardinality(users) + 1 # 0
      BY FS_CardinalityType DEF IInv, Typed
    <3>2. users' = users \/ \E u : u.id = Cardinality(users) + 1 /\ users' = users \cup {u}
      BY <2>2 DEF RegisterUser, SetUser
    <3>3. QED
      BY <3>1, <3>2 DEF UInv
  <2>3. QED
    BY <2>1, <2>2 DEF RegisterStep, Register, RegisterName, RegisterEmail, LoginStep, Login,
       LoginUser, OnlyCall, storeVars
<1>3. /\ call[c].pc = "done" \/ (call[c].pc # "save" /\ call[c].op # "refresh")
      /\ \A d \in Calls \ {c} : call'[d] = call[d]
      /\ \/ call'[c].pc \in {"done", "name", "email", "user"} /\ call'[c].op # "logout"
         \/ call'[c].pc = "session" /\ call'[c].uid # 0 /\ call'[c].op # "logout"
      /\ call'[c].op # "refresh"
  <2>1. Typed
    BY DEF IInv
  <2>2. CASE Register(c)
    <3>1. PICK n \in Names, e \in Emails : call' = [call EXCEPT ![c] =
             [Idle EXCEPT !.op = "register", !.pc = "name", !.name = n, !.email = e]]
      BY <2>2 DEF Register, Start
    <3>2. /\ \A d \in Calls \ {c} : call'[d] = call[d]
          /\ call'[c] = [Idle EXCEPT !.op = "register", !.pc = "name", !.name = n, !.email = e]
      BY <2>1, <3>1 DEF Typed
    <3>3. call'[c].op = "register" /\ call'[c].pc = "name"
      BY <3>2, IdleFacts DEF CallRecord
    <3>4. QED
      BY <2>2, <3>2, <3>3 DEF Register, Start
  <2>3. CASE Login(c)
    <3>1. PICK n \in Names : call' = [call EXCEPT ![c] =
             [Idle EXCEPT !.op = "login", !.pc = "name", !.name = n]]
      BY <2>3 DEF Login, Start
    <3>2. /\ \A d \in Calls \ {c} : call'[d] = call[d]
          /\ call'[c] = [Idle EXCEPT !.op = "login", !.pc = "name", !.name = n]
      BY <2>1, <3>1 DEF Typed
    <3>3. call'[c].op = "login" /\ call'[c].pc = "name"
      BY <3>2, IdleFacts DEF CallRecord
    <3>4. QED
      BY <2>3, <3>2, <3>3 DEF Login, Start
  <2>4. CASE call[c].op \in {"register", "login"} /\ call[c].pc \in {"name", "email", "user"}
    <3>1. CASE \E result : Return(c, result)
      BY <2>1, <2>4, <3>1, ReturnFields
    <3>2. CASE \E pc \in {"email", "user"} : Move(c, pc)
      BY <2>1, <2>4, <3>2, MoveFields DEF Steps
    <3>3. CASE \E id \in Nat \ {0} : call' = [call EXCEPT ![c].pc = "session", ![c].uid = id]
      <4>1. PICK id \in Nat \ {0} : call' = [call EXCEPT ![c].pc = "session", ![c].uid = id]
        BY <3>3
      <4>2. call[c] \in CallRecord /\ call \in [Calls -> CallRecord]
        BY <2>1 DEF Typed
      <4>3. /\ call'[c] = [call[c] EXCEPT !.pc = "session", !.uid = id]
            /\ \A d \in Calls \ {c} : call'[d] = call[d]
        BY <4>1, <4>2
      <4>4. call'[c].pc = "session" /\ call'[c].uid = id /\ call'[c].op = call[c].op
        BY <4>2, <4>3 DEF CallRecord
      <4>5. QED
        BY <2>4, <4>3, <4>4
    <3>4. CASE RegisterUser(c)
      <4>1. Cardinality(users) + 1 \in Nat \ {0}
        BY FS_CardinalityType DEF IInv, Typed
      <4>2. \/ \E result : Return(c, result)
            \/ call' = [call EXCEPT ![c].pc = "session", ![c].uid = Cardinality(users) + 1]
        BY <3>4 DEF RegisterUser
      <4>3. QED
        BY <3>1, <3>3, <4>1, <4>2
    <3>5. CASE LoginUser(c)
      <4>1. \A u \in users : u.id \in Nat \ {0}
        BY DEF IInv, Typed, UserType, UInv
      <4>2. \A name, ok : UserByName(name, ok) \subseteq users
        BY DEF UserByName, Found
      <4>3. \/ \E result : Return(c, result)
            \/ \E u \in users : call' = [call EXCEPT ![c].pc = "session", ![c].uid = u.id]
        BY <3>5, <4>2 DEF LoginUser
      <4>4. QED
        BY <3>1, <3>3, <4>1, <4>3
    <3>6. QED
      BY <2>2, <2>3, <2>4, <3>1, <3>2, <3>4, <3>5
         DEF RegisterStep, RegisterName, RegisterEmail, LoginStep, Register, Login, Start
  <2>5. QED
    BY <2>2, <2>3, <2>4 DEF RegisterStep, RegisterName, RegisterEmail, RegisterUser, LoginStep,
       LoginUser, At
<1>4. OwnOK(call[c])'
  BY <1>3 DEF OwnOK
<1>5. \A s : CallAlike(c, s)
  BY <1>3 DEF CallAlike, Saving, Holding
<1>6. QED
  BY <1>1, <1>2, <1>3, <1>4, <1>5, PlainUsable

\* ValidateToken: no session is touched.
LEMMA ValidateUsable ==
  ASSUME IInv, IInv', UInv, Wears, Marks, NEW c \in Calls, ValidateStep(c)
  PROVE  UInv'
<1>1. /\ UNCHANGED <<sessions, created, issued, held, byToken, bySession, agedRefresh>>
      /\ users' = users
  BY DEF ValidateStep, Validate, ValidateRevoked, ValidateUser, ValidateSession,
     OnlyCall, storeVars, refreshVars
<1>2. /\ \A d \in Calls \ {c} : call'[d] = call[d]
      /\ call[c].pc \in {"done", "revoked", "user", "known"}
      /\ call[c].pc # "done" => call[c].op \in Guarded
      /\ call'[c].pc \in {"done", "revoked", "user", "known"}
      /\ call'[c].op \in Guarded \cup {"none"}
  <2>1. Typed /\ {"user", "known"} \subseteq Steps
    BY DEF IInv, Steps
  <2>2. CASE Validate(c)
    <3>1. PICK t \in held, op \in Guarded : call' = [call EXCEPT ![c] =
             [Idle EXCEPT !.op = op, !.acc = t, !.stale = Stale(TRUE, t),
                          !.pc = IF t > agedAccess THEN "revoked" ELSE "done",
                          !.result = "error"]]
      BY <2>2 DEF Validate, Start
    <3>2. call[c].pc = "done"
      BY <2>2 DEF Validate, Start
    <3>3. QED
      BY <2>1, <3>1, <3>2, IdleFacts DEF Typed, CallRecord
  <2>3. CASE call[c].op \in Guarded /\ call[c].pc \in {"revoked", "user", "known"}
    <3>1. CASE \E result : Return(c, result)
      BY <2>1, <2>3, <3>1, ReturnFields
    <3>2. CASE \E pc \in {"user", "known"} : Move(c, pc)
      BY <2>1, <2>3, <3>2, MoveFields
    <3>3. CASE Validate(c)
      BY <2>2, <3>3
    <3>4. QED
      BY <3>1, <3>2, <3>3 DEF ValidateStep, ValidateRevoked, ValidateUser, ValidateSession
  <2>4. QED
    BY <2>2, <2>3 DEF ValidateStep, ValidateRevoked, ValidateUser, ValidateSession
<1>3. OwnOK(call[c])'
  BY <1>2 DEF OwnOK, Guarded
<1>4. \A s : CallAlike(c, s)
  BY <1>2 DEF CallAlike, Saving, Holding, Guarded
<1>5. QED
  BY <1>1, <1>2, <1>3, <1>4, PlainUsable DEF UInv

\* A Refresh takes hold of its session's only record.
LEMMA RecordUsable ==
  ASSUME IInv, IInv', UInv, Wears, Marks, NEW c \in Calls, RefreshRecord(c)
  PROVE  UInv'
<1> DEFINE t == call[c].ref
<1>1. /\ call[c].op = "refresh" /\ call[c].pc = "get" /\ t \in held
      /\ UNCHANGED <<users, sessions, created, issued, held, byToken, bySession, agedRefresh>>
  BY DEF RefreshRecord, OnlyCall, storeVars, refreshVars, At, IInv, CallOK, HandsOK
<1>2. CASE Return(c, "error")
  <2>1. /\ \A d \in Calls \ {c} : call'[d] = call[d]
        /\ call'[c].pc = "done" /\ call'[c].op = "none"
    BY <1>2, ReturnFields DEF IInv
  <2>2. OwnOK(call[c])' /\ \A s : CallAlike(c, s)
    BY <1>1, <2>1 DEF OwnOK, CallAlike, Saving, Holding
  <2>3. QED
    BY <1>1, <2>1, <2>2, PlainUsable DEF UInv
<1>3. CASE /\ Move(c, "user") /\ t \in byToken
           /\ raced' = IF Rival(c, SessionOf(t)) THEN raced \cup {SessionOf(t)} ELSE raced
  <2>1. /\ \A d \in Calls \ {c} : call'[d] = call[d]
        /\ call'[c].pc = "user" /\ call'[c].op = "refresh" /\ call'[c].ref = t
    BY <1>1, <1>3, MoveFields DEF IInv, Steps
  <2>2. OwnOK(call[c])'
    BY <2>1 DEF OwnOK
  <2>3. StoresOK' /\ created' = created
    BY <1>1 DEF StoresOK, UInv, SessionOf
  <2>4. ASSUME NEW s \in 1..created, Clean(s)' PROVE CleanOK(s)'
    <3>1. Clean(s) /\ CleanOK(s)
      BY <2>4, CleanBefore DEF UInv
    <3>2. CASE s # SessionOf(t)
      <4>1. CallAlike(c, s) /\ StoresAlike(s) /\ held \subseteq held'
        BY <1>1, <2>1, <3>2 DEF CallAlike, Saving, Holding, StoresAlike, IInv, Typed, SessionOf
      <4>2. \A d \in Calls : CallAlike(d, s)
        BY <2>1, <4>1, OthersAlike
      <4>3. QED
        BY <3>1, <4>1, <4>2, CleanFrame
    <3>3. CASE s = SessionOf(t)
      <4>1. ~Rival(c, s)
        BY <1>3, <2>4, <3>3 DEF Clean
      <4>2. \A d \in Calls : ~Saving(call[d], s)
        BY <1>3, <3>1, <3>3 DEF CleanOK, TokenOf
      <4>3. ASSUME NEW d \in Calls, d # c PROVE ~Saving(call'[d], s) /\ ~Holding(call[d], s)'
        <5>1. ~Holding(call[d], s)
          BY <4>1, <4>3 DEF Rival, Holding
        <5>2. QED
          BY <1>1, <2>1, <4>2, <4>3, <5>1 DEF Saving, Holding, SessionOf
      <4>4. ~Saving(call'[c], s)
        BY <2>1 DEF Saving
      <4>5. \A u \in held : TokenOf(u, s) => u <= t
        BY <1>3, <3>1, <3>3 DEF CleanOK, TokenOf
      <4>6. LastReturned(s)' = LastReturned(s)
        BY <1>1 DEF LastReturned, SessionOf
      <4>7. \A u \in LastReturned(s) : u > agedRefresh => u \in byToken
        BY <3>1, <4>2 DEF CleanOK
      <4>8. \A d \in Calls : ~Saving(call'[d], s) /\ (Holding(call[d], s)' => d = c)
        BY <4>3, <4>4
      <4>9. QED
        BY <1>1, <2>1, <3>1, <4>5, <4>6, <4>7, <4>8 DEF CleanOK, Busy, TokenOf, SessionOf, Saving
    <3>4. QED
      BY <3>2, <3>3
  <2>5. QED
    BY <2>1, <2>2, <2>3, <2>4, UsableStep
<1>4. QED
  BY <1>2, <1>3 DEF RefreshRecord, RefreshGet

\* The other steps of Refresh before its Delete.
LEMMA RefreshUsable ==
  ASSUME IInv, IInv', UInv, Wears, Marks, NEW c \in Calls,
         Refresh(c) \/ RefreshUser(c) \/ RefreshSession(c)
  PROVE  UInv'
<1>1. /\ UNCHANGED <<sessions, created, issued, held, byToken, bySession, agedRefresh>>
      /\ users' = users
  BY DEF Refresh, RefreshUser, RefreshSession, OnlyCall, storeVars, refreshVars
<1>2. CASE Refresh(c)
  <2>1. PICK t \in held : call' = [call EXCEPT ![c] =
           [Idle EXCEPT !.op = "refresh", !.pc = "get", !.ref = t, !.stale = Stale(FALSE, t)]]
    BY <1>2 DEF Refresh, Start
  <2>2. /\ \A d \in Calls \ {c} : call'[d] = call[d]
        /\ call'[c].op = "refresh" /\ call'[c].pc = "get" /\ call[c].pc = "done"
    BY <1>2, <2>1, IdleFacts DEF Refresh, Start, IInv, Typed, CallRecord
  <2>3. OwnOK(call[c])' /\ \A s : CallAlike(c, s)
    BY <2>2 DEF OwnOK, CallAlike, Saving, Holding
  <2>4. QED
    BY <1>1, <2>2, <2>3, PlainUsable DEF UInv
<1>3. CASE RefreshUser(c) \/ RefreshSession(c)
  <2>1. call[c].op = "refresh" /\ call[c].pc \in {"user", "known"} /\ call[c].ref \in held
    BY <1>3 DEF RefreshUser, RefreshSession, At, IInv, CallOK, HandsOK
  <2>2. CASE \E result : Return(c, result)
    <3>1. /\ \A d \in Calls \ {c} : call'[d] = call[d]
          /\ call'[c].pc = "done" /\ call'[c].op = "none"
      BY <2>2, ReturnFields DEF IInv
    <3>2. OwnOK(call[c])' /\ \A s : CallAlike(c, s)
      BY <2>1, <3>1 DEF OwnOK, CallAlike, Saving, Holding
    <3>3. QED
      BY <1>1, <3>1, <3>2, PlainUsable DEF UInv
  <2>3. CASE \E pc \in {"known", "delete"} : Move(c, pc)
    <3>1. {"known", "delete"} \subseteq Steps
      BY DEF Steps, Parting, Deleting
    <3>2. /\ \A d \in Calls \ {c} : call'[d] = call[d]
          /\ call'[c].pc \in {"known", "delete"} /\ call'[c].op = "refresh"
          /\ call'[c].ref = call[c].ref
      BY <2>1, <2>3, <3>1, MoveFields DEF IInv
    <3>3. OwnOK(call[c])' /\ \A s : CallAlike(c, s)
      BY <1>1, <2>1, <3>2 DEF OwnOK, CallAlike, Saving, Holding, SessionOf
    <3>4. QED
      BY <1>1, <3>2, <3>3, PlainUsable DEF UInv
  <2>4. QED
    BY <1>3, <2>2, <2>3 DEF RefreshUser, RefreshSession
<1>4. QED
  BY <1>2, <1>3

\* The pair of a clean session is saved: it has the session's only record.
LEMMA IssueUsable ==
  ASSUME IInv, IInv', UInv, Wears, Marks, NEW c \in Calls, Issue(c)
  PROVE  UInv'
<1> DEFINE n == call[c].new
           r == call[c].sid
<1>1. /\ call[c].pc = "save" /\ n \in Tokens /\ n \notin held
      /\ UNCHANGED <<users, sessions, created, issued, agedRefresh>>
  BY DEF Issue, storeVars, IInv, CallOK, HandsOK
<1>2. r = SessionOf(n) /\ r \in Sessions
  BY <1>1, SessionAssumption DEF UInv, OwnOK, IInv, Typed, Sessions
<1>3. /\ \A d \in Calls \ {c} : call'[d] = call[d]
      /\ call'[c].pc = "done" /\ call'[c].op = "none"
  <2>1. \E result : Return(c, result)
    BY DEF Issue
  <2>2. QED
    BY <2>1, ReturnFields DEF IInv
<1>4. OwnOK(call[c])'
  BY <1>3 DEF OwnOK
<1>5. PICK ok \in Outcomes(redis) :
        /\ Charge(ok)
        /\ IF ok THEN Save(n) ELSE UNCHANGED refreshVars
        /\ held' = IF ok THEN held \cup {n} ELSE held
  BY DEF Issue
<1>6. /\ bySession' = [bySession EXCEPT ![r] = n] \/ bySession' = bySession
      /\ ok => n \in byToken'
      /\ byToken' \subseteq byToken \cup (IF ok THEN {n} ELSE {})
      /\ \A t \in byToken : t \in byToken' \/ (t = bySession[r] /\ t # 0)
  <2>1. 0 \notin byToken /\ ok \in BOOLEAN
    BY <1>5, Flags DEF IInv, Typed, Tokens
  <2>2. QED
    BY <1>2, <1>5, <2>1 DEF Save, MemorySave, RedisSave, refreshVars
<1>7. \A t \in byToken : t \in byToken' \/ SessionOf(t) = r
  BY <1>2, <1>6 DEF UInv
<1>8. StoresOK'
  <2>1. byToken' \subseteq held'
    BY <1>5, <1>6, Flags DEF UInv
  <2>2. \A s \in Sessions : bySession'[s] # 0 => issued'[bySession'[s]].sid = s
    BY <1>1, <1>2, <1>6 DEF UInv, SessionOf, IInv, Typed
  <2>3. QED
    BY <1>1, <2>1, <2>2 DEF StoresOK, UInv, SessionOf
<1>9. ASSUME NEW s \in 1..created, Clean(s)' PROVE CleanOK(s)'
  <2>1. Clean(s) /\ CleanOK(s) /\ ok = TRUE
    BY <1>5, <1>9, CleanBefore DEF UInv
  <2>2. held' = held \cup {n}
    BY <1>5, <2>1
  <2>3. CASE s # r
    <3>1. CallAlike(c, s) /\ held \subseteq held'
      BY <1>1, <1>3, <2>2, <2>3 DEF CallAlike, Saving, Holding
    <3>2. StoresAlike(s)
      <4>1. issued[n].sid # s
        BY <1>2, <2>3 DEF SessionOf
      <4>2. \A t \in byToken : issued[t].sid = s => t \in byToken'
        BY <1>7, <2>3 DEF SessionOf
      <4>3. agedRefresh <= agedRefresh'
        BY <1>1 DEF IInv, Typed
      <4>4. QED
        BY <1>1, <1>6, <2>1, <2>2, <4>1, <4>2, <4>3 DEF StoresAlike
    <3>3. \A d \in Calls : CallAlike(d, s)
      BY <1>3, <3>1, OthersAlike
    <3>4. QED
      BY <2>1, <3>1, <3>2, <3>3, CleanFrame
  <2>4. CASE s = r
    <3>1. Saving(call[c], s)
      BY <1>1, <2>4 DEF Saving
    <3>2. \A d \in Calls : ~Busy(call[d], s)'
      <4>1. ASSUME NEW d \in Calls, d # c PROVE ~Busy(call[d], s)'
        <5>1. ~Busy(call[d], s) /\ CallAlike(d, s)
          BY <1>3, <2>1, <3>1, <4>1, OthersAlike DEF CleanOK, Busy
        <5>2. QED
          BY <5>1 DEF Busy, CallAlike, Saving
      <4>2. ~Busy(call[c], s)'
        BY <1>3 DEF Busy, Saving, Holding
      <4>3. QED
        BY <4>1, <4>2
    <3>3. /\ \A t \in byToken : ~TokenOf(t, s)
          /\ \A u \in held : TokenOf(u, s) => u < n
      BY <2>1, <3>1 DEF CleanOK
    <3>4. n \in Nat /\ \A u \in held : u \in Nat
      BY <1>1 DEF IInv, Typed, Tokens
    <3>5. \A t \in byToken' : issued'[t].sid = s => t = n
      BY <1>1, <1>6, <3>3 DEF TokenOf, SessionOf
    <3>6. \A u \in held' : issued'[u].sid = s => u <= n
      BY <1>1, <2>2, <3>3, <3>4 DEF TokenOf, SessionOf
    <3>7. \A t \in LastReturned(s)' : t = n
      BY <1>1, <1>2, <2>2, <2>4, <3>3, <3>4 DEF LastReturned, SessionOf, TokenOf
    <3>8. sessions'[s] # 0
      BY <1>1, <2>1 DEF CleanOK
    <3>9. QED
      BY <1>6, <2>1, <3>2, <3>5, <3>6, <3>7, <3>8 DEF CleanOK, Busy, TokenOf, SessionOf, Saving
  <2>5. QED
    BY <2>3, <2>4
<1>10. QED
  BY <1>1, <1>3, <1>4, <1>8, <1>9, UsableStep

\* A new session has no other token and no other call.
LEMMA NewSessionUsable ==
  ASSUME IInv, IInv', UInv, Wears, Marks, NEW c \in Calls, NewSession(c)
  PROVE  UInv'
<1> DEFINE r == created + 1
           n == Len(issued) + 1
           u == call[c].uid
<1>1. /\ call[c].pc = "session" /\ created < MaxSessions /\ created' = r /\ Draw(c, r, u)
      /\ ToSave(c, r, call[c].lost, n)
      /\ UNCHANGED <<users, held, byToken, bySession, agedRefresh>>
  BY DEF NewSession, ToSave, refreshVars
<1>2. PICK ok \in Outcomes(pg) :
        Charge(ok) /\ sessions' = IF ok THEN [sessions EXCEPT ![r] = u] ELSE sessions
  BY DEF NewSession
<1>3. /\ created \in Nat /\ r \in Sessions /\ u \in Nat /\ u # 0 /\ Len(issued) \in Nat
      /\ call[c].op # "logout" /\ call[c].op # "refresh"
  <2>1. call[c] \in CallRecord /\ created \in Nat /\ Len(issued) \in Nat
    BY DEF IInv, Typed
  <2>2. u \in Nat /\ u # 0
    BY <1>1, <2>1 DEF UInv, OwnOK, CallRecord
  <2>3. call[c].op # "logout" /\ call[c].op # "refresh"
    BY <1>1 DEF IInv, CallOK, HandsOK
  <2>4. QED
    BY <1>1, <2>1, <2>2, <2>3, SessionAssumption DEF Sessions
<1>4. issued'[n].sid = r
  <2>1. r \in Nat /\ u \in Nat /\ Typed
    BY <1>3 DEF IInv
  <2>2. issued'[Len(issued) + 1] = [sid |-> r, uid |-> u]
    BY <1>1, <2>1, DrawWears
  <2>3. QED
    BY <2>2
<1>5. /\ \A d \in Calls \ {c} : call'[d] = call[d]
      /\ call'[c].pc = "save" /\ call'[c].sid = r /\ call'[c].new = n
      /\ call'[c].op = call[c].op
  BY <1>1, SaveFields DEF IInv
<1>6. OwnOK(call[c])'
  BY <1>3, <1>4, <1>5 DEF OwnOK, SessionOf
<1>7. \A t \in Tokens : SessionOf(t) \in 1..created /\ issued'[t] = issued[t]
  BY DEF Wears, IInv, Typed
<1>8. StoresOK'
  <2>1. \A s \in Sessions : bySession'[s] # 0 => issued'[bySession'[s]].sid = s
    BY <1>1, PointersKept
  <2>2. QED
    BY <1>1, <2>1 DEF StoresOK, UInv, SessionOf
<1>9. ASSUME NEW s \in 1..created', Clean(s)' PROVE CleanOK(s)'
  <2>1. Clean(s) /\ ok = TRUE
    BY <1>2, <1>9, CleanBefore
  <2>2. CASE s \in 1..created
    <3>1. CleanOK(s) /\ s # r /\ held \subseteq held'
      BY <1>1, <1>3, <2>1, <2>2 DEF UInv
    <3>2. StoresAlike(s)
      <4>1. sessions'[s] = sessions[s]
        BY <1>2, <1>3, <3>1 DEF IInv, Typed
      <4>2. agedRefresh <= agedRefresh'
        BY <1>1 DEF IInv, Typed
      <4>3. QED
        BY <1>1, <4>1, <4>2 DEF StoresAlike
    <3>3. CallAlike(c, s)
      BY <1>1, <1>3, <1>5, <3>1 DEF CallAlike, Saving, Holding
    <3>4. \A d \in Calls : CallAlike(d, s)
      BY <1>5, <3>3, OthersAlike
    <3>5. QED
      BY <2>2, <3>1, <3>2, <3>4, CleanFrame
  <2>3. CASE s = r
    <3>1. s \notin 1..created
      BY <1>3, <2>3
    <3>2. \A t \in held' \cup byToken' : issued'[t].sid # s
      <4>1. held' \cup byToken' \subseteq Tokens
        BY <1>1 DEF IInv, Typed
      <4>2. QED
        BY <1>7, <3>1, <4>1 DEF SessionOf
    <3>3. ASSUME NEW d \in Calls, d # c PROVE ~Busy(call[d], s)'
      <4>1. CallAlike(d, s)
        BY <1>5, <3>3, OthersAlike
      <4>2. ~Saving(call[d], s)
        BY <1>7, <3>1 DEF Saving, UInv, OwnOK, IInv, CallOK, HandsOK
      <4>3. ~Holding(call[d], s)
        BY <1>7, <3>1 DEF Holding, IInv, CallOK, HandsOK, Typed
      <4>4. QED
        BY <4>1, <4>2, <4>3 DEF Busy, CallAlike, Saving
    <3>4. ~Holding(call[c], s)'
      BY <1>5 DEF Holding
    <3>5. sessions'[s] # 0
      BY <1>2, <1>3, <2>1, <2>3 DEF IInv, Typed
    <3>6. \A d \in Calls : /\ Busy(call[d], s)' => d = c
                           /\ ~Holding(call[d], s)'
      BY <3>3, <3>4 DEF Busy
    <3>7. Saving(call'[c], s)
      BY <1>5, <2>3 DEF Saving
    <3>8. QED
      BY <3>2, <3>5, <3>6, <3>7 DEF CleanOK, TokenOf, SessionOf, Saving
  <2>4. QED
    BY <1>1, <1>3, <2>2, <2>3
<1>10. QED
  BY <1>5, <1>6, <1>8, <1>9, UsableStep

\* A Logout touches the sessions it has left, and no other.
LEMMA LogoutUsable ==
  ASSUME IInv, IInv', UInv, Wears, Marks, NEW c \in Calls,
         Logout(c) \/ LogoutRevoke(c) \/ LogoutSession(c)
  PROVE  UInv'
<1>1. UNCHANGED <<users, created, issued, held, byToken, bySession, agedRefresh>>
  BY DEF Logout, LogoutRevoke, LogoutSession, OnlyCall, storeVars, refreshVars
<1>2. CASE Logout(c)
  <2>0. PICK t \in held : \E ref \in {0, t} :
           LET valid == t > agedAccess
               next  == IF valid THEN "revoke" ELSE IF ref # 0 THEN "delete" ELSE "done"
           IN  /\ call' = [call EXCEPT ![c] =
                     [Idle EXCEPT !.op = "logout", !.pc = next, !.acc = t, !.ref = ref,
                                  !.sid = IF valid THEN SessionOf(t) ELSE 0, !.result = "ok"]]
               /\ left' = left \cup (IF valid THEN {SessionOf(t)} ELSE {})
                               \cup (IF ref # 0 THEN {SessionOf(ref)} ELSE {})
    BY <1>2 DEF Logout, Start
  <2>1. PICK ref \in {0, t} :
           LET valid == t > agedAccess
               next  == IF valid THEN "revoke" ELSE IF ref # 0 THEN "delete" ELSE "done"
           IN  /\ call' = [call EXCEPT ![c] =
                     [Idle EXCEPT !.op = "logout", !.pc = next, !.acc = t, !.ref = ref,
                                  !.sid = IF valid THEN SessionOf(t) ELSE 0, !.result = "ok"]]
               /\ left' = left \cup (IF valid THEN {SessionOf(t)} ELSE {})
                               \cup (IF ref # 0 THEN {SessionOf(ref)} ELSE {})
    BY <2>0
  <2> DEFINE sid  == IF t > agedAccess THEN SessionOf(t) ELSE 0
             next == IF t > agedAccess THEN "revoke" ELSE IF ref # 0 THEN "delete" ELSE "done"
  <2>2. /\ sid # 0 => sid \in left'
        /\ ref # 0 => SessionOf(ref) \in left'
        /\ next \in {"revoke", "delete", "done"}
    BY <2>1
  <2> HIDE DEF sid, next
  <2>3. /\ \A d \in Calls \ {c} : call'[d] = call[d]
        /\ call'[c].op = "logout" /\ call'[c].pc = next /\ call'[c].ref = ref
        /\ call'[c].sid = sid
    BY <2>1, IdleFacts DEF IInv, Typed, CallRecord, sid, next
  <2>4. call[c].pc = "done"
    BY <1>2 DEF Logout, Start
  <2>5. OwnOK(call[c])' /\ \A s : CallAlike(c, s)
    BY <1>1, <2>2, <2>3, <2>4 DEF OwnOK, CallAlike, Saving, Holding, SessionOf
  <2>6. sessions' = sessions
    BY <1>2 DEF Logout, OnlyCall, storeVars
  <2>7. QED
    BY <1>1, <2>3, <2>5, <2>6, PlainUsable DEF UInv
<1>3. CASE LogoutRevoke(c) \/ LogoutSession(c)
  <2>1. /\ call[c].op = "logout" /\ call[c].pc \in {"revoke", "drop"} /\ call[c].sid \in left
        /\ call[c].ref # 0 => call[c].ref \in Tokens /\ SessionOf(call[c].ref) \in left
    <3>1. call[c].op = "logout" /\ call[c].pc \in {"revoke", "drop"}
      BY <1>3 DEF LogoutRevoke, LogoutSession, At
    <3>2. QED
      BY <3>1 DEF IInv, CallOK, HandsOK, UInv, OwnOK, Typed
  <2>2. /\ \A d \in Calls \ {c} : call'[d] = call[d]
        /\ call'[c].op = "logout" /\ call'[c].pc \in {"drop", "tokens"}
        /\ call'[c].sid = call[c].sid /\ call'[c].ref = call[c].ref
    <3>1. CASE LogoutRevoke(c)
      BY <2>1, <3>1, MoveFields DEF LogoutRevoke, IInv, Steps
    <3>2. CASE LogoutSession(c)
      <4>1. PICK ok : call' = [call EXCEPT ![c].pc = "tokens", ![c].lost = ~ok]
        BY <3>2 DEF LogoutSession
      <4>2. call[c] \in CallRecord /\ call \in [Calls -> CallRecord]
        BY DEF IInv, Typed
      <4>3. /\ call'[c] = [call[c] EXCEPT !.pc = "tokens", !.lost = ~ok]
            /\ \A d \in Calls \ {c} : call'[d] = call[d]
        BY <4>1, <4>2
      <4>4. QED
        BY <2>1, <4>2, <4>3 DEF CallRecord
    <3>3. QED
      BY <1>3, <3>1, <3>2
  <2>3. OwnOK(call[c])'
    BY <1>1, <2>1, <2>2 DEF OwnOK, Marks, SessionOf
  <2>4. \A s \in 1..created : Clean(s) => StoresAlike(s) /\ CallAlike(c, s)
    <3>1. sessions' = sessions \/ \E x : sessions' = [sessions EXCEPT ![call[c].sid] = x]
      BY <1>3 DEF LogoutRevoke, LogoutSession, storeVars
    <3>2. \A s \in 1..created : s \in Sessions
      BY SessionAssumption DEF IInv, Typed, Sessions
    <3>3. ASSUME NEW s \in 1..created, Clean(s) PROVE sessions'[s] = sessions[s]
      BY <2>1, <3>1, <3>2, <3>3 DEF Clean, IInv, Typed
    <3>4. agedRefresh <= agedRefresh'
      BY <1>1 DEF IInv, Typed
    <3>5. QED
      BY <1>1, <2>1, <2>2, <3>3, <3>4 DEF StoresAlike, CallAlike, Saving, Holding
  <2>5. StoresOK' /\ created' = created /\ held \subseteq held'
    BY <1>1 DEF StoresOK, UInv, SessionOf
  <2>6. QED
    BY <2>2, <2>3, <2>4, <2>5, QuietStep
<1>4. QED
  BY <1>2, <1>3

\* A step that takes records of session r out of the store, when the call has
\* left r.
LEMMA DropsUsable ==
  ASSUME IInv, IInv', UInv, Wears, Marks, NEW c \in Calls,
         UNCHANGED <<users, sessions, created, issued, held, agedRefresh>>,
         byToken' \subseteq byToken, NEW r, \A t \in byToken \ byToken' : SessionOf(t) = r,
         \A s \in Sessions : bySession'[s] \in {0, bySession[s]},
         \A d \in Calls \ {c} : call'[d] = call[d], OwnOK(call[c])',
         \A s \in 1..created : CallAlike(c, s),
         byToken' # byToken => r \in left
  PROVE  UInv'
<1>1. StoresOK'
  <2>1. \A s \in Sessions : bySession'[s] # 0 => issued'[bySession'[s]].sid = s
    BY PointersKept
  <2>2. QED
    BY <2>1 DEF StoresOK, UInv, SessionOf
<1>2. ASSUME NEW s \in 1..created, Clean(s) PROVE StoresAlike(s)
  <2>1. \A t \in byToken : SessionOf(t) = s => t \in byToken'
    BY <1>2 DEF Clean
  <2>2. agedRefresh <= agedRefresh'
    BY DEF IInv, Typed
  <2>3. QED
    BY <2>1, <2>2 DEF StoresAlike, SessionOf
<1>3. created' = created /\ held \subseteq held'
  OBVIOUS
<1>4. QED
  BY <1>1, <1>2, <1>3, QuietStep

\* A Logout past its session's row.
LEMMA PartsUsable ==
  ASSUME IInv, IInv', UInv, Wears, Marks, NEW c \in Calls,
         call[c].op = "logout", call[c].pc \in Parting,
         UNCHANGED <<users, sessions, created, issued, held, agedRefresh>>,
         byToken' \subseteq byToken, NEW r, \A t \in byToken \ byToken' : SessionOf(t) = r,
         \A s \in Sessions : bySession'[s] \in {0, bySession[s]},
         byToken' # byToken => r \in left,
         \/ \E result : Return(c, result)
         \/ \E pc \in Deleting : Move(c, pc)
  PROVE  UInv'
<1>1. call[c].ref # 0 => call[c].ref \in Tokens /\ SessionOf(call[c].ref) \in left
  BY DEF IInv, CallOK, HandsOK, UInv, OwnOK, Typed, Parting, Deleting
<1>2. call[c].sid # 0 => call[c].sid \in left
  BY DEF UInv, OwnOK, Parting, Deleting
<1>3. /\ \A d \in Calls \ {c} : call'[d] = call[d]
      /\ call'[c].op \in {"none", "logout"} /\ call'[c].pc \in Deleting \cup {"done"}
      /\ call'[c].op = "logout" => call'[c].ref = call[c].ref /\ call'[c].sid = call[c].sid
  <2>1. CASE \E result : Return(c, result)
    BY <2>1, ReturnFields DEF IInv
  <2>2. CASE \E pc \in Deleting : Move(c, pc)
    BY <2>2, MoveFields DEF IInv, Steps, Parting
  <2>3. QED
    BY <2>1, <2>2
<1>4. OwnOK(call[c])'
  BY <1>1, <1>2, <1>3 DEF OwnOK, Marks, SessionOf, Deleting
<1>5. \A s : CallAlike(c, s)
  BY <1>3 DEF CallAlike, Saving, Holding, Parting, Deleting
<1>6. QED
  BY <1>3, <1>4, <1>5, DropsUsable

\* A Logout drops the tokens of its session.
LEMMA LogoutTokensUsable ==
  ASSUME IInv, IInv', UInv, Wears, Marks, NEW c \in Calls, LogoutTokens(c) \/ LogoutPipeline(c)
  PROVE  UInv'
<1> DEFINE r == call[c].sid
<1>1. /\ call[c].op = "logout" /\ call[c].pc \in {"tokens", "pipeline"} /\ call[c].pc \in Parting
      /\ UNCHANGED <<users, sessions, created, held, agedRefresh>>
  BY DEF LogoutTokens, LogoutPipeline, At, Parting
<1>2. /\ r \in left /\ r \in Sessions
      /\ call[c].pc = "pipeline" => SessionOf(call[c].new) = r
      /\ bySession[r] # 0 => SessionOf(bySession[r]) = r /\ bySession[r] \in Tokens
  <2>1. r # 0 /\ r \in 0..created
    BY <1>1 DEF IInv, CallOK, HandsOK
  <2>2. r \in Sessions
    <3>1. created \in Nat /\ created <= MaxSessions /\ MaxSessions \in Nat
      BY SessionAssumption DEF IInv, Typed
    <3> HIDE DEF r
    <3>2. QED
      BY <2>1, <3>1 DEF Sessions
  <2>3. QED
    BY <1>1, <2>1, <2>2 DEF UInv, OwnOK, IInv, Typed, Tokens
<1>3. /\ byToken' \subseteq byToken
      /\ \A t \in byToken \ byToken' : SessionOf(t) = r
      /\ \A s \in Sessions : bySession'[s] \in {0, bySession[s]}
  <2>1. 0 \notin byToken /\ bySession \in [Sessions -> 0..Len(issued)]
    BY DEF IInv, Typed, Tokens
  <2>2. CASE MemoryDeleteBySession(r)
    BY <1>2, <2>1, <2>2 DEF MemoryDeleteBySession
  <2>3. CASE UNCHANGED refreshVars
    BY <2>3 DEF refreshVars
  <2>4. CASE /\ call[c].pc = "pipeline" /\ byToken' = byToken \ {call[c].new}
             /\ bySession' = [bySession EXCEPT ![r] = 0]
    BY <1>2, <2>1, <2>4
  <2>5. QED
    BY <1>1, <2>2, <2>3, <2>4 DEF LogoutTokens, LogoutPipeline, At
<1>4. CASE LogoutGoesOn(c)
  <2>1. \/ \E result : Return(c, result)
        \/ \E pc \in Deleting : Move(c, pc)
    BY <1>4 DEF LogoutGoesOn, FinishLogout, Deleting
  <2>2. issued' = issued
    BY <1>4 DEF LogoutGoesOn, FinishLogout
  <2>3. QED
    BY <1>1, <1>2, <1>3, <2>1, <2>2, PartsUsable
<1>5. CASE /\ UNCHANGED refreshVars /\ UNCHANGED <<issued, ended, loggedOut>>
           /\ bySession[r] # 0
           /\ call' = [call EXCEPT ![c].pc = "pipeline", ![c].new = bySession[r]]
  <2>1. /\ \A d \in Calls \ {c} : call'[d] = call[d]
        /\ call'[c].op = "logout" /\ call'[c].pc = "pipeline" /\ call'[c].new = bySession[r]
        /\ call'[c].sid = r /\ call'[c].ref = call[c].ref
    <3> DEFINE x == bySession[r]
    <3>1. call[c] \in CallRecord /\ call \in [Calls -> CallRecord]
      BY DEF IInv, Typed
    <3>2. call' = [call EXCEPT ![c].pc = "pipeline", ![c].new = x]
      BY <1>5
    <3> HIDE DEF x
    <3>3. /\ call'[c] = [call[c] EXCEPT !.pc = "pipeline", !.new = x]
          /\ \A d \in Calls \ {c} : call'[d] = call[d]
      BY <3>1, <3>2
    <3>4. /\ call'[c].op = call[c].op /\ call'[c].pc = "pipeline" /\ call'[c].new = x
          /\ call'[c].sid = call[c].sid /\ call'[c].ref = call[c].ref
      BY <3>1, <3>3 DEF CallRecord
    <3>5. QED
      BY <1>1, <3>3, <3>4 DEF x
  <2>2. call[c].ref # 0 => SessionOf(call[c].ref) \in left
    BY <1>1 DEF UInv, OwnOK
  <2>3. OwnOK(call[c])'
    BY <1>2, <1>5, <2>1, <2>2 DEF OwnOK, Marks, SessionOf, Tokens
  <2>4. \A s : CallAlike(c, s)
    BY <1>1, <2>1 DEF CallAlike, Saving, Holding
  <2>5. UNCHANGED <<byToken, bySession>>
    BY <1>5 DEF refreshVars
  <2>6. QED
    BY <1>1, <1>5, <2>1, <2>3, <2>4, <2>5, PlainUsable DEF UInv
<1>6. QED
  BY <1>4, <1>5 DEF LogoutTokens, LogoutPipeline

\* A Refresh has deleted its record and draws the next pair: no record is left.
LEMMA DrawUsable ==
  ASSUME IInv, IInv', UInv, Wears, Marks, NEW c \in Calls, NEW ok,
         call[c].op = "refresh", call[c].pc \in Deleting, DrawNext(c, ok),
         UNCHANGED <<users, sessions, created, held, agedRefresh>>,
         byToken' \subseteq byToken, \A t \in byToken \ byToken' : t = call[c].ref,
         \A s \in Sessions : bySession'[s] \in {0, bySession[s]},
         \A s : Clean(s)' => call[c].ref \notin byToken'
  PROVE  UInv'
<1> DEFINE t == call[c].ref
           r == SessionOf(t)
           n == Len(issued) + 1
<1>1. /\ t \in held /\ t \in Tokens /\ issued \in Seq([sid : Nat, uid : Nat])
      /\ held \subseteq Tokens /\ byToken \subseteq Tokens /\ Len(issued) \in Nat
  BY DEF IInv, CallOK, HandsOK, Typed
<1>2. r \in Nat /\ issued[t].uid \in Nat
  <2> HIDE DEF t
  <2>1. issued[t] \in [sid : Nat, uid : Nat]
    BY <1>1, ElementOfSeq DEF Tokens
  <2>2. QED
    BY <2>1 DEF SessionOf
<1>3. issued'[n].sid = r
  <2>1. Draw(c, r, issued[t].uid) /\ Typed
    BY DEF DrawNext, IInv
  <2>2. issued'[Len(issued) + 1] = [sid |-> r, uid |-> issued[t].uid]
    BY <1>2, <2>1, DrawWears
  <2>3. QED
    BY <2>2
<1>4. /\ \A d \in Calls \ {c} : call'[d] = call[d]
      /\ call'[c].pc = "save" /\ call'[c].sid = r /\ call'[c].new = n
      /\ call'[c].op = "refresh" /\ call'[c].ref = t
  <2>1. ToSave(c, r, ~ok, n) /\ Typed
    BY DEF DrawNext, ToSave, IInv
  <2>2. QED
    BY <2>1, SaveFields
<1>5. issued'[t] = issued[t]
  BY <1>1 DEF Wears
<1>6. OwnOK(call[c])'
  BY <1>3, <1>4, <1>5 DEF OwnOK, SessionOf
<1>7. StoresOK'
  <2>1. \A s \in Sessions : bySession'[s] # 0 => issued'[bySession'[s]].sid = s
    BY PointersKept
  <2>2. QED
    BY <2>1 DEF StoresOK, UInv, SessionOf
<1>8. ASSUME NEW s \in 1..created', Clean(s)' PROVE CleanOK(s)'
  <2>1. s \in 1..created /\ Clean(s) /\ CleanOK(s) /\ t \notin byToken'
    BY <1>8, CleanBefore DEF UInv
  <2>2. agedRefresh <= agedRefresh'
    BY DEF IInv, Typed
  <2>3. CASE s # r
    <3>1. \A u \in byToken : issued[u].sid = s => u \in byToken'
      BY <2>3 DEF SessionOf
    <3>2. StoresAlike(s) /\ held \subseteq held'
      BY <2>2, <3>1 DEF StoresAlike
    <3>3. CallAlike(c, s)
      BY <1>4, <2>3 DEF CallAlike, Saving, Holding, Deleting
    <3>4. \A d \in Calls : CallAlike(d, s)
      BY <1>4, <3>3, OthersAlike
    <3>5. QED
      BY <2>1, <3>2, <3>4, CleanFrame
  <2>4. CASE s = r
    <3>1. Holding(call[c], s)
      BY <2>4 DEF Holding, Deleting
    <3>2. ASSUME NEW d \in Calls, d # c PROVE ~Busy(call[d], s)'
      <4>1. ~Busy(call[d], s) /\ CallAlike(d, s)
        BY <1>4, <2>1, <3>1, <3>2, OthersAlike DEF CleanOK, Busy
      <4>2. QED
        BY <4>1 DEF Busy, CallAlike, Saving
    <3>3. ~Holding(call[c], s)'
      BY <1>4 DEF Holding
    <3>4. \A u \in held \cup byToken : u \in Nat /\ u < n /\ issued'[u] = issued[u]
      BY <1>1 DEF Wears, Tokens
    <3>5. ASSUME NEW u \in byToken', issued'[u].sid = s PROVE FALSE
      <4>1. u \in byToken /\ u \in held /\ issued[u].sid = s /\ issued[t].sid = s
        BY <2>4, <3>4, <3>5 DEF UInv, SessionOf
      <4>2. u <= t /\ t <= u
        BY <1>1, <2>1, <3>1, <4>1 DEF CleanOK, TokenOf, SessionOf
      <4>3. QED
        BY <1>1, <2>1, <3>4, <4>1, <4>2
    <3>6. Saving(call'[c], s) /\ sessions'[s] # 0
      BY <1>4, <2>1, <2>4 DEF Saving, CleanOK
    <3>7. \A d \in Calls : /\ Busy(call[d], s)' => d = c
                           /\ ~Holding(call[d], s)'
      BY <3>2, <3>3 DEF Busy
    <3>8. \A d \in Calls : Saving(call'[d], s) => call'[d].new = n
      BY <1>4, <3>7 DEF Busy, Saving
    <3>9. \A u \in held' : u < n
      BY <3>4
    <3>10. QED
      BY <3>5, <3>6, <3>7, <3>8, <3>9 DEF CleanOK, TokenOf, SessionOf, Saving
  <2>5. QED
    BY <2>3, <2>4
<1>9. QED
  BY <1>4, <1>6, <1>7, <1>8, UsableStep

\* Delete.
LEMMA DeleteUsable ==
  ASSUME IInv, IInv', UInv, Wears, Marks, NEW c \in Calls, Delete(c)
  PROVE  UInv'
<1> DEFINE t == call[c].ref
<1>1. UNCHANGED <<users, sessions, created, held, agedRefresh>>
  BY DEF Delete
<1>2. call[c].pc \in Deleting /\ call[c].op \in {"refresh", "logout"} /\ t \in Tokens /\ t \in held
  <2>1. call[c].pc \in Deleting
    BY DEF Delete, RedisDelete, Deleting
  <2>2. QED
    BY <2>1 DEF IInv, CallOK, HandsOK, Typed
<1>3. /\ byToken' \subseteq byToken
      /\ \A u \in byToken \ byToken' : u = t
      /\ \A s \in Sessions : bySession'[s] \in {0, bySession[s]}
  <2>1. bySession \in [Sessions -> 0..Len(issued)]
    BY DEF IInv, Typed
  <2>2. CASE MemoryDelete(t)
    BY <2>1, <2>2 DEF MemoryDelete
  <2>3. CASE RedisDelete(c)
    <3>1. byToken' = byToken \/ byToken' = byToken \ {t}
      BY <2>3, Flags DEF RedisDelete, refreshVars
    <3>2. bySession' = bySession \/ bySession' = [bySession EXCEPT ![SessionOf(t)] = 0]
      BY <2>3, Flags DEF RedisDelete, refreshVars
    <3>3. QED
      BY <2>1, <3>1, <3>2
  <2>4. QED
    BY <2>2, <2>3 DEF Delete
<1>4. CASE call[c].op = "logout"
  <2>1. call[c].pc \in Parting /\ SessionOf(t) \in left /\ t # 0
    BY <1>2, <1>4 DEF UInv, OwnOK, Parting, Deleting, Tokens
  <2>2. /\ \/ \E result : Return(c, result)
           \/ \E pc \in Deleting : Move(c, pc)
        /\ issued' = issued
    BY <1>4 DEF Delete, RedisDelete, Deleted, FinishLogout, Later, Deleting
  <2>3. \A u \in byToken \ byToken' : SessionOf(u) = SessionOf(t)
    BY <1>3
  <2>4. QED
    BY <1>1, <1>3, <1>4, <2>1, <2>2, <2>3, PartsUsable
<1>5. CASE call[c].op = "refresh"
  <2>1. CASE /\ \E pc \in Deleting : Move(c, pc)
             /\ byToken' = byToken /\ issued' = issued
    <3>1. /\ \A d \in Calls \ {c} : call'[d] = call[d]
          /\ call'[c].op = "refresh" /\ call'[c].pc \in Deleting /\ call'[c].ref = t
      BY <1>5, <2>1, MoveFields DEF IInv, Steps, Parting
    <3>2. OwnOK(call[c])' /\ \A s : CallAlike(c, s)
      BY <1>2, <1>5, <2>1, <3>1 DEF OwnOK, CallAlike, Saving, Holding, Deleting, SessionOf
    <3>3. QED
      BY <1>1, <1>3, <2>1, <3>1, <3>2, DropsUsable
  <2>2. ASSUME NEW ok \in BOOLEAN, Deleted(c, ok), ok => t \notin byToken',
               ok \/ \E o \in Outcomes(redis) : Charge(o) /\ o = ok
        PROVE  UInv'
    <3>1. DrawNext(c, ok)
      BY <1>5, <2>2 DEF Deleted
    <3>2. \A s : Clean(s)' => t \notin byToken'
      BY <2>2, CleanBefore
    <3>3. QED
      BY <1>1, <1>2, <1>3, <1>5, <3>1, <3>2, DrawUsable
  <2>3. CASE ~redis
    <3>1. MemoryDelete(t) /\ Deleted(c, TRUE)
      BY <2>3 DEF Delete
    <3>2. t \notin byToken'
      BY <3>1 DEF MemoryDelete
    <3>3. QED
      BY <2>2, <3>1, <3>2
  <2>4. CASE redis
    <3>1. PICK ok \in Outcomes(redis) :
            /\ Charge(ok)
            /\ \/ /\ call[c].pc = "delete" /\ UNCHANGED refreshVars /\ Later
                  /\ Move(c, IF ok /\ t \in byToken THEN "deletePointer" ELSE "deleteKey")
               \/ /\ call[c].pc = "deletePointer" /\ UNCHANGED byToken /\ Later
                  /\ bySession' = IF ok THEN [bySession EXCEPT ![SessionOf(t)] = 0] ELSE bySession
                  /\ Move(c, "deleteKey")
               \/ /\ call[c].pc = "deleteKey" /\ UNCHANGED bySession
                  /\ byToken' = IF ok THEN byToken \ {t} ELSE byToken
                  /\ Deleted(c, ok)
      BY <2>4 DEF Delete, RedisDelete
    <3>2. ok \in BOOLEAN
      BY Flags
    <3>3. CASE Deleted(c, ok) /\ byToken' = IF ok THEN byToken \ {t} ELSE byToken
      BY <2>2, <3>1, <3>2, <3>3
    <3>4. QED
      BY <2>1, <3>1, <3>3 DEF Later, Deleting, refreshVars
  <2>5. QED
    BY <2>3, <2>4
<1>6. QED
  BY <1>2, <1>4, <1>5

\* Time.
LEMMA TimeUsable ==
  ASSUME IInv, IInv', UInv, Wears, Marks, AccessExpires \/ RefreshExpires
  PROVE  UInv'
<1>1. UNCHANGED <<users, sessions, created, issued, held, call, raced, left, faults>>
  BY DEF AccessExpires, RefreshExpires, histVars
<1>2. /\ byToken' \subseteq byToken /\ agedRefresh <= agedRefresh'
      /\ \A t \in byToken \ byToken' : t = agedRefresh'
      /\ \A s \in Sessions : bySession'[s] \in {0, bySession[s]}
  <2>1. agedRefresh \in Nat
    BY DEF IInv, Typed
  <2>2. CASE AccessExpires
    BY <2>1, <2>2 DEF AccessExpires, refreshVars
  <2>3. CASE RefreshExpires
    BY <2>1, <2>3 DEF RefreshExpires, refreshVars
  <2>4. QED
    BY <2>2, <2>3
<1>3. StoresOK'
  <2>1. \A s \in Sessions : bySession'[s] # 0 => issued'[bySession'[s]].sid = s
    BY <1>2, PointersKept
  <2>2. QED
    BY <1>1, <1>2, <2>1 DEF StoresOK, UInv, SessionOf
<1>4. \A d \in Calls : OwnOK(call[d])'
  BY <1>1, OwnFrame
<1>5. ASSUME NEW s \in 1..created, Clean(s) PROVE CleanOK(s)'
  <2>1. CleanOK(s) /\ \A d \in Calls : CallAlike(d, s)
    BY <1>1, <1>5, OthersAlike DEF UInv
  <2>2. StoresAlike(s) /\ held \subseteq held'
    <3>1. \A t \in byToken : t > agedRefresh' => t \in byToken'
      BY <1>2 DEF IInv, Typed
    <3>2. QED
      BY <1>1, <1>2, <3>1 DEF StoresAlike
  <2>3. QED
    BY <2>1, <2>2, CleanFrame
<1>6. QED
  BY <1>1, <1>3, <1>4, <1>5 DEF UInv, StoresOK, Clean

\* Together.
LEMMA UsableInvariance == Spec => []UInv
<1>1. Init => UInv
  <2> SUFFICES ASSUME Init PROVE UInv
    OBVIOUS
  <2>1. \A c \in Calls : call[c] = Idle
    BY DEF Init
  <2>2. OwnOK(Idle)
    BY IdleFacts DEF OwnOK
  <2>3. \A s \in Sessions : bySession[s] = 0
    BY DEF Init
  <2>4. QED
    BY <2>1, <2>2, <2>3, SessionAssumption DEF Init, UInv
<1>2. IInv /\ IInv' /\ UInv /\ [Next]_vars => UInv'
  <2> SUFFICES ASSUME IInv, IInv', UInv, [Next]_vars PROVE UInv'
    OBVIOUS
  <2>1. CASE Next
    <3>1. Wears /\ Marks
      BY <2>1, StepWears, StepMarks DEF UInv
    <3>2. ASSUME NEW c \in Calls, RegisterStep(c) \/ LoginStep(c) \/ ValidateStep(c) PROVE UInv'
      BY <3>1, <3>2, EnterUsable, ValidateUsable
    <3>3. ASSUME NEW c \in Calls, RefreshStep(c) PROVE UInv'
      BY <3>1, <3>3, RecordUsable, RefreshUsable DEF RefreshStep
    <3>4. ASSUME NEW c \in Calls, LogoutStep(c) PROVE UInv'
      BY <3>1, <3>4, LogoutUsable, LogoutTokensUsable DEF LogoutStep
    <3>5. ASSUME NEW c \in Calls, NewSession(c) \/ Issue(c) \/ Delete(c) PROVE UInv'
      BY <3>1, <3>5, NewSessionUsable, IssueUsable, DeleteUsable
    <3>6. CASE AccessExpires \/ RefreshExpires
      BY <3>1, <3>6, TimeUsable
    <3>7. QED
      BY <2>1, <3>2, <3>3, <3>4, <3>5, <3>6 DEF Next
  <2>2. CASE UNCHANGED vars
    BY <2>2 DEF vars, storeVars, refreshVars, histVars, UInv, OwnOK, Clean, CleanOK, Busy, Saving,
                Holding, TokenOf, LastReturned, Tokens, SessionOf
  <2>3. QED
    BY <2>1, <2>2
<1>3. QED
  BY <1>1, <1>2, Invariance, PTL DEF Spec

-----------------------------------------------------------------------------
(* The results.                                                             *)

\* A session that a returned Logout took out of the store authenticates no call
\* that starts later, whatever overlapped the Logout (auth.go, Logout, Refresh,
\* ValidateToken).
THEOREM LogoutIsFinal == Spec => []LogoutFinal
<1>1. IInv => LogoutFinal
  BY DEF IInv, CallOK, StaleOK, LogoutFinal, Succeeded
<1>2. QED
  BY <1>1, Invariance, PTL

\* A refresh token is not taken again once a Refresh that deleted it has
\* returned (auth.go, Refresh; refresh_store.go, Delete).
THEOREM TokenSpentOnce == Spec => []SpentOnce
<1>1. IInv => SpentOnce
  BY DEF IInv, CallOK, StaleOK, SpentOnce, Succeeded
<1>2. QED
  BY <1>1, Invariance, PTL

\* The two maps of the memory store describe one relation between sessions and
\* their current tokens (refresh_store.go, memoryRefreshStore).
THEOREM MemoryStoreIsExact == Spec => []MemoryStoreExact
<1>1. IInv => MemoryStoreExact
  BY DEF IInv
<1>2. QED
  BY <1>1, Invariance, PTL

\* With at most one failing store command the access token a Logout was called
\* with is refused by every later call, unless it expires meanwhile: the
\* session's row and the blacklist back each other up (auth.go, Logout,
\* ValidateToken).
THEOREM LoggedOutIsRefused == ASSUME MaxFaults <= 1 PROVE Spec => []LoggedOutRefused
<1>1. RInv => LoggedOutRefused
  BY DEF RInv, LateOK, LoggedOutRefused, Succeeded
<1>2. QED
  BY <1>1, RefusedInvariance, PTL

\* The refresh token last returned for a session that nobody logs out of, that
\* is refreshed one call at a time and meets no failing command is good until it
\* expires or is spent (auth.go, Refresh, issueTokenPair; refresh_store.go).
THEOREM LatestIsUsable == Spec => []LatestUsable
<1>1. UInv => LatestUsable
  BY DEF UInv, LatestUsable, InUse, Clean, CleanOK, Saving
<1>2. QED
  BY <1>1, UsableInvariance, PTL

=============================================================================

----------------------------- MODULE AuthSession -----------------------------
(***************************************************************************)
(* Users, sessions and tokens (auth/auth.go, jwt.go, refresh_store.go,      *)
(* blacklist.go, postgres_store.go) behind the handlers of                  *)
(* api/auth_handler.go and auth_middleware.go: concurrent calls, each a     *)
(* sequence of store commands that interleave with those of other calls.    *)
(*                                                                          *)
(* Token n stands for the n-th pair issued: its access token and its        *)
(* refresh token.  Init picks the stores the server starts with: Postgres   *)
(* or memory for users and sessions, Redis or memory for refresh tokens     *)
(* and the blacklist.  At most MaxFaults commands of Postgres or Redis fail.*)
(* Names, passwords, roles' texts, LastActiveAt and the map-claims path for *)
(* tokens this service does not issue are left out.                         *)
(***************************************************************************)
EXTENDS Integers, Sequences, FiniteSets

CONSTANTS
  Calls,        \* concurrent HTTP calls
  Names,        \* user names and, one each, e-mail addresses
  Emails,
  Admins,       \* the names resolveRole makes administrators
  MaxUsers,     \* bound: users created
  MaxSessions,  \* bound: sessions created
  MaxFaults,    \* bound: failing store commands
  Budget        \* bound: pairs issued, expiries and failures together

ASSUME SessionAssumption ==
  MaxUsers \in Nat /\ MaxSessions \in Nat /\ MaxFaults \in Nat /\ Budget \in Nat

VARIABLES
  pg, redis,    \* which stores initAuthService and NewRefreshStore chose
  users,        \* userStore: the set of users
  sessions,     \* sessionStore: session |-> user
  created,      \* sessions created so far: a session id is never reused
  issued,       \* issued[n]: session and user of token n
  held,         \* tokens a call has returned to a client
  agedAccess,   \* access tokens up to this one have expired
  agedRefresh,  \* refresh tokens up to this one have expired
  byToken,      \* refreshStore: tokens that have a record
  bySession,    \* refreshStore: session |-> its current token
  blacklist,    \* access tokens revoked
  call,         \* call[c]: where a call is
  faults,       \* failing commands left
  ended,        \* history: sessions a returned Logout deleted
  loggedOut,    \* history: access tokens a Logout was called with, returned
  consumed,     \* history: refresh tokens a returned Refresh deleted
  raced,        \* history: sessions two Refreshes held a token of at once
  left          \* history: sessions a Logout has begun to leave

storeVars == <<users, sessions, created, issued, agedAccess, agedRefresh>>
refreshVars == <<byToken, bySession>>
histVars == <<ended, loggedOut, consumed, raced, left>>
vars == <<pg, redis, storeVars, refreshVars, held, blacklist, call, faults, histVars>>

Tokens   == 1..Len(issued)
Sessions == 1..MaxSessions
Idle == [op |-> "none", pc |-> "done", acc |-> 0, ref |-> 0, sid |-> 0, uid |-> 0,
         name |-> "", email |-> "", stale |-> {}, lost |-> FALSE, new |-> 0, result |-> "none"]

\* initAuthService: Postgres when there is a connection and its tables.
StoresChosen == pg \in BOOLEAN /\ redis \in BOOLEAN

Init ==
  /\ StoresChosen
  /\ users = {} /\ sessions = [s \in Sessions |-> 0] /\ created = 0 /\ issued = <<>>
  /\ held = {} /\ agedAccess = 0 /\ agedRefresh = 0
  /\ byToken = {} /\ bySession = [s \in Sessions |-> 0] /\ blacklist = {}
  /\ call = [c \in Calls |-> Idle] /\ faults = MaxFaults
  /\ ended = {} /\ loggedOut = {} /\ consumed = {} /\ raced = {} /\ left = {}

At(c, op, pc) == call[c].op = op /\ call[c].pc = pc
\* A command of an external store may fail; one of a memory store does not.
Spent == Len(issued) + agedAccess + agedRefresh + (MaxFaults - faults)
Outcomes(external) == IF external /\ faults > 0 /\ Spent < Budget THEN BOOLEAN ELSE {TRUE}
Charge(ok) == faults' = IF ok THEN faults ELSE faults - 1
Move(c, pc) == call' = [call EXCEPT ![c].pc = pc]

\* A call returns: its handler answers with the pair, or with the error.
Return(c, result) ==
  call' = [call EXCEPT ![c] = [Idle EXCEPT
            !.acc = call[c].acc, !.stale = call[c].stale, !.result = result]]

-----------------------------------------------------------------------------
(* Looking up users and sessions.                                           *)

\* A query of Postgres that fails reads as "no such row".
Found(S, ok) == IF ok THEN S ELSE {}
UserById(id, ok)       == Found({u \in users : u.id = id}, ok)
UserByName(name, ok)   == Found({u \in users : u.name = name}, ok)
UserByEmail(email, ok) == Found({u \in users : u.email = email}, ok)
SessionKnown(s, ok)    == ok /\ sessions[s] # 0

\* The unique columns of the Postgres table; the memory map has only its key.
Violates(user) ==
  pg /\ \E u \in users : u.id # user.id /\ (u.name = user.name \/ u.email = user.email)

-----------------------------------------------------------------------------
(* The refresh store.                                                       *)

SessionOf(t) == issued[t].sid
\* Redis drops an expired record, memory keeps it and Get refuses it.
RefreshGet(t, ok) == ok /\ t \in byToken /\ t > agedRefresh

\* Mutants: the previous record stays; the new pointer is set before the old
\* record is dropped.
MutSaveKeepsOld(t) ==
  byToken' = byToken \cup {t} /\ bySession' = [bySession EXCEPT ![SessionOf(t)] = t]
MutSaveDropsNew(t) ==
  byToken' = byToken \ {t} /\ bySession' = [bySession EXCEPT ![SessionOf(t)] = t]
\* One critical section: the session's previous token goes.
MemorySave(t) ==
  LET s == SessionOf(t)
  IN  /\ byToken' = (byToken \ {bySession[s]}) \cup {t}
      /\ bySession' = [bySession EXCEPT ![s] = t]
\* One pipeline: the previous token stays until its time is up.
RedisSave(t) ==
  /\ byToken' = byToken \cup {t}
  /\ bySession' = [bySession EXCEPT ![SessionOf(t)] = t]
Save(t) == IF redis THEN RedisSave(t) ELSE MemorySave(t)

\* Mutant: only the pointer goes.
MutDeletePointer(t) ==
  /\ byToken' = byToken
  /\ bySession' = IF t \in byToken
                  THEN [bySession EXCEPT ![SessionOf(t)] = 0] ELSE bySession
\* One critical section.
MemoryDelete(t) ==
  /\ byToken' = byToken \ {t}
  /\ bySession' = IF t \in byToken
                  THEN [bySession EXCEPT ![SessionOf(t)] = 0] ELSE bySession
MemoryDeleteBySession(s) ==
  /\ byToken' = byToken \ {bySession[s]}
  /\ bySession' = [bySession EXCEPT ![s] = 0]

-----------------------------------------------------------------------------
(* Issuing a pair.                                                          *)

\* issueTokenPair draws the pair and its expiry times, then saves the record.
Draw(c, s, u) ==
  /\ Spent < Budget
  /\ issued' = Append(issued, [sid |-> s, uid |-> u])
\* Mutant: Refresh stores its session again, to keep LastActiveAt.
MutIssueStoresSession(c) ==
  /\ call[c].pc = "save" /\ Save(call[c].new) /\ Return(c, "ok")
  /\ held' = held \cup {call[c].new}
  /\ sessions' = [sessions EXCEPT ![call[c].sid] = issued[call[c].new].uid]
  /\ UNCHANGED <<pg, redis, users, created, issued, agedAccess, agedRefresh, blacklist,
                 faults, histVars>>
Issue(c) ==
  /\ call[c].pc = "save"
  /\ \E ok \in Outcomes(redis) :
       /\ Charge(ok)
       /\ IF ok THEN Save(call[c].new) ELSE UNCHANGED refreshVars
       /\ Return(c, IF ok THEN "ok" ELSE "error")
       /\ held' = IF ok THEN held \cup {call[c].new} ELSE held
       /\ consumed' = IF ok /\ call[c].op = "refresh" /\ ~call[c].lost
                      THEN consumed \cup {call[c].ref} ELSE consumed
  /\ UNCHANGED <<pg, redis, storeVars, blacklist, ended, loggedOut, raced, left>>

\* Register and Login put a new session under a fresh id; an error of the
\* Postgres insert is dropped, and the pair is issued all the same.
NewSession(c) ==
  /\ call[c].pc = "session" /\ created < MaxSessions
  /\ LET s == created + 1 IN
       /\ created' = s /\ Draw(c, s, call[c].uid)
       /\ \E ok \in Outcomes(pg) :
            /\ Charge(ok)
            /\ sessions' = IF ok THEN [sessions EXCEPT ![s] = call[c].uid] ELSE sessions
       /\ call' = [call EXCEPT ![c].pc = "save", ![c].sid = s, ![c].new = Len(issued) + 1]
  /\ UNCHANGED <<pg, redis, users, agedAccess, agedRefresh, refreshVars, held, blacklist,
                 histVars>>

-----------------------------------------------------------------------------
(* Register and Login.                                                      *)

Start(c, begun) == call[c].pc = "done" /\ call' = [call EXCEPT ![c] = begun]
OnlyCall == UNCHANGED <<pg, redis, storeVars, refreshVars, held, blacklist>>

\* The handler of api/auth_handler.go has checked the fields.
Register(c) ==
  /\ Cardinality(users) < MaxUsers
  /\ \E n \in Names, e \in Emails :
       Start(c, [Idle EXCEPT !.op = "register", !.pc = "name", !.name = n, !.email = e])
  /\ OnlyCall /\ UNCHANGED <<faults, histVars>>
RegisterName(c) ==
  /\ At(c, "register", "name")
  /\ \E ok \in Outcomes(pg) :
       /\ Charge(ok)
       /\ IF UserByName(call[c].name, ok) # {} THEN Return(c, "error") ELSE Move(c, "email")
  /\ OnlyCall /\ UNCHANGED histVars
RegisterEmail(c) ==
  /\ At(c, "register", "email")
  /\ \E ok \in Outcomes(pg) :
       /\ Charge(ok)
       /\ IF UserByEmail(call[c].email, ok) # {} THEN Return(c, "error") ELSE Move(c, "user")
  /\ OnlyCall /\ UNCHANGED histVars

\* userStore.Set: the new user's id is its own.
SetUser(user) == users' = users \cup {user}

Role(name) == IF name \in Admins THEN "admin" ELSE "user"
RegisterUser(c) ==
  /\ At(c, "register", "user")
  /\ LET user == [id |-> Cardinality(users) + 1, name |-> call[c].name,
                  email |-> call[c].email, role |-> Role(call[c].name)]
     IN  \E ok \in Outcomes(pg) :
           /\ Charge(ok)
           /\ IF ~ok \/ Violates(user)
              THEN Return(c, "error") /\ UNCHANGED users
              ELSE /\ Cardinality(users) < MaxUsers
                   /\ SetUser(user)
                   /\ call' = [call EXCEPT ![c].pc = "session", ![c].uid = user.id]
  /\ UNCHANGED <<pg, redis, sessions, created, issued, agedAccess, agedRefresh, refreshVars,
                 held, blacklist, histVars>>

\* Two users of one name, which the memory map admits, make the lookup choose
\* by the map's order.  The password check decides.
Login(c) ==
  /\ created < MaxSessions
  /\ \E n \in Names : Start(c, [Idle EXCEPT !.op = "login", !.pc = "name", !.name = n])
  /\ OnlyCall /\ UNCHANGED <<faults, histVars>>
\* Mutant: a user that is not there logs in.
MutLoginUnknown(c) ==
  /\ At(c, "login", "name") /\ Move(c, "session")
  /\ OnlyCall /\ UNCHANGED <<faults, histVars>>
LoginUser(c) ==
  /\ At(c, "login", "name")
  /\ \E ok \in Outcomes(pg) :
       /\ Charge(ok)
       /\ \/ Return(c, "error")
          \/ \E u \in UserByName(call[c].name, ok) :
               call' = [call EXCEPT ![c].pc = "session", ![c].uid = u.id]
  /\ OnlyCall /\ UNCHANGED histVars

-----------------------------------------------------------------------------
(* Refresh.                                                                 *)

\* What was already over when a call starts, for the properties.
Stale(access, t) ==
     (IF SessionOf(t) \in ended THEN {"ended"} ELSE {})
  \cup (IF access /\ t \in loggedOut THEN {"loggedOut"} ELSE {})
  \cup (IF ~access /\ t \in consumed THEN {"consumed"} ELSE {})

Refresh(c) ==
  /\ \E t \in held : Start(c, [Idle EXCEPT !.op = "refresh", !.pc = "get", !.ref = t,
                                           !.stale = Stale(FALSE, t)])
  /\ OnlyCall /\ UNCHANGED <<faults, histVars>>
\* A Refresh of the same session has its record and has not saved yet.
Rival(c, s) ==
  \E d \in Calls \ {c} : /\ call[d].op = "refresh" /\ call[d].pc \notin {"get", "done"}
                         /\ SessionOf(call[d].ref) = s
RefreshRecord(c) ==
  /\ At(c, "refresh", "get")
  /\ \E ok \in Outcomes(redis) :
       LET t == call[c].ref IN
         /\ Charge(ok)
         /\ IF RefreshGet(t, ok)
            THEN /\ Move(c, "user")
                 /\ raced' = IF Rival(c, SessionOf(t)) THEN raced \cup {SessionOf(t)} ELSE raced
            ELSE Return(c, "error") /\ UNCHANGED raced
  /\ OnlyCall /\ UNCHANGED <<ended, loggedOut, consumed, left>>
RefreshUser(c) ==
  /\ At(c, "refresh", "user")
  /\ \E ok \in Outcomes(pg) :
       /\ Charge(ok)
       /\ IF UserById(issued[call[c].ref].uid, ok) # {}
          THEN Move(c, "known") ELSE Return(c, "error")
  /\ OnlyCall /\ UNCHANGED histVars
RefreshSession(c) ==
  /\ At(c, "refresh", "known")
  /\ \E ok \in Outcomes(pg) :
       /\ Charge(ok)
       /\ IF SessionKnown(SessionOf(call[c].ref), ok)
          THEN Move(c, "delete") ELSE Return(c, "error")
  /\ OnlyCall /\ UNCHANGED histVars


\* The new pair is drawn when Delete is done, whose error is dropped.
DrawNext(c, ok) ==
  LET t == call[c].ref IN
    /\ Draw(c, SessionOf(t), issued[t].uid)
    /\ call' = [call EXCEPT ![c].pc = "save", ![c].sid = SessionOf(t), ![c].lost = ~ok,
                            ![c].new = Len(issued) + 1]
    /\ UNCHANGED <<ended, loggedOut>>

-----------------------------------------------------------------------------
(* Logout.                                                                  *)

FinishLogout(c) ==
  /\ Return(c, "ok")
  /\ ended' = IF call[c].sid # 0 /\ ~call[c].lost THEN ended \cup {call[c].sid} ELSE ended
  /\ loggedOut' = IF call[c].sid # 0 THEN loggedOut \cup {call[c].acc} ELSE loggedOut
  /\ UNCHANGED issued

\* The client sends its access token, and its refresh token or none (0).  An
\* access token that has expired does not parse: its session stays.
Logout(c) ==
  /\ \E t \in held : \E r \in {0, t} :
       LET valid == t > agedAccess
           next  == IF valid THEN "revoke" ELSE IF r # 0 THEN "delete" ELSE "done"
       IN  Start(c, [Idle EXCEPT !.op = "logout", !.pc = next, !.acc = t, !.ref = r,
                                 !.sid = IF valid THEN SessionOf(t) ELSE 0, !.result = "ok"])
           /\ left' = left \cup (IF valid THEN {SessionOf(t)} ELSE {})
                           \cup (IF r # 0 THEN {SessionOf(r)} ELSE {})
  /\ OnlyCall /\ UNCHANGED <<faults, ended, loggedOut, consumed, raced>>
\* Mutant: the test of ttl is turned round.
MutRevokeExpired(t, ok) ==
  blacklist' = IF ok /\ t <= agedAccess THEN blacklist \cup {t} ELSE blacklist
\* The entry lives as long as the token; errors are dropped.
Revoke(t, ok) == blacklist' = IF ok /\ t > agedAccess THEN blacklist \cup {t} ELSE blacklist
LogoutRevoke(c) ==
  /\ At(c, "logout", "revoke")
  /\ \E ok \in Outcomes(redis) : Charge(ok) /\ Revoke(call[c].acc, ok)
  /\ Move(c, "drop")
  /\ UNCHANGED <<pg, redis, storeVars, refreshVars, held, histVars>>
LogoutSession(c) ==
  /\ At(c, "logout", "drop")
  /\ \E ok \in Outcomes(pg) :
       /\ Charge(ok)
       /\ sessions' = IF ok THEN [sessions EXCEPT ![call[c].sid] = 0] ELSE sessions
       /\ call' = [call EXCEPT ![c].pc = "tokens", ![c].lost = ~ok]
  /\ UNCHANGED <<pg, redis, users, created, issued, agedAccess, agedRefresh, refreshVars,
                 held, blacklist, histVars>>
LogoutGoesOn(c) ==
  IF call[c].ref # 0 THEN Move(c, "delete") /\ UNCHANGED <<issued, ended, loggedOut>>
                     ELSE FinishLogout(c)
\* Redis: read the session's pointer, then drop the record it named and the
\* pointer in one pipeline; memory: one critical section.
LogoutTokens(c) ==
  /\ At(c, "logout", "tokens")
  /\ \/ /\ ~redis /\ MemoryDeleteBySession(call[c].sid) /\ LogoutGoesOn(c)
        /\ UNCHANGED faults
     \/ /\ redis /\ UNCHANGED refreshVars
        /\ \E ok \in Outcomes(redis) :
             /\ Charge(ok)
             /\ IF ok /\ bySession[call[c].sid] # 0
                THEN /\ call' = [call EXCEPT ![c].pc = "pipeline",
                                             ![c].new = bySession[call[c].sid]]
                     /\ UNCHANGED <<issued, ended, loggedOut>>
                ELSE LogoutGoesOn(c)
  /\ UNCHANGED <<pg, redis, users, sessions, created, agedAccess, agedRefresh, held,
                 blacklist, consumed, raced, left>>
LogoutPipeline(c) ==
  /\ redis /\ At(c, "logout", "pipeline")
  /\ \E ok \in Outcomes(redis) :
       /\ Charge(ok)
       /\ IF ok THEN /\ byToken' = byToken \ {call[c].new}
                     /\ bySession' = [bySession EXCEPT ![call[c].sid] = 0]
                ELSE UNCHANGED refreshVars
  /\ LogoutGoesOn(c)
  /\ UNCHANGED <<pg, redis, users, sessions, created, agedAccess, agedRefresh, held,
                 blacklist, consumed, raced, left>>

-----------------------------------------------------------------------------
(* refreshStore.Delete, of Refresh and of Logout.                           *)

Deleted(c, ok) == IF call[c].op = "refresh" THEN DrawNext(c, ok) ELSE FinishLogout(c)
Later == UNCHANGED <<issued, ended, loggedOut>>
\* Redis, three commands: read the record; drop the session's pointer, whatever
\* it points to by then; drop the record.
RedisDelete(c) ==
  LET t == call[c].ref IN
    \E ok \in Outcomes(redis) :
      /\ Charge(ok)
      /\ \/ /\ call[c].pc = "delete" /\ UNCHANGED refreshVars /\ Later
            /\ Move(c, IF ok /\ t \in byToken THEN "deletePointer" ELSE "deleteKey")
         \/ /\ call[c].pc = "deletePointer" /\ UNCHANGED byToken /\ Later
            /\ bySession' = IF ok THEN [bySession EXCEPT ![SessionOf(t)] = 0] ELSE bySession
            /\ Move(c, "deleteKey")
         \/ /\ call[c].pc = "deleteKey" /\ UNCHANGED bySession
            /\ byToken' = IF ok THEN byToken \ {t} ELSE byToken
            /\ Deleted(c, ok)
Delete(c) ==
  /\ \/ redis /\ RedisDelete(c)
     \/ ~redis /\ call[c].pc = "delete" /\ MemoryDelete(call[c].ref) /\ Deleted(c, TRUE)
        /\ UNCHANGED faults
  /\ UNCHANGED <<pg, redis, users, sessions, created, agedAccess, agedRefresh, held,
                 blacklist, consumed, raced, left>>

-----------------------------------------------------------------------------
(* ValidateToken behind RequireAuth, and RequireRole behind that.           *)

Guarded == {"validate", "adminOnly"}
Validate(c) ==
  /\ \E t \in held, op \in Guarded :
       Start(c, [Idle EXCEPT !.op = op, !.acc = t, !.stale = Stale(TRUE, t),
                             !.pc = IF t > agedAccess THEN "revoked" ELSE "done",
                             !.result = "error"])
  /\ OnlyCall /\ UNCHANGED <<faults, histVars>>
IsRevoked(t) == t \in blacklist /\ t > agedAccess
ValidateRevoked(c) ==
  /\ call[c].op \in Guarded /\ call[c].pc = "revoked"
  /\ \E ok \in Outcomes(redis) :
       /\ Charge(ok)
       /\ IF ~ok \/ IsRevoked(call[c].acc) THEN Return(c, "error") ELSE Move(c, "user")
  /\ OnlyCall /\ UNCHANGED histVars
ValidateUser(c) ==
  /\ call[c].op \in Guarded /\ call[c].pc = "user"
  /\ \E ok \in Outcomes(pg) :
       /\ Charge(ok)
       /\ IF UserById(issued[call[c].acc].uid, ok) # {}
          THEN Move(c, "known") ELSE Return(c, "error")
  /\ OnlyCall /\ UNCHANGED histVars
HasRole(c) ==
  \/ call[c].op = "validate"
  \/ \E u \in users : u.id = issued[call[c].acc].uid /\ u.role = "admin"
ValidateSession(c) ==
  /\ call[c].op \in Guarded /\ call[c].pc = "known"
  /\ \E ok \in Outcomes(pg) :
       /\ Charge(ok)
       /\ Return(c, IF ~SessionKnown(SessionOf(call[c].acc), ok) THEN "error"
                    ELSE IF HasRole(c) THEN "ok" ELSE "forbidden")
  /\ OnlyCall /\ UNCHANGED histVars

-----------------------------------------------------------------------------
(* Time.                                                                    *)

AccessExpires ==
  /\ Spent < Budget /\ agedAccess < Len(issued) /\ agedAccess' = agedAccess + 1
  /\ UNCHANGED <<pg, redis, users, sessions, created, issued, agedRefresh, refreshVars, held,
                 blacklist, call, faults, histVars>>
\* Redis drops the record and a pointer saved with it.
RefreshExpires ==
  /\ Spent < Budget /\ agedRefresh < Len(issued) /\ agedRefresh' = agedRefresh + 1
  /\ IF redis
     THEN /\ byToken' = byToken \ {agedRefresh'}
          /\ bySession' = [s \in Sessions |-> IF bySession[s] = agedRefresh' THEN 0
                                              ELSE bySession[s]]
     ELSE UNCHANGED refreshVars
  /\ UNCHANGED <<pg, redis, users, sessions, created, issued, agedAccess, held, blacklist,
                 call, faults, histVars>>

RegisterStep(c) == Register(c) \/ RegisterName(c) \/ RegisterEmail(c) \/ RegisterUser(c)
LoginStep(c)    == Login(c) \/ LoginUser(c)
RefreshStep(c)  == Refresh(c) \/ RefreshRecord(c) \/ RefreshUser(c) \/ RefreshSession(c)
LogoutStep(c)   == Logout(c) \/ LogoutRevoke(c) \/ LogoutSession(c) \/ LogoutTokens(c)
                     \/ LogoutPipeline(c)
ValidateStep(c) == Validate(c) \/ ValidateRevoked(c) \/ ValidateUser(c) \/ ValidateSession(c)
Next ==
  \/ \E c \in Calls : \/ RegisterStep(c) \/ LoginStep(c) \/ RefreshStep(c) \/ LogoutStep(c)
                      \/ ValidateStep(c) \/ NewSession(c) \/ Issue(c) \/ Delete(c)
  \/ AccessExpires \/ RefreshExpires
Spec == Init /\ [][Next]_vars

-----------------------------------------------------------------------------
Succeeded(c) == call[c].pc = "done" /\ call[c].result = "ok"

\* A session that a returned Logout removed from the store never authenticates
\* a call that starts later, neither with an access token nor with a refresh
\* token, also when a Refresh that overlapped the Logout handed out a new pair.
LogoutFinal == \A c \in Calls : Succeeded(c) => "ended" \notin call[c].stale

\* A refresh token is spent once its Refresh has returned a pair (and its
\* Delete reached the store): no later Refresh takes it.
SpentOnce == \A c \in Calls : Succeeded(c) => "consumed" \notin call[c].stale

\* Session row and blacklist back each other up: with at most one failing store
\* command the access token a Logout was called with is refused by every later
\* call, unless it expires while that call is under way.
LoggedOutRefused ==
  \A c \in Calls : Succeeded(c) /\ "loggedOut" \in call[c].stale => call[c].acc <= agedAccess

\* The two maps of the memory store are one: session and record name each
\* other, so a session has at most one refresh token.
MemoryStoreExact ==
  ~redis => /\ \A s \in Sessions : bySession[s] # 0 =>
                 bySession[s] \in byToken /\ SessionOf(bySession[s]) = s
            /\ \A t \in byToken : bySession[SessionOf(t)] = t

\* A client that refreshes one token at a time is never thrown out: as long as
\* nobody logs out of the session and no command fails, the refresh token last
\* returned for it is good until it expires or a Refresh spends it.
InUse(s) == \E c \in Calls : \/ call[c].op = "refresh" /\ call[c].pc # "done"
                                  /\ SessionOf(call[c].ref) = s
                             \/ call[c].pc = "save" /\ call[c].sid = s
LastReturned(s) == {t \in held : SessionOf(t) = s /\ \A u \in held : SessionOf(u) = s => u <= t}
LatestUsable ==
  \A s \in 1..created :
    faults = MaxFaults /\ ~InUse(s) /\ s \notin raced /\ s \notin left =>
      \A t \in LastReturned(s) : t > agedRefresh => t \in byToken /\ sessions[s] # 0
=============================================================================

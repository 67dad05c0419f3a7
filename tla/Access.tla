-------------------------------- MODULE Access --------------------------------
(***************************************************************************)
(* Who gets in: the setup of the first admin, login and logout, requireAuth *)
(* with its two kinds of credential, and the creation and revocation of API *)
(* tokens.  A session ends at its logout, when nobody has used it for Idle, *)
(* and Absolute after its login; a token ends at its expiry or revocation.  *)
(*                                                                         *)
(* A handler is cut at its statements and where it reads the clock.  Users  *)
(* are only ever created, by setupPost, and all are admins.                 *)
(***************************************************************************)
EXTENDS Naturals

CONSTANTS
    Users, Sessions, Tokens,  \* user names; ids that the random ids are drawn from
    NoId,
    Requests,                 \* handler goroutines
    Idle, Absolute,           \* session_idle_timeout, session_absolute_timeout
    TTL,                      \* the lifetime that a token is given
    MaxTime                   \* bound on the clock

ASSUME AccessAssumption ==
    /\ NoId \notin Users \cup Sessions \cup Tokens
    /\ Users \cap Sessions = {} /\ Users \cap Tokens = {} /\ Sessions \cap Tokens = {}
    /\ Idle \in Nat /\ Absolute \in Nat /\ TTL \in Nat \ {0} /\ MaxTime \in Nat

VARIABLES
    users,    \* the users there are
    session,  \* sessions
    token,    \* api_tokens
    ask,      \* what each handler is asked for
    pc,       \* its next statement
    time,     \* the deadline, then the time, that it has read
    who,      \* its requestUser
    clock,
    entitled  \* history: handlers that were Entitled at some moment since they began

vars == <<users, session, token, ask, pc, time, who, clock, entitled>>

-----------------------------------------------------------------------------
SessionRow == [state : {"none", "live", "gone"}, user : Users \cup {NoId},
               created : Nat, expires : Nat]
NoSession == [state |-> "none", user |-> NoId, created |-> 0, expires |-> 0]
TokenRow == [state : {"none", "live", "revoked"}, owner : Users \cup {NoId},
             admin : BOOLEAN, expires : Nat]
NoToken == [state |-> "none", owner |-> NoId, admin |-> FALSE, expires |-> 0]

Ops == {"none", "setup", "login", "docs", "page", "logout", "mint", "revoke"}
PCs == {"idle", "count", "create", "lookup", "open",      \* setupPost, loginPost
        "read", "check", "expire", "user", "touch",       \* currentUser, requireAuth
        "token", "valid",                                 \* currentTokenUser
        "serve", "insert", "write"}                       \* the handler
Asked == [op : Ops,
          cred : Sessions \cup Tokens \cup {NoId},             \* cookie or bearer token
          target : Users \cup Sessions \cup Tokens \cup {NoId}]  \* what it names
Ask(op, c, t) == [op |-> op, cred |-> c, target |-> t]
NoAsk == Ask("none", NoId, NoId)
Person == [user : Users \cup {NoId}, admin : BOOLEAN]
Nobody == [user |-> NoId, admin |-> FALSE]

TypeOK ==
    /\ users \subseteq Users
    /\ session \in [Sessions -> SessionRow]
    /\ token \in [Tokens -> TokenRow]
    /\ ask \in [Requests -> Asked]
    /\ pc \in [Requests -> PCs]
    /\ time \in [Requests -> Nat]
    /\ who \in [Requests -> Person]
    /\ clock \in 0 .. MaxTime
    /\ entitled \subseteq Requests

Init ==
    /\ users = {}
    /\ session = [s \in Sessions |-> NoSession]
    /\ token = [t \in Tokens |-> NoToken]
    /\ ask = [r \in Requests |-> NoAsk]
    /\ pc = [r \in Requests |-> "idle"]
    /\ time = [r \in Requests |-> 0]
    /\ who = [r \in Requests |-> Nobody]
    /\ clock = 0 /\ entitled = {}

Move(r, l, t, w) ==
    /\ pc' = [pc EXCEPT ![r] = l]
    /\ time' = [time EXCEPT ![r] = t]
    /\ who' = [who EXCEPT ![r] = w]
Begin(r, l, a) == ask' = [ask EXCEPT ![r] = a] /\ Move(r, l, 0, Nobody)
Goto(r, l) == Move(r, l, time[r], who[r]) /\ UNCHANGED ask
Finish(r) == Begin(r, "idle", NoAsk)

\* The last moment at which a session counts as live.
Deadline(s) ==
    IF session[s].expires < session[s].created + Absolute
    THEN session[s].expires ELSE session[s].created + Absolute

\* Mutant: a row is inserted if there is none.
Upserted(s, t) == [session EXCEPT ![s].state = "live", ![s].expires = t]

\* UPDATE sessions ... WHERE id = ?, which matches nothing if the row is gone.
Touched(s, t) ==
    IF session[s].state = "live" THEN [session EXCEPT ![s].expires = t] ELSE session

Deleted(s) == IF session[s].state = "live" THEN [session EXCEPT ![s].state = "gone"] ELSE session

-----------------------------------------------------------------------------
(* A request arrives.  requireAuth first asks whether there are users; a    *)
(* request with a session or a token only exists if there are.              *)

Request(r) ==
    /\ pc[r] = "idle"
    /\ \/ \E u \in Users : \/ Begin(r, "count", Ask("setup", NoId, u))
                           \/ Begin(r, "lookup", Ask("login", NoId, u))
       \/ \E s \in Sessions :
            /\ session[s].state # "none"
            /\ \/ \E op \in {"docs", "page"} : Begin(r, "read", Ask(op, s, NoId))
               \/ \E u \in Users : Begin(r, "read", Ask("mint", s, u))
               \/ Begin(r, "read", Ask("logout", s, s))
               \/ \E t \in Tokens : Begin(r, "read", Ask("revoke", s, t))
       \/ \E t \in Tokens :
            /\ token[t].state # "none"
            /\ \/ Begin(r, "token", Ask("page", t, NoId))
               \/ \E u \in Users : Begin(r, "token", Ask("mint", t, u))
               \/ \E s \in Sessions : Begin(r, "token", Ask("logout", t, s))
               \/ \E u \in Tokens : Begin(r, "token", Ask("revoke", t, u))
    /\ UNCHANGED <<users, session, token, clock>>

\* A refused value or CSRF token, a failed statement, a client that has gone
\* away.  requireAuth does not look at the outcome of TouchSession, nor do
\* currentUser and logoutPost at that of DeleteSession.
Fail(r) ==
    /\ pc[r] # "idle"
    /\ \/ Finish(r)
       \/ pc[r] = "touch" /\ Goto(r, "serve")
    /\ UNCHANGED <<users, session, token, clock>>

-----------------------------------------------------------------------------
(* setupPost and loginPost.                                                *)

\* Mutant: nobody looks.
SetupBlind(r) ==
    /\ pc[r] = "count"
    /\ Goto(r, "create")
    /\ UNCHANGED <<users, session, token, clock>>

SetupCheck(r) ==
    /\ pc[r] = "count"
    /\ IF users = {} THEN Goto(r, "create") ELSE Finish(r)
    /\ UNCHANGED <<users, session, token, clock>>

\* users.username is UNIQUE: the second insert of a name fails.
SetupCreate(r) ==
    /\ pc[r] = "create"
    /\ users' = users \cup {ask[r].target}
    /\ Finish(r)
    /\ UNCHANGED <<session, token, clock>>

LoginLookup(r) ==
    /\ pc[r] = "lookup"
    /\ IF ask[r].target \in users
       THEN Move(r, "open", clock, who[r]) /\ UNCHANGED ask
       ELSE Finish(r)
    /\ UNCHANGED <<users, session, token, clock>>

LoginOpen(r) ==
    /\ pc[r] = "open"
    /\ \E s \in Sessions :
         /\ session[s].state = "none"
         /\ session' = [session EXCEPT ![s] = [state |-> "live", user |-> ask[r].target,
                                               created |-> time[r],
                                               expires |-> time[r] + Idle]]
    /\ Finish(r)
    /\ UNCHANGED <<users, token, clock>>

-----------------------------------------------------------------------------
(* requireAuth with a session cookie: read the row, look at the clock,      *)
(* read the user, look at the clock, touch the row.                         *)

SessionRead(r) ==
    LET s == ask[r].cred
    IN /\ pc[r] = "read"
       /\ IF session[s].state = "live"
          THEN Move(r, "check", Deadline(s), [user |-> session[s].user, admin |-> FALSE])
               /\ UNCHANGED ask
          ELSE Finish(r)
       /\ UNCHANGED <<users, session, token, clock>>

\* Mutant: a session ends one moment early.
SessionCheckEarly(r) ==
    /\ pc[r] = "check"
    /\ Goto(r, IF clock >= time[r] THEN "expire" ELSE "user")
    /\ UNCHANGED <<users, session, token, clock>>

SessionCheck(r) ==
    /\ pc[r] = "check"
    /\ Goto(r, IF clock > time[r] THEN "expire" ELSE "user")
    /\ UNCHANGED <<users, session, token, clock>>

SessionExpire(r) ==
    /\ pc[r] = "expire"
    /\ session' = Deleted(ask[r].cred)
    /\ Finish(r)
    /\ UNCHANGED <<users, token, clock>>

\* The pages of documentation show who is logged in and touch nothing.
SessionUser(r) ==
    /\ pc[r] = "user"
    /\ IF ask[r].op = "docs" THEN Finish(r)
       ELSE Move(r, "touch", clock, [user |-> who[r].user, admin |-> TRUE]) /\ UNCHANGED ask
    /\ UNCHANGED <<users, session, token, clock>>

TouchSession(r) ==
    /\ pc[r] = "touch"
    /\ session' = Touched(ask[r].cred, time[r] + Idle)
    /\ Goto(r, "serve")
    /\ UNCHANGED <<users, token, clock>>

-----------------------------------------------------------------------------
(* requireAuth with a bearer token.                                        *)

TokenRead(r) ==
    LET t == ask[r].cred
    IN /\ pc[r] = "token"
       /\ IF token[t].state = "live"
          THEN Move(r, "valid", token[t].expires,
                    [user |-> token[t].owner, admin |-> token[t].admin]) /\ UNCHANGED ask
          ELSE Finish(r)
       /\ UNCHANGED <<users, session, token, clock>>

TokenCheck(r) ==
    /\ pc[r] = "valid"
    /\ IF clock > time[r] THEN Finish(r) ELSE Goto(r, "serve")
    /\ UNCHANGED <<users, session, token, clock>>

-----------------------------------------------------------------------------
(* The handlers behind requireAuth.                                        *)

ServePage(r) ==
    /\ pc[r] = "serve" /\ ask[r].op = "page"
    /\ Finish(r)
    /\ UNCHANGED <<users, session, token, clock>>

Logout(r) ==
    /\ pc[r] = "serve" /\ ask[r].op = "logout"
    /\ session' = Deleted(ask[r].target)
    /\ Finish(r)
    /\ UNCHANGED <<users, token, clock>>

\* createAPIToken: only admins create, for any user there is.
MintCheck(r) ==
    /\ pc[r] = "serve" /\ ask[r].op = "mint"
    /\ IF who[r].admin /\ ask[r].target \in users
       THEN Move(r, "insert", clock, who[r]) /\ UNCHANGED ask
       ELSE Finish(r)
    /\ UNCHANGED <<users, session, token, clock>>

\* Mutant: the token that asks owns the new one.
MintInsertOwned(r) ==
    /\ pc[r] = "insert"
    /\ \E t \in Tokens, a \in BOOLEAN :
         /\ token[t].state = "none"
         /\ token' = [token EXCEPT ![t] = [state |-> "live", owner |-> ask[r].cred,
                                           admin |-> a, expires |-> time[r] + TTL]]
    /\ Finish(r)
    /\ UNCHANGED <<users, session, clock>>

MintInsert(r) ==
    /\ pc[r] = "insert"
    /\ \E t \in Tokens, a \in BOOLEAN :
         /\ token[t].state = "none"
         /\ token' = [token EXCEPT ![t] = [state |-> "live", owner |-> ask[r].target,
                                           admin |-> a, expires |-> time[r] + TTL]]
    /\ Finish(r)
    /\ UNCHANGED <<users, session, clock>>

RevokeRead(r) ==
    LET t == ask[r].target
    IN /\ pc[r] = "serve" /\ ask[r].op = "revoke"
       /\ IF token[t].state # "none" /\ (who[r].admin \/ token[t].owner = who[r].user)
          THEN Goto(r, "write") ELSE Finish(r)
       /\ UNCHANGED <<users, session, token, clock>>

RevokeWrite(r) ==
    /\ pc[r] = "write"
    /\ token' = [token EXCEPT ![ask[r].target].state = "revoked"]
    /\ Finish(r)
    /\ UNCHANGED <<users, session, clock>>

-----------------------------------------------------------------------------
Tick ==
    /\ clock < MaxTime /\ clock' = clock + 1
    /\ UNCHANGED <<users, session, token, ask, pc, time, who>>

Setup(r) == SetupCheck(r) \/ SetupCreate(r)
Login(r) == LoginLookup(r) \/ LoginOpen(r)
requireAuth(r) ==
    \/ SessionRead(r) \/ SessionCheck(r) \/ SessionExpire(r) \/ SessionUser(r)
    \/ TouchSession(r) \/ TokenRead(r) \/ TokenCheck(r)
Handle(r) ==
    \/ ServePage(r) \/ Logout(r)
    \/ MintCheck(r) \/ MintInsert(r) \/ RevokeRead(r) \/ RevokeWrite(r)

Step(r) == Request(r) \/ Fail(r) \/ Setup(r) \/ Login(r) \/ requireAuth(r) \/ Handle(r)

\* A handler may do now what it is asked for: no user is there yet, or its
\* session or token is live.
LiveSession(s) == session[s].state = "live" /\ clock <= Deadline(s)
LiveToken(t) == token[t].state = "live" /\ clock <= token[t].expires
Entitled(r) ==
    \/ ask[r].op = "setup" /\ users = {}
    \/ ask[r].cred \in Sessions /\ LiveSession(ask[r].cred)
    \/ ask[r].cred \in Tokens /\ LiveToken(ask[r].cred)

Observe == entitled' = {r \in Requests : ask'[r].op # "none"
                                         /\ (r \in entitled \/ Entitled(r)')}

Next == ((\E r \in Requests : Step(r)) \/ Tick) /\ Observe

Spec == Init /\ [][Next]_vars

-----------------------------------------------------------------------------
(* Properties.                                                             *)

\* A handler that is past its checks was entitled to be at some moment since it
\* began: setupPost creates an admin only if there was none then (app.go:605),
\* and a request that begins after its session or token has ended is not
\* served, whatever other requests do to the row meanwhile (app.go:477).
Past == {"create", "user", "touch", "serve", "insert", "write"}
ServedEntitled == \A r \in Requests :
    pc[r] \in Past /\ ask[r].op # "login" => r \in entitled

\* A session that is deleted or has reached its absolute timeout, and a token
\* that is revoked or has expired, stays so: no request in flight revives it.
Ended(s) == session[s].state = "gone" \/ (session[s].state = "live"
                                          /\ clock > session[s].created + Absolute)
EndedToken(t) == token[t].state = "revoked" \/ (token[t].state = "live" /\ clock > token[t].expires)
EndsForGood ==
    [][/\ \A s \in Sessions : Ended(s) => Ended(s)'
       /\ \A t \in Tokens : EndedToken(t) => EndedToken(t)']_vars

\* A live session is ended by a logout that names it, or by a request that read
\* it before it was last touched (app.go:486).
NoEarlyEnd ==
    [][\A s \in Sessions : LiveSession(s) /\ session'[s].state # "live" =>
           \E r \in Requests :
               /\ pc'[r] # pc[r]
               /\ \/ ask[r].op = "logout" /\ pc[r] = "serve" /\ ask[r].target = s
                  \/ pc[r] = "expire" /\ ask[r].cred = s /\ time[r] < Deadline(s)]_vars
=============================================================================

---------------------------- MODULE Access_proofs ----------------------------
(***************************************************************************)
(* Proofs about Access, for any number of users, sessions, tokens and       *)
(* handlers, and any timeouts: nobody is served who was not entitled to be  *)
(* at some moment of the request, what has ended stays so, and a live       *)
(* session ends early only by its logout or by an overtaken request.        *)
(***************************************************************************)
EXTENDS Access, TLAPS

\* What a handler has been asked for at each of its statements.
Fits(l, a) ==
    /\ a.op = "none" <=> l = "idle"
    /\ l \in {"count", "create"} => a.op = "setup" /\ a.target \in Users
    /\ l \in {"lookup", "open"} => a.op = "login" /\ a.target \in Users
    /\ l \in {"read", "check", "expire", "user", "touch"} => a.cred \in Sessions
    /\ l \in {"token", "valid"} => a.cred \in Tokens
    /\ a.op = "login" => l \in {"lookup", "open"}
    /\ a.op = "logout" => a.target \in Sessions
    /\ a.op = "mint" => a.target \in Users
    /\ a.op = "revoke" => a.target \in Tokens
    /\ l = "insert" => a.op = "mint"
    /\ l = "write" => a.op = "revoke"
Shape == \A r \in Requests : Fits(pc[r], ask[r])

TypeInv == TypeOK /\ Shape

-----------------------------------------------------------------------------
LEMMA DeadlineType ==
    ASSUME TypeOK, NEW s \in Sessions
    PROVE  Deadline(s) \in Nat /\ Deadline(s) <= session[s].created + Absolute
  <1>1. session[s] \in SessionRow
    BY DEF TypeOK
  <1>2. session[s].expires \in Nat /\ session[s].created \in Nat
    BY <1>1 DEF SessionRow
  <1> QED
    BY <1>2, AccessAssumption DEF Deadline

LEMMA RowFields ==
    ASSUME NEW s \in Sessions, session \in [Sessions -> SessionRow],
           NEW u \in Users \cup {NoId}, NEW c \in Nat, NEW e \in Nat
    PROVE  [session EXCEPT ![s] = [state |-> "live", user |-> u, created |-> c, expires |-> e]]
             \in [Sessions -> SessionRow]
  BY DEF SessionRow

LEMMA TouchedType ==
    ASSUME NEW s \in Sessions, session \in [Sessions -> SessionRow], NEW e \in Nat
    PROVE  Touched(s, e) \in [Sessions -> SessionRow]
  BY DEF Touched, SessionRow

LEMMA DeletedType ==
    ASSUME NEW s \in Sessions, session \in [Sessions -> SessionRow]
    PROVE  Deleted(s) \in [Sessions -> SessionRow]
  BY DEF Deleted, SessionRow

LEMMA MoveType ==
    ASSUME TypeOK, NEW r \in Requests, NEW l \in PCs, NEW t \in Nat, NEW w \in Person,
           Move(r, l, t, w)
    PROVE  /\ pc' \in [Requests -> PCs] /\ time' \in [Requests -> Nat]
           /\ who' \in [Requests -> Person]
  BY DEF TypeOK, Move

LEMMA GotoType ==
    ASSUME TypeOK, NEW r \in Requests, NEW l \in PCs, Goto(r, l)
    PROVE  /\ pc' \in [Requests -> PCs] /\ time' \in [Requests -> Nat]
           /\ who' \in [Requests -> Person] /\ ask' = ask
  <1>1. time[r] \in Nat /\ who[r] \in Person
    BY DEF TypeOK
  <1> QED
    BY <1>1, MoveType DEF Goto

LEMMA AskType ==
    ASSUME NEW op \in Ops, NEW c \in Sessions \cup Tokens \cup {NoId},
           NEW t \in Users \cup Sessions \cup Tokens \cup {NoId}
    PROVE  /\ Ask(op, c, t) \in Asked
           /\ Ask(op, c, t).op = op /\ Ask(op, c, t).cred = c /\ Ask(op, c, t).target = t
  BY DEF Ask, Asked

LEMMA BeginType ==
    ASSUME TypeOK, NEW r \in Requests, NEW l \in PCs, NEW a \in Asked, Begin(r, l, a)
    PROVE  /\ pc' \in [Requests -> PCs] /\ time' \in [Requests -> Nat]
           /\ who' \in [Requests -> Person] /\ ask' \in [Requests -> Asked]
  <1>1. Nobody \in Person
    BY DEF Nobody, Person
  <1>2. ask' \in [Requests -> Asked]
    BY DEF Begin, TypeOK
  <1> QED
    BY <1>1, <1>2, MoveType DEF Begin

LEMMA FinishType ==
    ASSUME TypeOK, NEW r \in Requests, Finish(r)
    PROVE  /\ pc' \in [Requests -> PCs] /\ time' \in [Requests -> Nat]
           /\ who' \in [Requests -> Person] /\ ask' \in [Requests -> Asked]
  <1>1. NoAsk \in Asked
    BY AskType DEF NoAsk, Ops
  <1> QED
    BY <1>1, BeginType DEF Finish, PCs

LEMMA MoveFits ==
    ASSUME TypeInv, NEW r \in Requests, NEW l \in PCs, NEW t \in Nat, NEW w \in Person,
           Move(r, l, t, w), UNCHANGED ask, Fits(l, ask[r])
    PROVE  Shape'
  <1> SUFFICES ASSUME NEW q \in Requests
               PROVE  Fits(pc'[q], ask'[q])
    BY DEF Shape, Fits
  <1>1. pc'[q] = IF q = r THEN l ELSE pc[q]
    BY DEF Move, TypeInv, TypeOK
  <1>2. Fits(pc[q], ask[q]) /\ ask'[q] = ask[q]
    BY DEF TypeInv, Shape
  <1> QED
    BY <1>1, <1>2

LEMMA BeginFits ==
    ASSUME TypeInv, NEW r \in Requests, NEW l \in PCs, NEW a \in Asked,
           Begin(r, l, a), Fits(l, a)
    PROVE  Shape'
  <1> SUFFICES ASSUME NEW q \in Requests
               PROVE  Fits(pc'[q], ask'[q])
    BY DEF Shape, Fits
  <1>1. /\ pc'[q] = IF q = r THEN l ELSE pc[q]
        /\ ask'[q] = IF q = r THEN a ELSE ask[q]
    BY DEF Begin, Move, TypeInv, TypeOK
  <1>2. Fits(pc[q], ask[q])
    BY DEF TypeInv, Shape
  <1> QED
    BY <1>1, <1>2

\* The four ways on from a statement keep the frames in shape.
Framed == /\ pc' \in [Requests -> PCs] /\ time' \in [Requests -> Nat]
          /\ who' \in [Requests -> Person] /\ ask' \in [Requests -> Asked]
          /\ Shape'

LEMMA FinishFramed == ASSUME TypeInv, NEW r \in Requests, Finish(r) PROVE Framed
  <1>1. NoAsk \in Asked /\ NoAsk.op = "none"
    BY AskType DEF NoAsk, Ops
  <1>2. Fits("idle", NoAsk)
    BY <1>1 DEF Fits
  <1>3. "idle" \in PCs
    BY DEF PCs
  <1> QED
    BY <1>1, <1>2, <1>3, FinishType, BeginFits DEF Finish, Framed, TypeInv

LEMMA MoveFramed ==
    ASSUME TypeInv, NEW r \in Requests, NEW l \in PCs, NEW t \in Nat, NEW w \in Person,
           Move(r, l, t, w), UNCHANGED ask, Fits(l, ask[r])
    PROVE  Framed
  <1>1. ask' \in [Requests -> Asked]
    BY DEF TypeInv, TypeOK
  <1> QED
    BY <1>1, MoveType, MoveFits DEF Framed, TypeInv

LEMMA GotoFramed ==
    ASSUME TypeInv, NEW r \in Requests, NEW l \in PCs, Goto(r, l), Fits(l, ask[r])
    PROVE  Framed
  <1>1. time[r] \in Nat /\ who[r] \in Person
    BY DEF TypeInv, TypeOK
  <1> QED
    BY <1>1, MoveFramed DEF Goto

LEMMA BeginFramed ==
    ASSUME TypeInv, NEW r \in Requests, NEW l \in PCs, NEW a \in Asked,
           Begin(r, l, a), Fits(l, a)
    PROVE  Framed
  BY BeginType, BeginFits DEF Framed, TypeInv

LEMMA RequestFramed == ASSUME TypeInv, NEW r \in Requests, Request(r) PROVE Framed
  <1> USE DEF PCs, Ops
  <1>1. CASE \E u \in Users : \/ Begin(r, "count", Ask("setup", NoId, u))
                              \/ Begin(r, "lookup", Ask("login", NoId, u))
    <2>1. PICK u \in Users : \/ Begin(r, "count", Ask("setup", NoId, u))
                             \/ Begin(r, "lookup", Ask("login", NoId, u))
      BY <1>1
    <2>2. Fits("count", Ask("setup", NoId, u)) /\ Fits("lookup", Ask("login", NoId, u))
      BY AskType DEF Fits
    <2> QED
      BY <2>1, <2>2, AskType, BeginFramed
  <1>2. CASE \E s \in Sessions :
               \/ \E op \in {"docs", "page"} : Begin(r, "read", Ask(op, s, NoId))
               \/ \E u \in Users : Begin(r, "read", Ask("mint", s, u))
               \/ Begin(r, "read", Ask("logout", s, s))
               \/ \E t \in Tokens : Begin(r, "read", Ask("revoke", s, t))
    <2>1. PICK s \in Sessions :
               \/ \E op \in {"docs", "page"} : Begin(r, "read", Ask(op, s, NoId))
               \/ \E u \in Users : Begin(r, "read", Ask("mint", s, u))
               \/ Begin(r, "read", Ask("logout", s, s))
               \/ \E t \in Tokens : Begin(r, "read", Ask("revoke", s, t))
      BY <1>2
    <2>2. \A op \in {"docs", "page"} : Fits("read", Ask(op, s, NoId))
      BY AskType DEF Fits
    <2>3. /\ \A u \in Users : Fits("read", Ask("mint", s, u))
          /\ Fits("read", Ask("logout", s, s))
          /\ \A t \in Tokens : Fits("read", Ask("revoke", s, t))
      BY AskType DEF Fits
    <2> QED
      BY <2>1, <2>2, <2>3, AskType, BeginFramed
  <1>3. CASE \E t \in Tokens :
               \/ Begin(r, "token", Ask("page", t, NoId))
               \/ \E u \in Users : Begin(r, "token", Ask("mint", t, u))
               \/ \E s \in Sessions : Begin(r, "token", Ask("logout", t, s))
               \/ \E u \in Tokens : Begin(r, "token", Ask("revoke", t, u))
    <2>1. PICK t \in Tokens :
               \/ Begin(r, "token", Ask("page", t, NoId))
               \/ \E u \in Users : Begin(r, "token", Ask("mint", t, u))
               \/ \E s \in Sessions : Begin(r, "token", Ask("logout", t, s))
               \/ \E u \in Tokens : Begin(r, "token", Ask("revoke", t, u))
      BY <1>3
    <2>2. /\ Fits("token", Ask("page", t, NoId))
          /\ \A u \in Users : Fits("token", Ask("mint", t, u))
      BY AskType DEF Fits
    <2>3. /\ \A s \in Sessions : Fits("token", Ask("logout", t, s))
          /\ \A u \in Tokens : Fits("token", Ask("revoke", t, u))
      BY AskType DEF Fits
    <2> QED
      BY <2>1, <2>2, <2>3, AskType, BeginFramed
  <1> QED
    BY <1>1, <1>2, <1>3 DEF Request

LEMMA FailFramed == ASSUME TypeInv, NEW r \in Requests, Fail(r) PROVE Framed
  <1>1. CASE pc[r] = "touch" /\ Goto(r, "serve")
    <2>1. Fits(pc[r], ask[r])
      BY DEF TypeInv, Shape
    <2>2. Fits("serve", ask[r])
      BY <1>1, <2>1 DEF Fits
    <2> QED
      BY <1>1, <2>2, GotoFramed DEF PCs
  <1> QED
    BY <1>1, FinishFramed DEF Fail

LEMMA EntryFramed == ASSUME TypeInv, NEW r \in Requests, Setup(r) \/ Login(r) PROVE Framed
  <1> USE DEF PCs
  <1>1. Fits(pc[r], ask[r]) /\ clock \in Nat /\ who[r] \in Person
    BY AccessAssumption DEF TypeInv, TypeOK, Shape
  <1>2. CASE SetupCheck(r)
    <2>1. Fits("create", ask[r])
      BY <1>1, <1>2 DEF SetupCheck, Fits
    <2> QED
      BY <1>2, <2>1, GotoFramed, FinishFramed DEF SetupCheck
  <1>3. CASE LoginLookup(r)
    <2>1. Fits("open", ask[r])
      BY <1>1, <1>3 DEF LoginLookup, Fits
    <2> QED
      BY <1>1, <1>3, <2>1, MoveFramed, FinishFramed DEF LoginLookup
  <1>4. CASE SetupCreate(r) \/ LoginOpen(r)
    BY <1>4, FinishFramed DEF SetupCreate, LoginOpen
  <1> QED
    BY <1>2, <1>3, <1>4 DEF Setup, Login

LEMMA AuthFramed == ASSUME TypeInv, NEW r \in Requests, requireAuth(r) PROVE Framed
  <1> USE DEF PCs
  <1>1. Fits(pc[r], ask[r]) /\ clock \in Nat /\ who[r] \in Person
    BY AccessAssumption DEF TypeInv, TypeOK, Shape
  <1>2. CASE SessionRead(r)
    <2>1. PICK s \in Sessions : s = ask[r].cred
      BY <1>1, <1>2 DEF SessionRead, Fits
    <2>2. Fits("check", ask[r])
      BY <1>1, <1>2 DEF SessionRead, Fits
    <2>3. session[s] \in SessionRow
      BY DEF TypeInv, TypeOK
    <2>4. [user |-> session[s].user, admin |-> FALSE] \in Person
      BY <2>3 DEF SessionRow, Person
    <2>5. Deadline(s) \in Nat
      BY DeadlineType DEF TypeInv
    <2> QED
      BY <1>2, <2>1, <2>2, <2>4, <2>5, MoveFramed, FinishFramed DEF SessionRead
  <1>3. CASE SessionCheck(r)
    <2>1. Fits("expire", ask[r]) /\ Fits("user", ask[r])
      BY <1>1, <1>3 DEF SessionCheck, Fits
    <2> QED
      BY <1>3, <2>1, GotoFramed DEF SessionCheck
  <1>4. CASE SessionExpire(r)
    BY <1>4, FinishFramed DEF SessionExpire
  <1>5. CASE SessionUser(r)
    <2>1. Fits("touch", ask[r])
      BY <1>1, <1>5 DEF SessionUser, Fits
    <2>2. [user |-> who[r].user, admin |-> TRUE] \in Person
      BY <1>1 DEF Person
    <2> QED
      BY <1>1, <1>5, <2>1, <2>2, MoveFramed, FinishFramed DEF SessionUser
  <1>6. CASE TouchSession(r)
    <2>1. Fits("serve", ask[r])
      BY <1>1, <1>6 DEF TouchSession, Fits
    <2> QED
      BY <1>6, <2>1, GotoFramed DEF TouchSession
  <1>7. CASE TokenRead(r)
    <2>1. PICK t \in Tokens : t = ask[r].cred
      BY <1>1, <1>7 DEF TokenRead, Fits
    <2>2. Fits("valid", ask[r])
      BY <1>1, <1>7 DEF TokenRead, Fits
    <2>3. token[t] \in TokenRow
      BY DEF TypeInv, TypeOK
    <2>4. [user |-> token[t].owner, admin |-> token[t].admin] \in Person /\ token[t].expires \in Nat
      BY <2>3 DEF TokenRow, Person
    <2> QED
      BY <1>7, <2>1, <2>2, <2>4, MoveFramed, FinishFramed DEF TokenRead
  <1>8. CASE TokenCheck(r)
    <2>1. Fits("serve", ask[r])
      BY <1>1, <1>8 DEF TokenCheck, Fits
    <2> QED
      BY <1>8, <2>1, GotoFramed, FinishFramed DEF TokenCheck
  <1> QED
    BY <1>2, <1>3, <1>4, <1>5, <1>6, <1>7, <1>8 DEF requireAuth

LEMMA HandleFramed == ASSUME TypeInv, NEW r \in Requests, Handle(r) PROVE Framed
  <1> USE DEF PCs
  <1>1. Fits(pc[r], ask[r]) /\ clock \in Nat /\ who[r] \in Person
    BY AccessAssumption DEF TypeInv, TypeOK, Shape
  <1>2. CASE MintCheck(r)
    <2>1. Fits("insert", ask[r])
      BY <1>1, <1>2 DEF MintCheck, Fits
    <2> QED
      BY <1>1, <1>2, <2>1, MoveFramed, FinishFramed DEF MintCheck
  <1>3. CASE RevokeRead(r)
    <2>1. Fits("write", ask[r])
      BY <1>1, <1>3 DEF RevokeRead, Fits
    <2> QED
      BY <1>3, <2>1, GotoFramed, FinishFramed DEF RevokeRead
  <1>4. CASE ServePage(r) \/ Logout(r) \/ MintInsert(r) \/ RevokeWrite(r)
    BY <1>4, FinishFramed DEF ServePage, Logout, MintInsert, RevokeWrite
  <1> QED
    BY <1>2, <1>3, <1>4 DEF Handle

-----------------------------------------------------------------------------
(* The tables.                                                             *)

Tables == /\ users' \subseteq Users
          /\ session' \in [Sessions -> SessionRow]
          /\ token' \in [Tokens -> TokenRow]
          /\ clock' \in 0 .. MaxTime

LEMMA StepTables == ASSUME TypeInv, NEW r \in Requests, Step(r) PROVE Tables
  <1>1. /\ Fits(pc[r], ask[r]) /\ time[r] \in Nat /\ users \subseteq Users
        /\ session \in [Sessions -> SessionRow] /\ token \in [Tokens -> TokenRow]
        /\ clock \in 0 .. MaxTime
    BY DEF TypeInv, TypeOK, Shape
  <1>2. CASE UNCHANGED <<users, session, token, clock>>
    BY <1>1, <1>2 DEF Tables
  <1>3. CASE SetupCreate(r)
    <2>1. ask[r].target \in Users
      BY <1>1, <1>3 DEF SetupCreate, Fits
    <2> QED
      BY <1>1, <1>3, <2>1 DEF SetupCreate, Tables
  <1>4. CASE LoginOpen(r)
    <2>1. PICK s \in Sessions :
            session' = [session EXCEPT ![s] = [state |-> "live", user |-> ask[r].target,
                                               created |-> time[r],
                                               expires |-> time[r] + Idle]]
      BY <1>4 DEF LoginOpen
    <2>2. ask[r].target \in Users
      BY <1>1, <1>4 DEF LoginOpen, Fits
    <2>3. time[r] + Idle \in Nat
      BY <1>1, AccessAssumption
    <2>4. session' \in [Sessions -> SessionRow]
      BY <1>1, <2>1, <2>2, <2>3, RowFields
    <2> QED
      BY <1>1, <1>4, <2>4 DEF LoginOpen, Tables
  <1>5. CASE SessionExpire(r)
    <2>1. ask[r].cred \in Sessions
      BY <1>1, <1>5 DEF SessionExpire, Fits
    <2> QED
      BY <1>1, <1>5, <2>1, DeletedType DEF SessionExpire, Tables
  <1>6. CASE TouchSession(r)
    <2>1. ask[r].cred \in Sessions /\ time[r] + Idle \in Nat
      BY <1>1, <1>6, AccessAssumption DEF TouchSession, Fits
    <2> QED
      BY <1>1, <1>6, <2>1, TouchedType DEF TouchSession, Tables
  <1>7. CASE Logout(r)
    <2>1. ask[r].target \in Sessions
      BY <1>1, <1>7 DEF Logout, Fits
    <2> QED
      BY <1>1, <1>7, <2>1, DeletedType DEF Logout, Tables
  <1>8. CASE MintInsert(r)
    <2>1. PICK t \in Tokens, a \in BOOLEAN :
            token' = [token EXCEPT ![t] = [state |-> "live", owner |-> ask[r].target,
                                           admin |-> a, expires |-> time[r] + TTL]]
      BY <1>8 DEF MintInsert
    <2>2. ask[r].target \in Users
      BY <1>1, <1>8 DEF MintInsert, Fits
    <2>3. time[r] + TTL \in Nat
      BY <1>1, AccessAssumption
    <2>4. [state |-> "live", owner |-> ask[r].target, admin |-> a, expires |-> time[r] + TTL]
            \in TokenRow
      BY <2>2, <2>3 DEF TokenRow
    <2> QED
      BY <1>1, <1>8, <2>1, <2>4 DEF MintInsert, Tables
  <1>9. CASE RevokeWrite(r)
    <2>1. PICK t \in Tokens : t = ask[r].target
      BY <1>1, <1>9 DEF RevokeWrite, Fits
    <2>2. [token[t] EXCEPT !.state = "revoked"] \in TokenRow
      BY <1>1 DEF TokenRow
    <2> QED
      BY <1>1, <1>9, <2>1, <2>2 DEF RevokeWrite, Tables
  <1>10. \/ UNCHANGED <<users, session, token, clock>> \/ SetupCreate(r) \/ LoginOpen(r)
         \/ SessionExpire(r) \/ TouchSession(r) \/ Logout(r) \/ MintInsert(r) \/ RevokeWrite(r)
    BY DEF Step, Request, Fail, Setup, SetupCheck, Login, LoginLookup, requireAuth, SessionRead,
           SessionCheck, SessionUser, TokenRead, TokenCheck, Handle, ServePage, MintCheck,
           RevokeRead
  <1> QED
    BY <1>2, <1>3, <1>4, <1>5, <1>6, <1>7, <1>8, <1>9, <1>10

LEMMA InitType == Init => TypeInv
  <1> SUFFICES ASSUME Init PROVE TypeInv
    OBVIOUS
  <1>1. NoAsk \in Asked /\ NoAsk.op = "none"
    BY AskType DEF NoAsk, Ops
  <1>2. NoSession \in SessionRow /\ NoToken \in TokenRow /\ Nobody \in Person
    BY DEF NoSession, SessionRow, NoToken, TokenRow, Nobody, Person
  <1>3. Fits("idle", NoAsk)
    BY <1>1 DEF Fits
  <1>4. TypeOK
    BY <1>1, <1>2, AccessAssumption DEF Init, TypeOK, PCs
  <1>5. Shape
    BY <1>3 DEF Init, Shape
  <1> QED
    BY <1>4, <1>5 DEF TypeInv

LEMMA NextType == TypeInv /\ [Next]_vars => TypeInv'
  <1> SUFFICES ASSUME TypeInv, [Next]_vars PROVE TypeInv'
    OBVIOUS
  <1>1. ASSUME NEW r \in Requests, Step(r), Observe
        PROVE  TypeInv'
    <2>1. Framed
      BY <1>1, RequestFramed, FailFramed, EntryFramed, AuthFramed, HandleFramed DEF Step
    <2>2. Tables
      BY <1>1, StepTables
    <2>3. entitled' \subseteq Requests
      BY <1>1 DEF Observe
    <2> QED
      BY <2>1, <2>2, <2>3 DEF TypeInv, TypeOK, Framed, Tables
  <1>2. CASE Tick /\ Observe
    <2>1. clock' \in 0 .. MaxTime
      BY <1>2, AccessAssumption DEF Tick, TypeInv, TypeOK
    <2>2. entitled' \subseteq Requests
      BY <1>2 DEF Observe
    <2>3. TypeOK'
      BY <1>2, <2>1, <2>2 DEF Tick, TypeInv, TypeOK
    <2>4. Shape'
      BY <1>2 DEF Tick, TypeInv, Shape, Fits
    <2> QED
      BY <2>3, <2>4 DEF TypeInv
  <1>3. CASE UNCHANGED vars
    BY <1>3 DEF vars, TypeInv, TypeOK, Shape, Fits
  <1> QED
    BY <1>1, <1>2, <1>3 DEF Next

\* Every row and frame has its type, and every handler is where its request
\* can have led it (app.go:364).
THEOREM TypeCorrect == Spec => []TypeOK
  <1>1. TypeInv => TypeOK
    BY DEF TypeInv
  <1> QED
    BY <1>1, InitType, NextType, PTL DEF Spec

-----------------------------------------------------------------------------
(* Nobody is served who was not entitled to be.                             *)

\* A handler that will pass its look at the clock has been entitled already,
\* and one that deletes a session has found it too old.
Due == \A r \in Requests :
    /\ pc[r] \in {"check", "valid"} /\ clock <= time[r] => r \in entitled
    /\ pc[r] = "expire" => clock > time[r]

ServedInv == ServedEntitled /\ Due

LEMMA StaysEntitled ==
    ASSUME NEW r \in Requests, Observe, r \in entitled \/ Entitled(r)', ask'[r].op # "none"
    PROVE  r \in entitled'
  BY DEF Observe

\* Only its own steps move a handler.
LEMMA OthersMoves ==
    ASSUME TypeInv, NEW r \in Requests, Step(r), NEW q \in Requests, q # r
    PROVE  pc'[q] = pc[q] /\ time'[q] = time[q] /\ ask'[q] = ask[q]
  <1>1. /\ \A l, t, w : Move(r, l, t, w) => pc'[q] = pc[q] /\ time'[q] = time[q]
        /\ \A l, a : Begin(r, l, a) => ask'[q] = ask[q]
    BY DEF TypeInv, TypeOK, Move, Begin
  <1>2. /\ \A l, a : Begin(r, l, a) => pc'[q] = pc[q] /\ time'[q] = time[q] /\ ask'[q] = ask[q]
        /\ \A l : Goto(r, l) => pc'[q] = pc[q] /\ time'[q] = time[q] /\ ask'[q] = ask[q]
        /\ Finish(r) => pc'[q] = pc[q] /\ time'[q] = time[q] /\ ask'[q] = ask[q]
    BY <1>1 DEF Begin, Goto, Finish
  <1>3. CASE Request(r)
    BY <1>2, <1>3 DEF Request
  <1>4. CASE Fail(r)
    BY <1>2, <1>4 DEF Fail
  <1>5. CASE Setup(r) \/ Login(r)
    BY <1>1, <1>2, <1>5 DEF Setup, SetupCheck, SetupCreate, Login, LoginLookup, LoginOpen
  <1>6. CASE requireAuth(r)
    BY <1>1, <1>2, <1>6 DEF requireAuth, SessionRead, SessionCheck, SessionExpire, SessionUser,
                            TouchSession, TokenRead, TokenCheck
  <1>7. CASE Handle(r)
    BY <1>1, <1>2, <1>7 DEF Handle, ServePage, Logout, MintCheck, MintInsert, RevokeRead,
                            RevokeWrite
  <1> QED
    BY <1>3, <1>4, <1>5, <1>6, <1>7 DEF Step

\* Where a step of r leaves r.
LEMMA OwnMoves ==
    ASSUME TypeInv, NEW r \in Requests
    PROVE  /\ \A l, t, w : Move(r, l, t, w) => pc'[r] = l /\ time'[r] = t
           /\ \A l, a : Begin(r, l, a) => pc'[r] = l
           /\ \A l : Goto(r, l) => pc'[r] = l /\ time'[r] = time[r] /\ ask'[r] = ask[r]
           /\ Finish(r) => pc'[r] = "idle"
  <1>1. \A l, t, w : Move(r, l, t, w) => pc'[r] = l /\ time'[r] = t
    BY DEF TypeInv, TypeOK, Move
  <1> QED
    BY <1>1 DEF Begin, Goto, Finish

LEMMA StepServed ==
    ASSUME TypeInv, TypeInv', ServedInv, NEW r \in Requests, Step(r), Observe
    PROVE  ServedInv'
  <1>1. clock' = clock
    BY DEF Step, Request, Fail, Setup, SetupCheck, SetupCreate, Login, LoginLookup, LoginOpen,
           requireAuth, SessionRead, SessionCheck, SessionExpire, SessionUser, TouchSession,
           TokenRead, TokenCheck, Handle, ServePage, Logout, MintCheck, MintInsert, RevokeRead,
           RevokeWrite
  <1>2. ASSUME NEW q \in Requests
        PROVE  /\ ask'[q].op # "none" <=> pc'[q] # "idle"
               /\ Fits(pc[q], ask[q])
    BY DEF TypeInv, Shape, Fits
  <1>3. ASSUME NEW q \in Requests, q # r
        PROVE  /\ pc'[q] \in Past /\ ask'[q].op # "login" => q \in entitled'
               /\ pc'[q] \in {"check", "valid"} /\ clock' <= time'[q] => q \in entitled'
               /\ pc'[q] = "expire" => clock' > time'[q]
    BY <1>1, <1>2, <1>3, OthersMoves, StaysEntitled DEF ServedInv, ServedEntitled, Due, Past
  <1>4. /\ pc'[r] \in Past /\ ask'[r].op # "login" => r \in entitled'
        /\ pc'[r] \in {"check", "valid"} /\ clock' <= time'[r] => r \in entitled'
        /\ pc'[r] = "expire" => clock' > time'[r]
    <2> USE <1>1, <1>2, OwnMoves, StaysEntitled
    <2>1. CASE Request(r)
      BY <2>1 DEF Request, Past
    <2>2. CASE Fail(r)
      BY <2>2 DEF Fail, Past, ServedInv, ServedEntitled, Fits
    <2>3. CASE SetupCheck(r)
      <3>1. CASE users = {} /\ Goto(r, "create")
        <4>1. ask[r].op = "setup" /\ ask'[r] = ask[r] /\ users' = users
          BY <2>3, <3>1 DEF SetupCheck, Fits
        <4> QED
          BY <3>1, <4>1 DEF Entitled
      <3> QED
        BY <2>3, <3>1 DEF SetupCheck, Past
    <2>4. CASE LoginLookup(r)
      BY <2>4 DEF LoginLookup, Past
    <2>5. CASE SetupCreate(r) \/ LoginOpen(r) \/ SessionExpire(r) \/ ServePage(r) \/ Logout(r)
               \/ MintInsert(r) \/ RevokeWrite(r)
      BY <2>5 DEF SetupCreate, LoginOpen, SessionExpire, ServePage, Logout, MintInsert,
                  RevokeWrite, Past
    <2>6. CASE SessionRead(r)
      <3>1. PICK s \in Sessions : s = ask[r].cred
        BY <2>6 DEF SessionRead, Fits
      <3>2. CASE session[s].state = "live" /\ pc'[r] = "check" /\ time'[r] = Deadline(s) /\ ask'[r] = ask[r]
        <4>1. Deadline(s)' = Deadline(s) /\ session' = session
          BY <2>6 DEF SessionRead, Deadline
        <4>2. clock <= Deadline(s) => Entitled(r)'
          BY <3>1, <3>2, <4>1 DEF Entitled, LiveSession
        <4> QED
          BY <3>2, <4>2 DEF Past
      <3> QED
        BY <2>6, <3>1, <3>2 DEF SessionRead, Past
    <2>7. CASE SessionCheck(r)
      <3>1. clock \in Nat /\ time[r] \in Nat
        BY AccessAssumption DEF TypeInv, TypeOK
      <3> QED
        BY <2>7, <3>1 DEF SessionCheck, Past, ServedInv, Due
    <2>8. CASE SessionUser(r)
      BY <2>8 DEF SessionUser, Past, ServedInv, ServedEntitled, Fits
    <2>9. CASE TouchSession(r)
      BY <2>9 DEF TouchSession, Past, ServedInv, ServedEntitled, Fits
    <2>10. CASE TokenRead(r)
      <3>1. PICK t \in Tokens : t = ask[r].cred
        BY <2>10 DEF TokenRead, Fits
      <3>2. CASE token[t].state = "live" /\ pc'[r] = "valid" /\ time'[r] = token[t].expires /\ ask'[r] = ask[r]
        <4>1. clock <= token[t].expires => Entitled(r)'
          BY <2>10, <3>1, <3>2 DEF TokenRead, Entitled, LiveToken
        <4> QED
          BY <3>2, <4>1 DEF Past
      <3> QED
        BY <2>10, <3>1, <3>2 DEF TokenRead, Past
    <2>11. CASE TokenCheck(r)
      <3>1. clock \in Nat /\ time[r] \in Nat
        BY AccessAssumption DEF TypeInv, TypeOK
      <3> QED
        BY <2>11, <3>1 DEF TokenCheck, Past, ServedInv, Due
    <2>12. CASE MintCheck(r) \/ RevokeRead(r)
      BY <2>12 DEF MintCheck, RevokeRead, Past, ServedInv, ServedEntitled, Fits
    <2> QED
      BY <2>1, <2>2, <2>3, <2>4, <2>5, <2>6, <2>7, <2>8, <2>9, <2>10, <2>11, <2>12
         DEF Step, Setup, Login, requireAuth, Handle
  <1> QED
    BY <1>3, <1>4 DEF ServedInv, ServedEntitled, Due

LEMMA InitServed == Init => ServedInv
  BY DEF Init, ServedInv, ServedEntitled, Due, Past

LEMMA NextServed == TypeInv /\ TypeInv' /\ ServedInv /\ [Next]_vars => ServedInv'
  <1> SUFFICES ASSUME TypeInv, TypeInv', ServedInv, [Next]_vars PROVE ServedInv'
    OBVIOUS
  <1>1. CASE Tick /\ Observe
    <2>1. clock' = clock + 1 /\ clock \in Nat /\ UNCHANGED <<ask, pc, time>>
      BY <1>1, AccessAssumption DEF Tick, TypeInv, TypeOK
    <2>2. ASSUME NEW r \in Requests
          PROVE  /\ pc'[r] \in Past /\ ask'[r].op # "login" => r \in entitled'
                 /\ pc'[r] \in {"check", "valid"} /\ clock' <= time'[r] => r \in entitled'
                 /\ pc'[r] = "expire" => clock' > time'[r]
      <3>1. time[r] \in Nat /\ Fits(pc[r], ask[r])
        BY DEF TypeInv, TypeOK, Shape
      <3>2. pc[r] # "idle" => ask'[r].op # "none"
        BY <2>1, <3>1 DEF Fits
      <3>3. r \in entitled /\ pc[r] # "idle" => r \in entitled'
        BY <1>1, <3>2, StaysEntitled
      <3> QED
        BY <2>1, <3>1, <3>3 DEF ServedInv, ServedEntitled, Due, Past
    <2> QED
      BY <2>2 DEF ServedInv, ServedEntitled, Due
  <1>2. CASE UNCHANGED vars
    BY <1>2 DEF vars, ServedInv, ServedEntitled, Due
  <1> QED
    BY <1>1, <1>2, StepServed DEF Next

\* setupPost creates an admin, and requireAuth lets a request pass, only for a
\* handler that was entitled to it at some moment since it began (app.go:605,
\* app.go:477), however the steps of other handlers fall between its own.
THEOREM ServedRight == Spec => []ServedEntitled
  <1>1. ServedInv => ServedEntitled
    BY DEF ServedInv
  <1> QED
    BY <1>1, InitType, NextType, InitServed, NextServed, PTL DEF Spec

-----------------------------------------------------------------------------
(* What has ended stays so.                                                *)

\* What a step can do to a session and to a token.
LEMMA SessionMoves ==
    ASSUME TypeInv, NEW r \in Requests, Step(r), NEW s \in Sessions
    PROVE  \/ session'[s] = session[s]
           \/ session[s].state = "none"
           \/ session[s].state = "live" /\ session'[s].state \in {"live", "gone"}
              /\ session'[s].created = session[s].created
  <1>1. /\ session[s] \in SessionRow /\ session \in [Sessions -> SessionRow]
        /\ Fits(pc[r], ask[r])
    BY DEF TypeInv, TypeOK, Shape
  <1>2. CASE UNCHANGED session
    BY <1>2
  <1>3. CASE LoginOpen(r)
    BY <1>1, <1>3 DEF LoginOpen
  <1>4. CASE TouchSession(r)
    BY <1>1, <1>4 DEF TouchSession, Touched, SessionRow
  <1>5. CASE SessionExpire(r)
    BY <1>1, <1>5 DEF SessionExpire, Deleted, SessionRow
  <1>6. CASE Logout(r)
    BY <1>1, <1>6 DEF Logout, Deleted, SessionRow
  <1>7. \/ UNCHANGED session \/ LoginOpen(r) \/ TouchSession(r) \/ SessionExpire(r) \/ Logout(r)
    BY DEF Step, Request, Fail, Setup, SetupCheck, SetupCreate, Login, LoginLookup, requireAuth,
           SessionRead, SessionCheck, SessionUser, TokenRead, TokenCheck, Handle, ServePage,
           MintCheck, MintInsert, RevokeRead, RevokeWrite
  <1> QED
    BY <1>2, <1>3, <1>4, <1>5, <1>6, <1>7

LEMMA TokenMoves ==
    ASSUME TypeInv, NEW r \in Requests, Step(r), NEW t \in Tokens
    PROVE  \/ token'[t] = token[t]
           \/ token[t].state = "none"
           \/ token'[t].state = "revoked"
  <1>1. token[t] \in TokenRow /\ token \in [Tokens -> TokenRow]
    BY DEF TypeInv, TypeOK
  <1>2. CASE UNCHANGED token
    BY <1>2
  <1>3. CASE MintInsert(r)
    BY <1>1, <1>3 DEF MintInsert
  <1>4. CASE RevokeWrite(r)
    <2>1. token'[t] = IF t = ask[r].target THEN [token[t] EXCEPT !.state = "revoked"] ELSE token[t]
      BY <1>1, <1>4 DEF RevokeWrite
    <2> QED
      BY <1>1, <2>1 DEF TokenRow
  <1>5. \/ UNCHANGED token \/ MintInsert(r) \/ RevokeWrite(r)
    BY DEF Step, Request, Fail, Setup, SetupCheck, SetupCreate, Login, LoginLookup, LoginOpen,
           requireAuth, SessionRead, SessionCheck, SessionExpire, SessionUser, TouchSession,
           TokenRead, TokenCheck, Handle, ServePage, Logout, MintCheck, RevokeRead
  <1> QED
    BY <1>2, <1>3, <1>4, <1>5

LEMMA StepEnds ==
    ASSUME TypeInv, NEW r \in Requests, Step(r), clock' = clock
    PROVE  /\ \A s \in Sessions : Ended(s) => Ended(s)'
           /\ \A t \in Tokens : EndedToken(t) => EndedToken(t)'
  <1>1. ASSUME NEW s \in Sessions, Ended(s)
        PROVE  Ended(s)'
    BY <1>1, SessionMoves DEF Ended
  <1>2. ASSUME NEW t \in Tokens, EndedToken(t)
        PROVE  EndedToken(t)'
    BY <1>2, TokenMoves DEF EndedToken
  <1> QED
    BY <1>1, <1>2

LEMMA StepClock == ASSUME NEW r \in Requests, Step(r) PROVE clock' = clock
  BY DEF Step, Request, Fail, Setup, SetupCheck, SetupCreate, Login, LoginLookup, LoginOpen,
         requireAuth, SessionRead, SessionCheck, SessionExpire, SessionUser, TouchSession,
         TokenRead, TokenCheck, Handle, ServePage, Logout, MintCheck, MintInsert, RevokeRead,
         RevokeWrite

LEMMA TickEnds ==
    ASSUME TypeInv, Tick
    PROVE  /\ \A s \in Sessions : Ended(s) => Ended(s)'
           /\ \A t \in Tokens : EndedToken(t) => EndedToken(t)'
  <1>1. clock \in Nat /\ clock' = clock + 1 /\ session' = session /\ token' = token
    BY AccessAssumption DEF Tick, TypeInv, TypeOK
  <1>2. ASSUME NEW s \in Sessions, Ended(s)
        PROVE  Ended(s)'
    <2>1. session[s] \in SessionRow
      BY DEF TypeInv, TypeOK
    <2>2. session[s].created + Absolute \in Nat
      BY <2>1, AccessAssumption DEF SessionRow
    <2> QED
      BY <1>1, <1>2, <2>2 DEF Ended
  <1>3. ASSUME NEW t \in Tokens, EndedToken(t)
        PROVE  EndedToken(t)'
    <2>1. token[t].expires \in Nat
      BY DEF TypeInv, TypeOK, TokenRow
    <2> QED
      BY <1>1, <1>3, <2>1 DEF EndedToken
  <1> QED
    BY <1>2, <1>3

\* A deleted or timed out session, and a revoked or expired token, stays so:
\* TouchSession and RevokeAPIToken are updates (store.go:637, store.go:697).
THEOREM EndsHold == Spec => EndsForGood
  <1>1. TypeInv /\ [Next]_vars =>
            [/\ \A s \in Sessions : Ended(s) => Ended(s)'
             /\ \A t \in Tokens : EndedToken(t) => EndedToken(t)']_vars
    BY StepEnds, StepClock, TickEnds DEF Next
  <1> QED
    BY <1>1, InitType, NextType, PTL DEF Spec, EndsForGood

-----------------------------------------------------------------------------
(* A live session ends by its logout or by an overtaken request.            *)

LEMMA StepNoEarlyEnd ==
    ASSUME TypeInv, ServedInv, NEW r \in Requests, Step(r), NEW s \in Sessions,
           LiveSession(s), session'[s].state # "live"
    PROVE  /\ pc'[r] # pc[r]
           /\ \/ ask[r].op = "logout" /\ pc[r] = "serve" /\ ask[r].target = s
              \/ pc[r] = "expire" /\ ask[r].cred = s /\ time[r] < Deadline(s)
  <1>1. /\ session[s] \in SessionRow /\ session \in [Sessions -> SessionRow]
        /\ session[s].state = "live" /\ clock <= Deadline(s)
        /\ Fits(pc[r], ask[r])
    BY DEF TypeInv, TypeOK, Shape, LiveSession
  <1>2. clock \in Nat /\ time[r] \in Nat /\ Deadline(s) \in Nat
    BY DeadlineType, AccessAssumption DEF TypeInv, TypeOK
  <1>3. CASE LoginOpen(r)
    BY <1>1, <1>3 DEF LoginOpen
  <1>4. CASE TouchSession(r)
    BY <1>1, <1>4 DEF TouchSession, Touched, SessionRow
  <1>5. CASE SessionExpire(r)
    <2>1. pc[r] = "expire" /\ pc'[r] = "idle"
      BY <1>5, OwnMoves DEF SessionExpire
    <2>2. ask[r].cred = s
      BY <1>1, <1>5 DEF SessionExpire, Deleted
    <2>3. clock > time[r]
      BY <2>1 DEF ServedInv, Due
    <2> QED
      BY <1>1, <1>2, <2>1, <2>2, <2>3
  <1>6. CASE Logout(r)
    <2>1. pc[r] = "serve" /\ ask[r].op = "logout" /\ pc'[r] = "idle"
      BY <1>6, OwnMoves DEF Logout
    <2>2. ask[r].target = s
      BY <1>1, <1>6 DEF Logout, Deleted
    <2> QED
      BY <2>1, <2>2
  <1>7. \/ UNCHANGED session \/ LoginOpen(r) \/ TouchSession(r) \/ SessionExpire(r) \/ Logout(r)
    BY DEF Step, Request, Fail, Setup, SetupCheck, SetupCreate, Login, LoginLookup, requireAuth,
           SessionRead, SessionCheck, SessionUser, TokenRead, TokenCheck, Handle, ServePage,
           MintCheck, MintInsert, RevokeRead, RevokeWrite
  <1> QED
    BY <1>1, <1>3, <1>4, <1>5, <1>6, <1>7

\* A session that is live is ended by a logout that names it, or by a request
\* that had read it before it was last touched (app.go:486).
THEOREM LiveStays == Spec => NoEarlyEnd
  <1>1. TypeInv /\ ServedInv /\ [Next]_vars =>
            [\A s \in Sessions : LiveSession(s) /\ session'[s].state # "live" =>
                \E r \in Requests :
                    /\ pc'[r] # pc[r]
                    /\ \/ ask[r].op = "logout" /\ pc[r] = "serve" /\ ask[r].target = s
                       \/ pc[r] = "expire" /\ ask[r].cred = s /\ time[r] < Deadline(s)]_vars
    <2> SUFFICES ASSUME TypeInv, ServedInv, Next, NEW s \in Sessions, LiveSession(s),
                        session'[s].state # "live"
                 PROVE  \E r \in Requests :
                            /\ pc'[r] # pc[r]
                            /\ \/ ask[r].op = "logout" /\ pc[r] = "serve" /\ ask[r].target = s
                               \/ pc[r] = "expire" /\ ask[r].cred = s /\ time[r] < Deadline(s)
      OBVIOUS
    <2>1. ~Tick
      BY DEF Tick, LiveSession
    <2> QED
      BY <2>1, StepNoEarlyEnd DEF Next
  <1> QED
    BY <1>1, InitType, NextType, InitServed, NextServed, PTL DEF Spec, NoEarlyEnd
=============================================================================

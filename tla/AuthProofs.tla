------------------------------ MODULE AuthProofs -------------------------------
(***************************************************************************)
(* Theorems about Auth, for every number of users, sessions and workers    *)
(* and whatever the bounds.                                                *)
(*                                                                         *)
(* A request reserves the id of the session it will insert, or works on    *)
(* one that a table row has or had.  That the two never meet (Alone) is    *)
(* what keeps a handler from opening a session twice or reviving a deleted *)
(* one.  Every action is one of five effects on the session rows (RowStep) *)
(* and leaves a request of which Shape and Origin say where its session    *)
(* comes from; the invariant and the refinement are shown of the effects.  *)
(***************************************************************************)
EXTENDS Auth, FiniteSetTheorems, TLAPS

-------------------------------------------------------------------------------
(* The inductive invariant *)

\* Stages of a request that has reserved an id and not inserted its row, and
\* of one whose session has been inserted.
Reserving == {"register.create", "register.wallet", "login.find", "login.incr",
              "login.expire", "login.del", "session.create"}
Using == {"refresh.delete", "token.sign", "token.store", "answer"}

\* What the local variables of a request are, by the await it is at.
Shape(r) ==
  /\ r.at # "idle" => r.user \in Emails
  /\ r.at \in Reserving \cup Using => r.session \in SessionIds
  /\ r.at \notin Reserving \cup Using => r.session = Null
  /\ r.at \in {"token.store", "answer"} =>
       r.token \in Tokens /\ r.token.session = r.session

\* What they say about the rows.
Facts(r) ==
  /\ r.at \in Reserving => session[r.session].state = "none"
  /\ r.at \in Using => session[r.session].state # "none"

\* No other request has the id that one has reserved.
Alone ==
  \A v, w \in Workers :
    v # w /\ request[v].at \in Reserving
      => request[w].session # request[v].session

\* A session that is not inserted is blank, and one that is has a user.
Rows ==
  \A x \in SessionIds :
    /\ session[x].state = "none" => session[x] = NoSession
    /\ session[x].state # "none" => session[x].user \in Emails

Issued == \A t \in issued : session[t.session].state # "none"

Sent == \A t \in ResetTokens : reset[t].state = "live" => reset[t].user \in Emails

IInv ==
  /\ TypeOK
  /\ \A w \in Workers : Shape(request[w]) /\ Facts(request[w])
  /\ Alone
  /\ Rows
  /\ Issued
  /\ Sent

-------------------------------------------------------------------------------
(* The effects of a step on the session rows *)

Opens(w) ==
  /\ request[w].at = "session.create"
  /\ session' = [session EXCEPT ![request[w].session] =
                   [NoSession EXCEPT !.state = "open", !.user = request[w].user,
                                     !.opened = request[w].version]]

Rotates(x) ==
  /\ Open(x)
  /\ \E t \in Tokens :
       /\ t.session = x
       /\ session' = [session EXCEPT ![x].refreshToken = t, ![x].expired = FALSE]

Expires(x) ==
  /\ Open(x)
  /\ session' = [session EXCEPT ![x].expired = TRUE]

RowStep(w) ==
  \/ UNCHANGED session
  \/ Opens(w)
  \/ \E x \in SessionIds : Rotates(x) \/ Expires(x) \/ (Open(x) /\ CloseSession(x))
  \/ \E e \in Emails : CloseAll(e)

\* Where the session of the request that a step leaves behind comes from.
Origin(w, r) ==
  \/ r.at \notin Reserving \cup Using
  \/ r.at \in Reserving /\ Fresh(r.session)
  \/ r.at \in Reserving /\ request[w].at \in Reserving \ {"session.create"}
       /\ r.session = request[w].session
  \/ r.at \in Using /\ session'[r.session].state # "none"

\* What every step of worker w comes to.
Outcome(w) ==
  /\ RowStep(w)
  /\ \E r \in Requests : Goto(w, r) /\ Shape(r) /\ Origin(w, r)
  /\ \/ UNCHANGED issued
     \/ request[w].at = "answer" /\ issued' = issued \cup {request[w].token}

-------------------------------------------------------------------------------
(* Lemmas *)

LEMMA IdleType == Idle \in Requests /\ Shape(Idle)
BY DEF Idle, Requests, Stages, Shape, Reserving, Using

LEMMA ValueTypes ==
  ASSUME IInv
  PROVE  /\ \A w \in Workers : request[w] \in Requests
         /\ \A x \in SessionIds : session[x] \in Sessions
         /\ \A e \in Emails : account[e] \in Accounts /\ attempts[e] \in Counters
BY DEF IInv, TypeOK

\* The effects keep the rows well formed, and a row that is there stays.
LEMMA RowStepKeeps ==
  ASSUME IInv, NEW w \in Workers, RowStep(w)
  PROVE  /\ session' \in [SessionIds -> Sessions]
         /\ Rows'
         /\ \A x \in SessionIds :
              session[x].state # "none" => session'[x].state # "none"
         /\ \A x \in SessionIds :
              session[x].state = "none" =>
                \/ session'[x].state = "none"
                \/ request[w].at = "session.create" /\ x = request[w].session
<1>1. session \in [SessionIds -> Sessions] /\ Rows
  BY DEF IInv, TypeOK
<1>2. CASE UNCHANGED session
  BY <1>1, <1>2 DEF Rows
<1>3. CASE Opens(w)
  <2>1. PICK x \in SessionIds, r \in Requests :
          x = request[w].session /\ r = request[w] /\ r.user \in Emails
    BY <1>3, ValueTypes DEF Opens, IInv, Shape, Reserving
  <2> DEFINE row == [NoSession EXCEPT !.state = "open", !.user = r.user,
                                      !.opened = r.version]
  <2>2. row \in Sessions /\ row.state = "open" /\ row.user \in Emails
    BY <2>1 DEF NoSession, Sessions, Requests
  <2>3. session' = [session EXCEPT ![x] = row] /\ request[w].at = "session.create"
    BY <1>3, <2>1 DEF Opens
  <2> HIDE DEF row
  <2> QED BY <1>1, <2>1, <2>2, <2>3 DEF Rows
<1>4. ASSUME NEW x \in SessionIds, Rotates(x) \/ Expires(x) \/ (Open(x) /\ CloseSession(x))
      PROVE  /\ session' \in [SessionIds -> Sessions]
             /\ Rows'
             /\ \A y \in SessionIds :
                  (session[y].state = "none") <=> (session'[y].state = "none")
  <2>1. /\ session' \in [SessionIds -> Sessions]
        /\ \A y \in SessionIds \ {x} : session'[y] = session[y]
        /\ session'[x].state # "none" /\ session'[x].user = session[x].user
    <3>1. session[x] \in Sessions /\ session[x].state = "open"
      BY <1>1, <1>4 DEF Rotates, Expires, Open
    <3>2. \A t \in Tokens, b \in BOOLEAN :
            LET row == [session[x] EXCEPT !.refreshToken = t, !.expired = b] IN
            row \in Sessions /\ row.state = "open" /\ row.user = session[x].user
      BY <3>1 DEF Sessions
    <3>3. CASE Rotates(x)
      <4>1. PICK t \in Tokens :
              session' = [session EXCEPT ![x].refreshToken = t, ![x].expired = FALSE]
        BY <3>3 DEF Rotates
      <4>2. session'[x] = [session[x] EXCEPT !.refreshToken = t, !.expired = FALSE]
        BY <1>1, <4>1
      <4>3. session'[x] \in Sessions /\ session'[x].state = "open"
            /\ session'[x].user = session[x].user
        BY <3>2, <4>2
      <4> QED BY <1>1, <4>1, <4>3
    <3>4. CASE Expires(x)
      BY <1>1, <3>1, <3>4 DEF Expires, Sessions
    <3>5. CASE Open(x) /\ CloseSession(x)
      BY <1>1, <3>1, <3>5 DEF CloseSession, Sessions
    <3> QED BY <1>4, <3>3, <3>4, <3>5
  <2>2. session[x].state # "none"
    BY <1>4 DEF Rotates, Expires, Open
  <2> QED BY <1>1, <2>1, <2>2 DEF Rows
<1>5. ASSUME NEW e \in Emails, CloseAll(e)
      PROVE  /\ session' \in [SessionIds -> Sessions]
             /\ Rows'
             /\ \A y \in SessionIds :
                  (session[y].state = "none") <=> (session'[y].state = "none")
  <2>1. \A y \in SessionIds :
          \/ session'[y] = session[y]
          \/ /\ session[y].state # "none"
             /\ session'[y] = [session[y] EXCEPT !.state = "closed"]
    BY <1>5 DEF CloseAll, Open
  <2>2. \A y \in SessionIds :
          [session[y] EXCEPT !.state = "closed"] \in Sessions
    BY <1>1 DEF Sessions
  <2>3. session' \in [SessionIds -> Sessions]
    BY <1>1, <1>5, <2>2 DEF CloseAll
  <2>4. \A y \in SessionIds : [session[y] EXCEPT !.state = "closed"].user = session[y].user
                              /\ [session[y] EXCEPT !.state = "closed"].state = "closed"
    BY <1>1 DEF Sessions
  <2> QED BY <1>1, <2>1, <2>3, <2>4 DEF Rows
<1> QED BY <1>2, <1>3, <1>4, <1>5 DEF RowStep

LEMMA OutcomeKeeps ==
  ASSUME IInv, NEW w \in Workers, Outcome(w)
  PROVE  /\ session' \in [SessionIds -> Sessions]
         /\ request' \in [Workers -> Requests]
         /\ issued' \in SUBSET Tokens
         /\ \A v \in Workers : Shape(request'[v]) /\ Facts(request[v])'
         /\ Alone' /\ Rows' /\ Issued'
<1> PICK r \in Requests : Goto(w, r) /\ Shape(r) /\ Origin(w, r)
  BY DEF Outcome
<1>1. /\ request \in [Workers -> Requests]
      /\ \A v \in Workers : Shape(request[v]) /\ Facts(request[v])
      /\ issued \in SUBSET Tokens
  BY DEF IInv, TypeOK
<1>2. /\ request' \in [Workers -> Requests]
      /\ request'[w] = r
      /\ \A v \in Workers \ {w} : request'[v] = request[v]
  BY <1>1 DEF Goto
<1>3. \A v \in Workers : Shape(request'[v])
  BY <1>1, <1>2
<1>4. issued' \in SUBSET Tokens /\ Issued'
  <2>1. \A t \in Tokens : t.session \in SessionIds
    BY DEF Tokens
  <2>2. CASE UNCHANGED issued
    BY <1>1, <2>1, <2>2, RowStepKeeps DEF Outcome, Issued, IInv
  <2>3. CASE request[w].at = "answer" /\ issued' = issued \cup {request[w].token}
    <3>1. /\ request[w].token \in Tokens
          /\ session[request[w].token.session].state # "none"
      BY <1>1, <2>3 DEF Shape, Facts, Using
    <3> QED BY <1>1, <2>1, <2>3, <3>1, RowStepKeeps DEF Outcome, Issued, IInv
  <2> QED BY <2>2, <2>3 DEF Outcome
<1>5. \A v \in Workers : Facts(request[v])'
  <2> TAKE v \in Workers
  <2>1. CASE v = w
    BY <1>2, <1>3, <2>1, RowStepKeeps DEF Outcome, Facts, Origin, Shape, Reserving, Using, Fresh, IInv
  <2>2. CASE v # w
    BY <1>1, <1>2, <2>2, RowStepKeeps DEF Outcome, Facts, Shape, IInv, Alone, Reserving, Using
  <2> QED BY <2>1, <2>2
<1>6. Alone'
  <2> SUFFICES ASSUME NEW u \in Workers, NEW v \in Workers, u # v,
                      request'[u].at \in Reserving
               PROVE  request'[v].session # request'[u].session
    BY DEF Alone
  <2>1. CASE u # w /\ v # w
    BY <1>2, <2>1 DEF Alone, IInv
  <2>2. CASE u = w
    BY <1>1, <1>2, <2>2 DEF Origin, Fresh, Alone, IInv, Reserving, Using
  <2>3. CASE v = w
    <3>1. request[u].at \in Reserving /\ request'[u] = request[u]
      BY <1>2, <2>3
    <3>2. request[u].session \in SessionIds /\ session'[request[u].session].state = "none"
      BY <1>1, <1>5, <3>1 DEF Shape, Facts
    <3>3. CASE r.at \notin Reserving \cup Using
      BY <1>2, <2>3, <3>1, <3>2, <3>3, AuthNullAssumption DEF Shape
    <3>4. CASE r.at \in Using
      BY <1>2, <1>5, <2>3, <3>1, <3>2, <3>4 DEF Facts
    <3>5. CASE r.at \in Reserving
      BY <1>2, <2>3, <3>1, <3>5 DEF Origin, Fresh, Alone, IInv, Reserving, Using
    <3> QED BY <3>3, <3>4, <3>5
  <2> QED BY <2>1, <2>2, <2>3
<1> QED BY <1>2, <1>3, <1>4, <1>5, <1>6, RowStepKeeps DEF Outcome

-------------------------------------------------------------------------------
(* The outcome of each action *)

\* A request that ends, or that is refused.
LEMMA FinishOutcome ==
  ASSUME IInv, NEW w \in Workers, RowStep(w), Finish(w), UNCHANGED issued
  PROVE  Outcome(w)
<1>1. Origin(w, Idle)
  BY DEF Origin, Idle, Reserving, Using
<1> QED BY <1>1, IdleType DEF Outcome, Finish

LEMMA RefusedOutcome ==
  ASSUME IInv, NEW w \in Workers, request[w].at = "idle",
         RowStep(w), UNCHANGED <<request, issued>>
  PROVE  Outcome(w)
<1>1. request[w] \in Requests /\ Shape(request[w]) /\ Goto(w, request[w])
  BY DEF IInv, TypeOK, Goto
<1>2. Origin(w, request[w])
  BY DEF Origin, Reserving, Using
<1> QED BY <1>1, <1>2 DEF Outcome

\* A request that goes on to the next stage with its local variables.
LEMMA StepOutcome ==
  ASSUME IInv, NEW w \in Workers, NEW a \in Stages, Step(w, a),
         request[w].at # "idle",
         RowStep(w), UNCHANGED issued,
         \/ request[w].at \in Reserving \ {"session.create"} /\ a \in Reserving
         \/ /\ a \in Using \ {"token.store"}
            /\ request[w].session \in SessionIds
            /\ session'[request[w].session].state # "none"
            /\ a = "answer" => request[w].at = "token.store"
         \/ /\ request[w].at \notin Reserving \cup Using
            /\ a \notin Reserving \cup Using
            /\ a # "idle"
  PROVE  Outcome(w)
<1> DEFINE r == [request[w] EXCEPT !.at = a]
<1>1. request \in [Workers -> Requests] /\ Shape(request[w])
  BY DEF IInv, TypeOK
<1>2. r \in Requests /\ r.at = a /\ r.session = request[w].session
      /\ r.user = request[w].user /\ r.token = request[w].token
  BY <1>1 DEF Requests
<1>3. Goto(w, r)
  BY DEF Step, Goto
<1> HIDE DEF r
<1>4. Shape(r) /\ Origin(w, r)
  BY <1>1, <1>2 DEF Shape, Origin, Reserving, Using
<1> QED BY <1>3, <1>2, <1>4 DEF Outcome

\* A request on no session of its own.
LEMMA UserRequest ==
  ASSUME NEW w \in Workers, NEW r \in Requests, r.user \in Emails,
         r.at \in {"change.write", "reset.write", "reset.del", "drop", "logout.drop"},
         r.session = Null, Goto(w, r), UNCHANGED <<session, issued>>
  PROVE  Outcome(w)
BY DEF Outcome, RowStep, Shape, Origin, Reserving, Using

\* A logout that will delete the sessions of its caller.
LEMMA DropRequest ==
  ASSUME NEW w \in Workers, NEW e \in Emails,
         Goto(w, [Idle EXCEPT !.at = "logout.drop", !.user = e]),
         UNCHANGED <<session, issued>>
  PROVE  Outcome(w)
<1> DEFINE r == [Idle EXCEPT !.at = "logout.drop", !.user = e]
<1>1. Goto(w, r)
  OBVIOUS
<1>2. r \in Requests /\ r.at = "logout.drop" /\ r.user = e /\ r.session = Null
  BY DEF Idle, Requests, Stages
<1> HIDE DEF r
<1> QED BY <1>1, <1>2, UserRequest

LEMMA SessionsOutcome ==
  ASSUME IInv, NEW w \in Workers, SessionsNext(w) PROVE Outcome(w)
<1> DEFINE q == request[w]
<1>0. /\ q \in Requests /\ Shape(q) /\ Facts(q)
      /\ \A x \in SessionIds :
           /\ session[x] \in Sessions
           /\ session[x].state # "none" => session[x].user \in Emails
      /\ \A t \in issued : t \in Tokens /\ t.session \in SessionIds
                           /\ session[t.session].state # "none"
      /\ now \in 0 .. MaxTime
  BY DEF IInv, TypeOK, Rows, Issued, Tokens
\* A request that starts on the session it reserves or finds.
<1>1. ASSUME NEW r \in Requests, r.user \in Emails, r.session \in SessionIds,
             Goto(w, r), UNCHANGED <<session, issued>>,
             \/ r.at \in Reserving /\ Fresh(r.session)
             \/ r.at \in Using \ {"token.store", "answer"}
                  /\ session[r.session].state # "none"
      PROVE  Outcome(w)
  <2>1. Shape(r) /\ Origin(w, r)
    BY <1>1 DEF Shape, Origin, Reserving, Using
  <2> QED BY <1>1, <2>1 DEF Outcome, RowStep
<1>3. CASE RegisterFind(w)
  <2>1. CASE UNCHANGED request
    BY <1>3, <2>1, RefusedOutcome DEF RegisterFind, Takes, RowStep
  <2>2. ASSUME NEW e \in Emails, NEW x \in SessionIds, Fresh(x),
               Goto(w, [Idle EXCEPT !.at = "register.create", !.user = e,
                                    !.session = x, !.version = 1])
        PROVE  Outcome(w)
    <3>1. "register.create" \in Stages /\ "register.create" \in Reserving
      BY DEF Stages, Reserving
    <3> DEFINE r == [Idle EXCEPT !.at = "register.create", !.user = e,
                                !.session = x, !.version = 1]
    <3>4. Goto(w, r)
      BY <2>2
    <3>5. r \in Requests /\ r.at = "register.create" /\ r.user = e /\ r.session = x
      BY <2>2, <3>1 DEF Idle, Requests
    <3> HIDE DEF r
    <3> QED BY <1>1, <1>3, <2>2, <3>1, <3>4, <3>5 DEF RegisterFind
  <2> QED BY <1>3, <2>1, <2>2 DEF RegisterFind
<1>4. CASE RegisterCreate(w) \/ RegisterWallet(w)
  BY <1>4, StepOutcome, FinishOutcome
     DEF RegisterCreate, RegisterWallet, Stages, Reserving, RowStep
<1>5. CASE LoginCheck(w)
  <2>1. CASE UNCHANGED request
    BY <1>5, <2>1, RefusedOutcome DEF LoginCheck, Takes, RowStep
  <2>2. ASSUME NEW e \in Emails, NEW x \in SessionIds, Fresh(x),
               Goto(w, [Idle EXCEPT !.at = "login.find", !.user = e, !.session = x])
        PROVE  Outcome(w)
    <3>1. "login.find" \in Stages /\ "login.find" \in Reserving
      BY DEF Stages, Reserving
    <3> DEFINE r == [Idle EXCEPT !.at = "login.find", !.user = e, !.session = x]
    <3>4. Goto(w, r)
      BY <2>2
    <3>5. r \in Requests /\ r.at = "login.find" /\ r.user = e /\ r.session = x
      BY <2>2, <3>1 DEF Idle, Requests
    <3> HIDE DEF r
    <3> QED BY <1>1, <1>5, <2>2, <3>1, <3>4, <3>5 DEF LoginCheck
  <2> QED BY <1>5, <2>1, <2>2 DEF LoginCheck
<1>6. CASE LoginFind(w)
  <2>1. CASE Step(w, "login.incr")
    BY <1>6, <2>1, StepOutcome DEF LoginFind, Stages, Reserving, RowStep
  <2>2. CASE Goto(w, [q EXCEPT !.at = "login.del", !.version = account[q.user].version])
    <3>1. q.user \in Emails /\ q.at = "login.find"
      BY <1>0, <1>6 DEF LoginFind, Shape
    <3>2. account[q.user].version \in Nat
      BY <3>1, ValueTypes DEF Accounts
    <3> DEFINE r == [q EXCEPT !.at = "login.del", !.version = account[q.user].version]
    <3>3. r \in Requests /\ r.at = "login.del" /\ r.user = q.user /\ r.session = q.session
      BY <1>0, <3>2 DEF Requests, Stages
    <3> HIDE DEF r
    <3>4. Shape(r) /\ Origin(w, r)
      BY <1>0, <3>1, <3>3 DEF Shape, Origin, Reserving, Using
    <3> QED BY <1>6, <2>2, <3>3, <3>4 DEF Outcome, RowStep, LoginFind, r
  <2> QED BY <1>6, <2>1, <2>2 DEF LoginFind
<1>7. CASE LoginIncr(w) \/ LoginExpire(w) \/ LoginDel(w)
  BY <1>7, StepOutcome, FinishOutcome
     DEF LoginIncr, LoginExpire, LoginDel, Stages, Reserving, RowStep
<1>8. CASE SessionCreate(w)
  <2>1. q.at = "session.create" /\ q.session \in SessionIds /\ Opens(w)
    BY <1>0, <1>8 DEF SessionCreate, Opens, Shape, Reserving
  <2>2. session' = [session EXCEPT ![q.session] =
                      [NoSession EXCEPT !.state = "open", !.user = q.user,
                                        !.opened = q.version]]
    BY <1>8 DEF SessionCreate
  <2>3. session'[q.session].state = "open"
    BY <2>1, <2>2 DEF IInv, TypeOK, NoSession
  <2> QED BY <1>8, <2>1, <2>3, StepOutcome DEF SessionCreate, Stages, Using, RowStep
<1>9. CASE TokenSign(w)
  <2>1. q.session \in SessionIds /\ session[q.session].state # "none" /\ q.user \in Emails
    BY <1>0, <1>9 DEF TokenSign, Shape, Facts, Using
  <2> DEFINE t == [session |-> q.session, iat |-> now]
             r == [q EXCEPT !.at = "token.store", !.token = t]
  <2>2. t \in Tokens /\ t.session = q.session
    BY <1>0, <2>1 DEF Tokens
  <2> HIDE DEF t
  <2>3. r \in Requests /\ r.at = "token.store" /\ r.user = q.user
        /\ r.session = q.session /\ r.token = t
    BY <1>0, <2>2 DEF Requests, Stages
  <2>4. Goto(w, r)
    BY <1>9 DEF TokenSign, t
  <2> HIDE DEF r
  <2>5. Shape(r) /\ Origin(w, r)
    BY <1>9, <2>1, <2>2, <2>3 DEF TokenSign, Shape, Origin, Reserving, Using
  <2> QED BY <1>9, <2>3, <2>4, <2>5 DEF TokenSign, Outcome, RowStep
<1>10. CASE TokenStore(w)
  <2>1. /\ q.at = "token.store" /\ q.session \in SessionIds
        /\ q.token \in Tokens /\ q.token.session = q.session
        /\ session[q.session].state # "none"
    BY <1>0, <1>10 DEF TokenStore, Shape, Facts, Using
  <2>2. CASE ~Open(q.session)
    BY <1>10, <2>2, FinishOutcome DEF TokenStore, RowStep
  <2>3. CASE Open(q.session)
    <3>1. Rotates(q.session) /\ Step(w, "answer") /\ UNCHANGED issued
      BY <1>10, <2>1, <2>3 DEF TokenStore, Rotates
    <3>2. RowStep(w)
      BY <2>1, <3>1 DEF RowStep
    <3>3. session'[q.session].state # "none"
      BY <2>1, <3>2, RowStepKeeps
    <3> QED BY <2>1, <3>1, <3>2, <3>3, StepOutcome DEF Stages, Using
  <2> QED BY <2>2, <2>3
<1>11. CASE Answer(w)
  <2>1. Origin(w, Idle)
    BY DEF Origin, Idle, Reserving, Using
  <2> QED BY <1>11, <2>1, IdleType DEF Answer, Finish, Outcome, RowStep
<1>12. CASE RefreshFind(w)
  <2>1. CASE UNCHANGED request
    BY <1>12, <2>1, RefusedOutcome DEF RefreshFind, Takes, RowStep
  <2>2. ASSUME NEW t \in issued, Open(t.session), NEW a \in {"refresh.delete", "token.sign"},
               Goto(w, [Idle EXCEPT !.at = a, !.user = session[t.session].user,
                                    !.session = t.session])
        PROVE  Outcome(w)
    <3>2. a \in Stages /\ a \in Using \ {"token.store", "answer"}
      BY DEF Stages, Using
    <3>3. t.session \in SessionIds /\ session[t.session].user \in Emails
          /\ session[t.session].state # "none"
      BY <1>0, <2>2
    <3> DEFINE r == [Idle EXCEPT !.at = a, !.user = session[t.session].user,
                                !.session = t.session]
    <3>4. Goto(w, r)
      BY <2>2
    <3>5. r \in Requests /\ r.at = a /\ r.user = session[t.session].user /\ r.session = t.session
      BY <2>2, <3>2, <3>3 DEF Idle, Requests
    <3> HIDE DEF r
    <3> QED BY <1>1, <1>12, <2>2, <3>2, <3>3, <3>4, <3>5 DEF RefreshFind
  <2> QED BY <1>12, <2>1, <2>2 DEF RefreshFind
<1>13. CASE RefreshDelete(w)
  <2>1. q.session \in SessionIds
    BY <1>0, <1>13 DEF RefreshDelete, Shape, Using
  <2> QED BY <1>13, <2>1, FinishOutcome DEF RefreshDelete, RowStep
<1>14. CASE LogoutAll(w)
  BY <1>14, RefusedOutcome DEF LogoutAll, Takes, RowStep
<1>15. CASE LogoutOne(w)
  <2>1. PICK e \in Emails, t \in issued :
          \/ /\ Open(t.session)
             /\ CloseSession(t.session)
             /\ UNCHANGED request
          \/ /\ Goto(w, [Idle EXCEPT !.at = "logout.drop", !.user = e])
             /\ UNCHANGED session
    BY <1>15 DEF LogoutOne
  <2>2. CASE Open(t.session) /\ CloseSession(t.session) /\ UNCHANGED request
    BY <1>0, <1>15, <2>2, RefusedOutcome DEF LogoutOne, Takes, RowStep
  <2>3. CASE /\ Goto(w, [Idle EXCEPT !.at = "logout.drop", !.user = e])
             /\ UNCHANGED session
    BY <1>15, <2>3, DropRequest DEF LogoutOne
  <2> QED BY <2>1, <2>2, <2>3
<1> QED BY <1>3, <1>4, <1>5, <1>6, <1>7, <1>8, <1>9, <1>10, <1>11, <1>12,
           <1>13, <1>14, <1>15 DEF SessionsNext

LEMMA PasswordsOutcome ==
  ASSUME IInv, NEW w \in Workers, PasswordsNext(w) PROVE Outcome(w)
<1> DEFINE q == request[w]
<1>0. q \in Requests /\ Shape(q)
  BY DEF IInv, TypeOK
<1>1. CASE ChangeFind(w)
  <2>1. CASE UNCHANGED request
    BY <1>1, <2>1, RefusedOutcome DEF ChangeFind, Takes, RowStep
  <2>2. ASSUME NEW e \in Emails,
               Goto(w, [Idle EXCEPT !.at = "change.write", !.user = e])
        PROVE  Outcome(w)
    <3> DEFINE r == [Idle EXCEPT !.at = "change.write", !.user = e]
    <3>1. Goto(w, r)
      BY <2>2
    <3>2. r \in Requests /\ r.at = "change.write" /\ r.user = e /\ r.session = Null
      BY DEF Idle, Requests, Stages
    <3> HIDE DEF r
    <3> QED BY <1>1, <3>1, <3>2, UserRequest DEF ChangeFind
  <2> QED BY <1>1, <2>1, <2>2 DEF ChangeFind
<1>2. CASE ChangeWrite(w) \/ ResetWrite(w) \/ ResetDel(w)
  BY <1>2, StepOutcome
     DEF ChangeWrite, ResetWrite, ResetDel, Stages, Reserving, Using, RowStep
<1>3. CASE Forgot(w)
  BY <1>3, RefusedOutcome DEF Forgot, Takes, RowStep
<1>4. CASE ResetFind(w)
  <2>1. CASE UNCHANGED request
    BY <1>4, <2>1, RefusedOutcome DEF ResetFind, Takes, RowStep
  <2>2. ASSUME NEW t \in ResetTokens, reset[t].state = "live",
               Goto(w, [Idle EXCEPT !.at = "reset.write", !.user = reset[t].user,
                                    !.resetToken = t])
        PROVE  Outcome(w)
    <3> DEFINE r == [Idle EXCEPT !.at = "reset.write", !.user = reset[t].user,
                                 !.resetToken = t]
    <3>0. reset[t].user \in Emails
      BY <2>2 DEF IInv, Sent
    <3>1. Goto(w, r)
      BY <2>2
    <3>2. r \in Requests /\ r.at = "reset.write" /\ r.user \in Emails /\ r.session = Null
      BY <3>0 DEF Idle, Requests, Stages
    <3> HIDE DEF r
    <3> QED BY <1>4, <3>1, <3>2, UserRequest DEF ResetFind
  <2> QED BY <1>4, <2>1, <2>2 DEF ResetFind
<1>5. CASE DropSessions(w)
  <2>1. q.user \in Emails
    BY <1>0, <1>5 DEF DropSessions, Shape
  <2> QED BY <1>5, <2>1, FinishOutcome DEF DropSessions, RowStep
<1> QED BY <1>1, <1>2, <1>3, <1>4, <1>5 DEF PasswordsNext

\* A call that fails.
LEMMA FailureOutcome ==
  ASSUME IInv, NEW w \in Workers, Fail(w) \/ LogoutFails(w) PROVE Outcome(w)
<1>1. CASE Fail(w)
  BY <1>1, FinishOutcome DEF Fail, RowStep
<1>2. CASE LogoutFails(w)
  BY <1>2, DropRequest DEF LogoutFails
<1> QED BY <1>1, <1>2

\* What a step leaves of the rows and requests, whoever takes it.
LEMMA NextOutcome ==
  ASSUME IInv, Next
  PROVE  \/ \E w \in Workers : Outcome(w)
         \/ /\ UNCHANGED <<request, issued>>
            /\ UNCHANGED session \/ \E x \in SessionIds : Expires(x)
<1>1. CASE Time
  BY <1>1 DEF Time, Tick, ExpireAttempts, ExpireReset, ExpireSession, Expires
<1>2. CASE \E w \in Workers : Serve(w)
  BY <1>2, SessionsOutcome, PasswordsOutcome DEF Serve
<1>3. CASE \E w \in Workers : Fail(w) \/ LogoutFails(w)
  BY <1>3, FailureOutcome
<1> QED BY <1>1, <1>2, <1>3 DEF Next, CalmNext

-------------------------------------------------------------------------------
(* Users, counters and reset tokens *)

\* The insert of a user, by a registration whose email has none.
Registers(w) ==
  /\ request[w].at = "register.create" /\ ~Registered(request[w].user)
  /\ WritePassword(request[w].user)
  /\ Step(w, "register.wallet")

\* A step writes one column of one account, the counter or the token of one
\* key, or none.
AccountStep ==
  \/ UNCHANGED account
  \/ \E w \in Workers :
       Registers(w) \/ RegisterWallet(w) \/ ChangeWrite(w) \/ ResetWrite(w)

AttemptsStep ==
  \/ UNCHANGED attempts
  \/ \E w \in Workers : LoginIncr(w) \/ LoginExpire(w) \/ LoginDel(w)
  \/ \E e \in Emails : ExpireAttempts(e)

ResetStep ==
  \/ UNCHANGED reset
  \/ \E w \in Workers : Forgot(w) \/ ResetDel(w)
  \/ \E t \in ResetTokens : ExpireReset(t)

LEMMA NextEffects ==
  ASSUME Next
  PROVE  AccountStep /\ AttemptsStep /\ ResetStep /\ now' \in {now, now + 1}
         /\ (now' # now => now < MaxTime)
<1>1. CASE Time
  BY <1>1 DEF Time, Tick, ExpireAttempts, ExpireReset, ExpireSession,
              AccountStep, AttemptsStep, ResetStep
<1>2. ASSUME NEW w \in Workers, SessionsNext(w)
      PROVE  AccountStep /\ AttemptsStep /\ UNCHANGED <<reset, now>>
  <2>1. CASE RegisterFind(w) \/ RegisterCreate(w) \/ RegisterWallet(w)
    BY <2>1 DEF RegisterFind, RegisterCreate, Registers, RegisterWallet, AccountStep,
                AttemptsStep
  <2>2. CASE LoginCheck(w) \/ LoginFind(w) \/ LoginIncr(w) \/ LoginExpire(w) \/ LoginDel(w)
    BY <2>2 DEF LoginCheck, LoginFind, LoginIncr, LoginExpire, LoginDel,
                AccountStep, AttemptsStep
  <2>3. CASE SessionCreate(w) \/ TokenSign(w) \/ TokenStore(w) \/ Answer(w)
    BY <2>3 DEF SessionCreate, TokenSign, TokenStore, Answer, AccountStep, AttemptsStep
  <2>4. CASE RefreshFind(w) \/ RefreshDelete(w) \/ LogoutAll(w) \/ LogoutOne(w)
    BY <2>4 DEF RefreshFind, RefreshDelete, LogoutAll, LogoutOne, AccountStep, AttemptsStep
  <2> QED BY <1>2, <2>1, <2>2, <2>3, <2>4 DEF SessionsNext
<1>3. ASSUME NEW w \in Workers, PasswordsNext(w)
      PROVE  AccountStep /\ ResetStep /\ UNCHANGED <<attempts, now>>
  BY <1>3 DEF PasswordsNext, ChangeFind, ChangeWrite, Forgot, ResetFind, ResetWrite,
              ResetDel, DropSessions, AccountStep, ResetStep
<1>4. CASE \E w \in Workers : Serve(w)
  BY <1>2, <1>3, <1>4 DEF Serve, AttemptsStep, ResetStep
<1>5. CASE \E w \in Workers : Fail(w) \/ LogoutFails(w)
  BY <1>5 DEF Fail, LogoutFails, AccountStep, AttemptsStep, ResetStep
<1> QED BY <1>1, <1>4, <1>5 DEF Next, CalmNext

LEMMA OtherTypes ==
  ASSUME IInv, Next
  PROVE  /\ account' \in [Emails -> Accounts]
         /\ attempts' \in [Emails -> Counters]
         /\ reset' \in [ResetTokens -> Resets]
         /\ now' \in 0 .. MaxTime
         /\ Sent'
<1>1. /\ account \in [Emails -> Accounts] /\ attempts \in [Emails -> Counters]
      /\ reset \in [ResetTokens -> Resets] /\ now \in 0 .. MaxTime /\ Sent
  BY DEF IInv, TypeOK
<1>2. account' \in [Emails -> Accounts]
  <2>2. ASSUME NEW e, WritePassword(e) PROVE account' \in [Emails -> Accounts]
    <3> DEFINE n == account[e].version + 1
    <3>1. account' = [account EXCEPT ![e].version = n]
      BY <2>2 DEF WritePassword
    <3>2. e \in Emails => n \in Nat
      BY <1>1 DEF Accounts
    <3> HIDE DEF n
    <3> QED BY <1>1, <3>1, <3>2 DEF Accounts
  <2>3. ASSUME NEW e, account' = [account EXCEPT ![e].wallet = TRUE]
        PROVE  account' \in [Emails -> Accounts]
    BY <1>1, <2>3 DEF Accounts
  <2> QED BY <1>1, <2>2, <2>3, NextEffects
          DEF AccountStep, Registers, RegisterWallet, ChangeWrite, ResetWrite
<1>3. attempts' \in [Emails -> Counters]
  <2>1. ASSUME NEW w \in Workers, LoginIncr(w) PROVE attempts' \in [Emails -> Counters]
    <3> DEFINE e == request[w].user
               n == attempts[e].count + 1
    <3>1. attempts' = [attempts EXCEPT ![e].count = n]
      BY <2>1 DEF LoginIncr
    <3>2. e \in Emails => n \in Nat
      BY <1>1 DEF Counters
    <3> HIDE DEF n, e
    <3> QED BY <1>1, <3>1, <3>2 DEF Counters
  <2>2. ASSUME NEW e, NEW b \in BOOLEAN, attempts' = [attempts EXCEPT ![e].ttl = b]
        PROVE  attempts' \in [Emails -> Counters]
    BY <1>1, <2>2 DEF Counters
  <2>3. ASSUME NEW e, attempts' = [attempts EXCEPT ![e] = NoKey]
        PROVE  attempts' \in [Emails -> Counters]
    BY <1>1, <2>3 DEF Counters, NoKey
  <2>4. ASSUME NEW w \in Workers, LoginExpire(w) PROVE attempts' \in [Emails -> Counters]
    <3>1. (attempts[request[w].user].count > 0) \in BOOLEAN
      OBVIOUS
    <3> QED BY <2>2, <2>4, <3>1 DEF LoginExpire
  <2> QED BY <1>1, <2>1, <2>3, <2>4, NextEffects DEF AttemptsStep, LoginDel, ExpireAttempts
<1>4. reset' \in [ResetTokens -> Resets] /\ Sent'
  <2>1. CASE UNCHANGED reset
    BY <1>1, <2>1 DEF Sent
  <2>2. CASE \E w \in Workers : Forgot(w)
    BY <1>1, <2>2 DEF Forgot, Resets, Sent
  <2>3. ASSUME NEW t, reset' = [reset EXCEPT ![t].state = "gone"]
        PROVE  reset' \in [ResetTokens -> Resets] /\ Sent'
    BY <1>1, <2>3 DEF Resets, Sent
  <2> QED BY <2>1, <2>2, <2>3, NextEffects DEF ResetStep, ResetDel, ExpireReset
<1>5. now' \in 0 .. MaxTime
  BY <1>1, NextEffects, AuthAssumption
<1> QED BY <1>2, <1>3, <1>4, <1>5

-------------------------------------------------------------------------------
(* The invariant *)

LEMMA InvariantInit == Init => IInv
<1> SUFFICES ASSUME Init PROVE IInv
  OBVIOUS
<1>1. TypeOK
  BY AuthAssumption, IdleType
     DEF Init, TypeOK, NoAccount, Accounts, NoSession, Sessions, NoKey, Counters, Resets
<1>2. \A w \in Workers : Shape(request[w]) /\ Facts(request[w]) /\ request[w].at = "idle"
  BY IdleType DEF Init, Idle, Facts, Reserving, Using
<1>3. Alone
  BY <1>2 DEF Alone, Reserving
<1>4. Rows /\ Issued /\ Sent
  BY DEF Init, Rows, Issued, Sent, NoSession
<1> QED BY <1>1, <1>2, <1>3, <1>4 DEF IInv

LEMMA InvariantStep == IInv /\ [Next]_vars => IInv'
<1> SUFFICES ASSUME IInv, [Next]_vars PROVE IInv'
  OBVIOUS
<1>1. CASE UNCHANGED vars
  BY <1>1 DEF vars, IInv, TypeOK, Shape, Facts, Alone, Rows, Issued, Sent
<1>2. CASE Next
  <2>1. CASE \E w \in Workers : Outcome(w)
    BY <1>2, <2>1, OutcomeKeeps, OtherTypes DEF IInv, TypeOK
  <2>2. CASE UNCHANGED <<session, request, issued>>
    BY <1>2, <2>2, OtherTypes DEF IInv, TypeOK, Facts, Alone, Rows, Issued
  <2>3. ASSUME NEW x \in SessionIds, Expires(x), UNCHANGED <<request, issued>>
        PROVE  IInv'
    <3>1. /\ session' \in [SessionIds -> Sessions] /\ Rows'
          /\ \A y \in SessionIds :
               (session[y].state = "none") <=> (session'[y].state = "none")
      <4>1. session \in [SessionIds -> Sessions] /\ Rows
        BY DEF IInv, TypeOK
      <4>2. session'[x] = [session[x] EXCEPT !.expired = TRUE]
            /\ session[x].state = "open"
        BY <4>1, <2>3 DEF Expires, Open
      <4>3. session'[x] \in Sessions /\ session'[x].state = "open"
            /\ session'[x].user = session[x].user
        BY <4>1, <4>2 DEF Sessions
      <4> QED BY <2>3, <4>1, <4>2, <4>3 DEF Expires, Rows
    <3>2. \A w \in Workers : Shape(request'[w]) /\ Facts(request[w])'
      BY <2>3, <3>1 DEF IInv, Shape, Facts, Reserving, Using
    <3>3. Alone' /\ Issued'
      BY <2>3, <3>1 DEF IInv, TypeOK, Alone, Issued, Tokens
    <3> QED BY <1>2, <2>3, <3>1, <3>2, <3>3, OtherTypes DEF IInv, TypeOK
  <2> QED BY <1>2, <2>1, <2>2, <2>3, NextOutcome
<1> QED BY <1>1, <1>2

LEMMA InvariantHolds == Spec => []IInv
BY InvariantInit, InvariantStep, PTL DEF Spec

-------------------------------------------------------------------------------
(* Theorems *)

\* Users, sessions, counters, tokens and requests keep their types, whatever
\* requests overlap and whichever calls fail (AuthService).
THEOREM AuthTypeCorrect == Spec => []TypeOK
BY InvariantHolds, PTL DEF IInv

\* A password is written by a registration, a change or a reset of its user,
\* once by each.
LEMMA VersionStep ==
  ASSUME IInv, Next, NEW e \in Emails, account'[e].version # account[e].version
  PROVE  /\ account'[e].version = account[e].version + 1
         /\ \E w \in Workers : /\ Registers(w) \/ ChangeWrite(w) \/ ResetWrite(w)
                               /\ request[w].user = e
<1>1. account \in [Emails -> Accounts]
  BY DEF IInv, TypeOK
<1>2. ASSUME NEW u, account' = [account EXCEPT ![u].wallet = TRUE] PROVE FALSE
  BY <1>1, <1>2 DEF Accounts
<1>3. PICK w \in Workers : Registers(w) \/ ChangeWrite(w) \/ ResetWrite(w)
  BY <1>2, NextEffects DEF AccountStep, RegisterWallet
<1>4. WritePassword(request[w].user)
  BY <1>3 DEF Registers, ChangeWrite, ResetWrite
<1>5. request[w].user = e /\ account'[e].version = account[e].version + 1
  BY <1>1, <1>4 DEF WritePassword, Accounts
<1> QED BY <1>3, <1>5

\* What an effect on the rows is in the life of sessions.
LEMMA LifeStep ==
  ASSUME IInv, NEW w \in Workers, RowStep(w)
  PROVE  [L!LifeNext]_(L!life)
<1> DEFINE phase == [x \in SessionIds |-> session[x].state]
           owner == [x \in SessionIds |-> session[x].user]
           token == [x \in SessionIds |-> session[x].refreshToken]
<1>0. session \in [SessionIds -> Sessions] /\ Rows
  BY DEF IInv, TypeOK
<1>1. CASE UNCHANGED session
  BY <1>1 DEF L!life
<1>2. CASE Opens(w)
  <2>1. PICK x \in SessionIds, e \in Emails :
          x = request[w].session /\ e = request[w].user /\ session[x] = NoSession
    BY <1>2 DEF Opens, IInv, Shape, Facts, Rows, Reserving
  <2>2. /\ \A y \in SessionIds \ {x} : session'[y] = session[y]
        /\ session'[x].state = "open" /\ session'[x].user = e
        /\ session'[x].refreshToken = session[x].refreshToken
        /\ session[x].state = "none"
    BY <1>0, <1>2, <2>1 DEF Opens, NoSession
  <2>3. L!OpenFor(x, e)
    BY <2>1, <2>2 DEF L!OpenFor
  <2> QED BY <2>1, <2>3 DEF L!LifeNext
<1>3. ASSUME NEW x \in SessionIds, Rotates(x) PROVE L!LifeNext
  <2>1. PICK t \in Tokens :
          t.session = x
          /\ session' = [session EXCEPT ![x].refreshToken = t, ![x].expired = FALSE]
    BY <1>3 DEF Rotates
  <2>2. session'[x] = [session[x] EXCEPT !.refreshToken = t, !.expired = FALSE]
        /\ session[x] \in Sessions
    BY <1>0, <2>1
  <2>3. /\ \A y \in SessionIds \ {x} : session'[y] = session[y]
        /\ session'[x].state = session[x].state /\ session[x].state = "open"
        /\ session'[x].user = session[x].user /\ session'[x].refreshToken = t
    BY <1>0, <1>3, <2>1, <2>2 DEF Rotates, Open, Sessions
  <2>4. /\ [y \in SessionIds |-> session'[y].refreshToken] = [token EXCEPT ![x] = t]
        /\ [y \in SessionIds |-> session'[y].state] = phase
        /\ [y \in SessionIds |-> session'[y].user] = owner
        /\ phase[x] = "open"
    BY <2>3
  <2>5. L!Rotate(x, t)
    BY <2>1, <2>4 DEF L!Rotate
  <2> QED BY <2>5 DEF L!LifeNext
<1>4. ASSUME NEW x \in SessionIds, Expires(x) PROVE UNCHANGED L!life
  <2>1. session'[x] = [session[x] EXCEPT !.expired = TRUE] /\ session[x] \in Sessions
        /\ \A y \in SessionIds \ {x} : session'[y] = session[y]
    BY <1>0, <1>4 DEF Expires
  <2>2. \A y \in SessionIds :
          /\ session'[y].state = session[y].state
          /\ session'[y].user = session[y].user
          /\ session'[y].refreshToken = session[y].refreshToken
    BY <2>1 DEF Sessions
  <2> QED BY <2>2 DEF L!life
<1>5. ASSUME NEW X \in SUBSET SessionIds,
             \A y \in SessionIds \ X : session'[y] = session[y],
             \A y \in X : session'[y] = [session[y] EXCEPT !.state = "closed"]
      PROVE  L!Close(X)
  <2>1. \A y \in SessionIds :
          /\ session'[y].state = IF y \in X THEN "closed" ELSE session[y].state
          /\ session'[y].user = session[y].user
          /\ session'[y].refreshToken = session[y].refreshToken
    <3> TAKE y \in SessionIds
    <3>1. session[y] \in Sessions
      BY <1>0
    <3>2. CASE y \in X
      <4>1. session'[y] = [session[y] EXCEPT !.state = "closed"]
        BY <1>5, <3>2
      <4> QED BY <3>1, <3>2, <4>1 DEF Sessions
    <3>3. CASE y \notin X
      BY <1>5, <3>3
    <3> QED BY <3>2, <3>3
  <2> QED BY <2>1 DEF L!Close
<1>6. ASSUME NEW x \in SessionIds, Open(x), CloseSession(x) PROVE L!LifeNext
  <2>1. session[x].user \in Emails /\ x \in L!OpenOf(session[x].user)
    BY <1>0, <1>6 DEF Rows, Open, L!OpenOf
  <2>2. L!Close({x})
    BY <1>0, <1>5, <1>6 DEF CloseSession
  <2> QED BY <2>1, <2>2 DEF L!LifeNext
<1>7. ASSUME NEW e \in Emails, CloseAll(e) PROVE L!LifeNext
  <2>1. PICK X \in SUBSET SessionIds :
          X = L!OpenOf(e) /\ X = {x \in SessionIds : Open(x) /\ session[x].user = e}
    BY DEF L!OpenOf, Open
  <2>2. /\ \A y \in SessionIds \ X : session'[y] = session[y]
        /\ \A y \in X : session'[y] = [session[y] EXCEPT !.state = "closed"]
    BY <1>7, <2>1 DEF CloseAll
  <2>3. L!Close(X)
    BY <1>5, <2>2
  <2>4. \E u \in Emails : L!Close(L!OpenOf(u))
    BY <2>1, <2>3 DEF L!Close
  <2> QED BY <2>4 DEF L!LifeNext
<1> QED BY <1>1, <1>2, <1>3, <1>4, <1>6, <1>7 DEF RowStep

\* The handlers implement the life of a session (AuthService): opened once,
\* given only its own tokens, and closed for good, whoever overlaps with whom.
THEOREM LifeCorrect == Spec => Life
<1>1. Init => L!LifeInit
  BY DEF Init, NoSession, L!LifeInit
<1>2. IInv /\ [Next]_vars => [L!LifeNext]_(L!life)
  <2> SUFFICES ASSUME IInv, [Next]_vars PROVE [L!LifeNext]_(L!life)
    OBVIOUS
  <2>1. CASE UNCHANGED session
    BY <2>1 DEF L!life
  <2>2. CASE \E w \in Workers : Outcome(w)
    BY <2>2, LifeStep DEF Outcome
  <2>3. ASSUME NEW x \in SessionIds, Expires(x) PROVE UNCHANGED L!life
    <3>1. session \in [SessionIds -> Sessions]
      BY DEF IInv, TypeOK
    <3>2. session'[x] = [session[x] EXCEPT !.expired = TRUE] /\ session[x] \in Sessions
          /\ \A y \in SessionIds \ {x} : session'[y] = session[y]
      BY <3>1, <2>3 DEF Expires
    <3>3. \A y \in SessionIds :
            /\ session'[y].state = session[y].state
            /\ session'[y].user = session[y].user
            /\ session'[y].refreshToken = session[y].refreshToken
      BY <3>2 DEF Sessions
    <3> QED BY <3>3 DEF L!life
  <2> QED BY <2>1, <2>2, <2>3, NextOutcome DEF vars
<1> QED BY <1>1, <1>2, InvariantHolds, PTL DEF Spec, Life, L!Spec

===============================================================================

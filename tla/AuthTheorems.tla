----------------------------- MODULE AuthTheorems ------------------------------
(***************************************************************************)
(* Theorems about Auth that need an invariant of their own on top of the   *)
(* one of AuthProofs: the bound on failed attempts, which counts the       *)
(* attempts under way; who writes a password, which needs what a request   *)
(* was let in with; and what holds when no call fails.                     *)
(***************************************************************************)
EXTENDS AuthProofs

\* A step of a worker leaves the requests of the others alone.
LEMMA OthersWait ==
  ASSUME IInv, NEW w \in Workers, Outcome(w), NEW v \in Workers \ {w}
  PROVE  request'[v] = request[v]
BY DEF Outcome, Goto, IInv, TypeOK

-------------------------------------------------------------------------------
(* Failed attempts *)

\* The requests that passed the check and have not been counted or cleared.
Trying(e) ==
  {w \in Workers : /\ request[w].at \in {"login.find", "login.incr"}
                   /\ request[w].user = e}

Attempted ==
  \A e \in Emails :
    attempts[e].count + Cardinality(Trying(e))
      < LOCKOUT_MAX_ATTEMPTS + Cardinality(Workers)

LEMMA TryingFinite ==
  ASSUME NEW e
  PROVE  /\ IsFiniteSet(Trying(e)) /\ Cardinality(Trying(e)) \in Nat
         /\ Cardinality(Trying(e)) <= Cardinality(Workers)
         /\ Cardinality(Workers) \in Nat
<1>1. IsFiniteSet(Workers) /\ Trying(e) \in SUBSET Workers
  BY AuthAssumption DEF Trying
<1> QED BY <1>1, FS_Subset, FS_CardinalityType

\* A request that a step leaves out of a trying stage, or in one with its user.
LEMMA TryingShrinks ==
  ASSUME IInv, NEW w \in Workers, Outcome(w), NEW e \in Emails,
         request'[w].at \in {"login.find", "login.incr"} =>
           /\ request[w].at \in {"login.find", "login.incr"}
           /\ request'[w].user = request[w].user
  PROVE  Trying(e)' \subseteq Trying(e)
BY OthersWait DEF Trying

\* The stage a step leads to: a trying one is entered by login only, a password
\* is about to be written by those who found the user, and so on.
LEMMA StageAfter ==
  ASSUME IInv, NEW w \in Workers,
         SessionsNext(w) \/ PasswordsNext(w) \/ Fail(w) \/ LogoutFails(w)
  PROVE  /\ request'[w].at \in {"login.find", "login.incr"} =>
              LoginCheck(w) \/ LoginFind(w)
         /\ request'[w].at \in {"change.write", "reset.write"} =>
              ChangeFind(w) \/ ResetFind(w)
         /\ request'[w].at = "reset.del" => ResetWrite(w)
         /\ request'[w].at = "register.create" => RegisterFind(w)
         /\ request'[w].at \in Compared =>
              RegisterCreate(w) \/ RegisterWallet(w) \/ LoginFind(w) \/ LoginDel(w)
<1> DEFINE Trial == {"login.find", "login.incr", "change.write", "reset.write",
                     "reset.del", "register.create", "register.wallet", "login.del",
                     "session.create"}
<1> USE DEF Compared
<1>0. request \in [Workers -> Requests] /\ request[w] \in Requests
  BY DEF IInv, TypeOK
<1>1. ASSUME NEW a, a \notin Trial, Step(w, a) PROVE request'[w].at \notin Trial
  BY <1>0, <1>1 DEF Step, Requests
<1>2. ASSUME Finish(w) PROVE request'[w].at \notin Trial
  BY <1>0, <1>2 DEF Finish, Goto, Idle
<1>3. ASSUME UNCHANGED request, request[w].at \notin Trial
      PROVE  request'[w].at \notin Trial
  BY <1>3
<1>4. ASSUME NEW r, r.at \notin Trial, Goto(w, r) PROVE request'[w].at \notin Trial
  BY <1>0, <1>4 DEF Goto
<1>5. CASE RegisterFind(w)
  <2>1. request'[w].at \in {"idle", "register.create"}
    BY <1>0, <1>5 DEF RegisterFind, Takes, Goto, Idle
  <2> QED BY <1>5, <2>1
<1>6. CASE LoginIncr(w) \/ LoginExpire(w) \/ SessionCreate(w) \/ TokenStore(w)
             \/ Answer(w) \/ RefreshDelete(w)
  BY <1>1, <1>2, <1>6
     DEF LoginIncr, LoginExpire, SessionCreate, TokenStore, Answer, RefreshDelete
<1>7. CASE TokenSign(w)
  BY <1>0, <1>4, <1>7 DEF TokenSign, Requests
<1>8. CASE RefreshFind(w)
  BY <1>3, <1>4, <1>8 DEF RefreshFind, Takes, Idle
<1>9. CASE LogoutAll(w) \/ Forgot(w)
  BY <1>3, <1>9 DEF LogoutAll, Forgot, Takes
<1>10. CASE LogoutOne(w) \/ LogoutFails(w)
  BY <1>3, <1>4, <1>10 DEF LogoutOne, LogoutFails, Takes, Idle
<1>11. CASE LoginCheck(w) \/ LoginFind(w)
  <2>1. ASSUME LoginCheck(w) PROVE request'[w].at \in {"idle", "login.find"}
    BY <1>0, <2>1 DEF LoginCheck, Takes, Goto, Idle
  <2>2. ASSUME LoginFind(w) PROVE request'[w].at \in {"login.del", "login.incr"}
    BY <1>0, <2>2 DEF LoginFind, Goto, Step, Requests
  <2> QED BY <1>11, <2>1, <2>2
<1>12. CASE ChangeFind(w) \/ ResetFind(w)
  BY <1>0, <1>12 DEF ChangeFind, ResetFind, Takes, Goto, Idle
<1>13. CASE ChangeWrite(w) \/ ResetDel(w) \/ DropSessions(w) \/ Fail(w)
  BY <1>1, <1>2, <1>13 DEF ChangeWrite, ResetDel, DropSessions, Fail
<1>14. CASE RegisterCreate(w) \/ RegisterWallet(w) \/ LoginDel(w) \/ ResetWrite(w)
  <2>1. \/ Finish(w)
        \/ request'[w].at \in {"register.wallet", "session.create"} /\ ~ResetWrite(w)
        \/ request'[w].at = "reset.del" /\ ResetWrite(w)
    BY <1>0, <1>14 DEF RegisterCreate, RegisterWallet, LoginDel, ResetWrite, Step, Requests
  <2> QED BY <1>2, <1>14, <2>1
<1> QED BY <1>5, <1>6, <1>7, <1>8, <1>9, <1>10, <1>11, <1>12, <1>13, <1>14
        DEF SessionsNext, PasswordsNext

\* What a step does to the attempts of an email.
LEMMA AttemptEffects ==
  ASSUME IInv, Next, NEW e \in Emails
  PROVE  \/ /\ attempts'[e].count <= attempts[e].count
            /\ Trying(e)' \subseteq Trying(e)
         \/ attempts' = attempts /\ attempts[e].count < LOCKOUT_MAX_ATTEMPTS
         \/ \E w \in Trying(e) : /\ attempts'[e].count = attempts[e].count + 1
                                 /\ Trying(e)' \subseteq Trying(e) \ {w}
<1>0. /\ attempts \in [Emails -> Counters] /\ request \in [Workers -> Requests]
      /\ attempts[e].count \in Nat
      /\ \A w \in Workers : Shape(request[w])
  BY DEF IInv, TypeOK, Counters
<1>1. CASE Time
  <2>1. UNCHANGED request
    BY <1>1 DEF Time, Tick, ExpireAttempts, ExpireReset, ExpireSession
  <2>2. attempts'[e].count <= attempts[e].count
    <3>1. CASE UNCHANGED attempts
      BY <1>0, <3>1
    <3>2. ASSUME NEW u \in Emails, ExpireAttempts(u)
          PROVE  attempts'[e].count <= attempts[e].count
      BY <1>0, <3>2 DEF ExpireAttempts, NoKey
    <3> QED BY <1>1, <3>1, <3>2 DEF Time, Tick, ExpireReset, ExpireSession
  <2> QED BY <2>1, <2>2 DEF Trying
<1>2. ASSUME NEW w \in Workers, Outcome(w), attempts'[e].count <= attempts[e].count,
             request'[w].at \in {"login.find", "login.incr"} =>
               /\ request[w].at \in {"login.find", "login.incr"}
               /\ request'[w].user = request[w].user
      PROVE  /\ attempts'[e].count <= attempts[e].count
             /\ Trying(e)' \subseteq Trying(e)
  BY <1>2, TryingShrinks
<1>3. ASSUME NEW w \in Workers, LoginCheck(w), Outcome(w)
      PROVE  \/ Trying(e)' \subseteq Trying(e) /\ UNCHANGED attempts
             \/ UNCHANGED attempts /\ attempts[e].count < LOCKOUT_MAX_ATTEMPTS
  <2>1. CASE UNCHANGED request
    BY <1>3, <2>1 DEF LoginCheck, Trying
  <2>2. ASSUME NEW u \in Emails, NEW x \in SessionIds, ~Locked(u),
               Goto(w, [Idle EXCEPT !.at = "login.find", !.user = u, !.session = x])
        PROVE  \/ Trying(e)' \subseteq Trying(e)
               \/ attempts[e].count < LOCKOUT_MAX_ATTEMPTS
    <3>1. request'[w].user = u
      BY <1>0, <2>2 DEF Goto, Idle
    <3>2. CASE u = e
      BY <1>0, <2>2, <3>2, AuthAssumption DEF Locked
    <3>3. CASE u # e
      BY <1>3, <3>1, <3>3, OthersWait DEF Trying
    <3> QED BY <3>2, <3>3
  <2> QED BY <1>3, <2>1, <2>2 DEF LoginCheck
<1>4. ASSUME NEW w \in Workers, LoginFind(w), Outcome(w)
      PROVE  Trying(e)' \subseteq Trying(e) /\ UNCHANGED attempts
  <2>1. request[w].at = "login.find" /\ UNCHANGED attempts
    BY <1>4 DEF LoginFind
  <2>2. request'[w].user = request[w].user
    BY <1>0, <1>4 DEF LoginFind, Step, Goto, Requests
  <2> QED BY <1>4, <2>1, <2>2, TryingShrinks
<1>5. ASSUME NEW w \in Workers, LoginIncr(w), Outcome(w)
      PROVE  \/ Trying(e)' \subseteq Trying(e) /\ attempts'[e] = attempts[e]
             \/ /\ w \in Trying(e) /\ attempts'[e].count = attempts[e].count + 1
                /\ Trying(e)' \subseteq Trying(e) \ {w}
  <2>1. request'[w].at \notin {"login.find", "login.incr"}
    BY <1>5, StageAfter DEF LoginIncr, LoginCheck, LoginFind, Takes, SessionsNext
  <2>2. Trying(e)' \subseteq Trying(e) \ {w}
    BY <1>5, <2>1, TryingShrinks DEF Trying
  <2> DEFINE u == request[w].user
             n == attempts[u].count + 1
  <2>3. request[w].at = "login.incr" /\ attempts' = [attempts EXCEPT ![u].count = n]
    BY <1>5 DEF LoginIncr
  <2> HIDE DEF n
  <2>4. CASE u = e
    <3>1. attempts'[e] = [attempts[e] EXCEPT !.count = n]
      BY <1>0, <2>3, <2>4
    <3>2. attempts'[e].count = attempts[e].count + 1
      BY <1>0, <2>4, <3>1 DEF Counters, n
    <3> QED BY <2>2, <2>3, <2>4, <3>2 DEF Trying
  <2>5. CASE u # e
    BY <1>0, <2>2, <2>3, <2>5
  <2> QED BY <2>4, <2>5
<1>6. ASSUME NEW w \in Workers, Outcome(w), ~LoginIncr(w), ~LoginCheck(w), ~LoginFind(w),
             SessionsNext(w) \/ PasswordsNext(w) \/ Fail(w) \/ LogoutFails(w)
      PROVE  /\ attempts'[e].count <= attempts[e].count
             /\ Trying(e)' \subseteq Trying(e)
  <2>1. attempts'[e].count <= attempts[e].count
    <3>1. CASE UNCHANGED attempts
      BY <1>0, <3>1
    <3>2. CASE LoginExpire(w)
      BY <1>0, <3>2 DEF LoginExpire, Counters
    <3>3. CASE LoginDel(w)
      BY <1>0, <3>3 DEF LoginDel, NoKey, Counters
    <3>4. CASE SessionsNext(w)
      BY <1>6, <3>1, <3>2, <3>3, <3>4
         DEF SessionsNext, RegisterFind, RegisterCreate, RegisterWallet, SessionCreate,
             TokenSign, TokenStore, Answer, RefreshFind, RefreshDelete, LogoutAll, LogoutOne
    <3>5. CASE PasswordsNext(w) \/ Fail(w) \/ LogoutFails(w)
      BY <3>1, <3>5
         DEF PasswordsNext, ChangeFind, ChangeWrite, Forgot, ResetFind, ResetWrite,
             ResetDel, DropSessions, Fail, LogoutFails
    <3> QED BY <1>6, <3>4, <3>5
  <2> QED BY <1>2, <1>6, <2>1, StageAfter
<1>7. ASSUME NEW w \in Workers,
             SessionsNext(w) \/ PasswordsNext(w) \/ Fail(w) \/ LogoutFails(w)
      PROVE  \/ /\ attempts'[e].count <= attempts[e].count
                /\ Trying(e)' \subseteq Trying(e)
             \/ attempts' = attempts /\ attempts[e].count < LOCKOUT_MAX_ATTEMPTS
             \/ \E v \in Trying(e) : /\ attempts'[e].count = attempts[e].count + 1
                                     /\ Trying(e)' \subseteq Trying(e) \ {v}
  <2>1. Outcome(w)
    BY <1>7, SessionsOutcome, PasswordsOutcome, FailureOutcome
  <2> QED BY <1>0, <1>3, <1>4, <1>5, <1>6, <1>7, <2>1
<1> QED BY <1>1, <1>7 DEF Next, CalmNext, Serve

LEMMA AttemptedStep == IInv /\ Attempted /\ [Next]_vars => Attempted'
<1> SUFFICES ASSUME IInv, Attempted, [Next]_vars, NEW e \in Emails
             PROVE  attempts'[e].count + Cardinality(Trying(e)')
                      < LOCKOUT_MAX_ATTEMPTS + Cardinality(Workers)
  BY DEF Attempted
<1> DEFINE n == Cardinality(Trying(e))
           m == Cardinality(Trying(e)')
           all == Cardinality(Workers)
<1>1. /\ attempts[e].count \in Nat /\ attempts'[e].count \in Nat
      /\ n \in Nat /\ all \in Nat /\ n + attempts[e].count < LOCKOUT_MAX_ATTEMPTS + all
  BY InvariantStep, TryingFinite DEF IInv, TypeOK, Counters, Attempted
<1>2. IsFiniteSet(Trying(e)) /\ Trying(e)' \in SUBSET Workers
  BY TryingFinite DEF Trying
<1>3. m \in Nat /\ m <= all
  BY <1>2, AuthAssumption, FS_Subset, FS_CardinalityType
<1>4. CASE /\ attempts'[e].count <= attempts[e].count
           /\ Trying(e)' \subseteq Trying(e)
  <2>1. m <= n
    BY <1>2, <1>4, FS_Subset
  <2> HIDE DEF n, m, all
  <2> QED BY <1>1, <1>3, <1>4, <2>1, AuthAssumption DEF m, all
<1>5. CASE attempts' = attempts /\ attempts[e].count < LOCKOUT_MAX_ATTEMPTS
  <2> HIDE DEF n
  <2> QED BY <1>1, <1>3, <1>5, AuthAssumption
<1>6. ASSUME NEW w \in Trying(e), attempts'[e].count = attempts[e].count + 1,
             Trying(e)' \subseteq Trying(e) \ {w}
      PROVE  attempts'[e].count + m < LOCKOUT_MAX_ATTEMPTS + all
  <2>1. /\ IsFiniteSet(Trying(e) \ {w})
        /\ Cardinality(Trying(e) \ {w}) = n - 1
    BY <1>2, FS_RemoveElement
  <2>2. m <= n - 1
    BY <1>6, <2>1, FS_Subset
  <2> HIDE DEF n, m, all
  <2> QED BY <1>1, <1>3, <1>6, <2>2, AuthAssumption
<1>7. CASE UNCHANGED vars
  <2>1. Trying(e)' = Trying(e) /\ attempts' = attempts
    BY <1>7 DEF vars, Trying
  <2> QED BY <1>1, <2>1
<1> QED BY <1>4, <1>5, <1>6, <1>7, AttemptEffects

\* The counter passes the limit by no more than the logins under way with the
\* one that reached it, for any limit (checkAccountLockout,
\* incrementFailedAttempts): it stays below the limit plus the workers.
THEOREM AttemptsCorrect == Spec => []AttemptsBounded
<1>1. Init => Attempted
  <2> SUFFICES ASSUME Init, NEW e \in Emails
               PROVE  attempts[e].count + Cardinality(Trying(e))
                        < LOCKOUT_MAX_ATTEMPTS + Cardinality(Workers)
    BY DEF Attempted
  <2>1. attempts[e].count = 0
    BY DEF Init, NoKey
  <2> QED BY <2>1, TryingFinite, AuthAssumption
<1>2. IInv /\ Attempted => AttemptsBounded
  <2> SUFFICES ASSUME IInv, Attempted, NEW e \in Emails
               PROVE  attempts[e].count < LOCKOUT_MAX_ATTEMPTS + Cardinality(Workers)
    BY DEF AttemptsBounded
  <2>1. attempts[e].count \in Nat
    BY DEF IInv, TypeOK, Counters
  <2> QED BY <2>1, TryingFinite, AuthAssumption DEF Attempted
<1> QED BY <1>1, <1>2, AttemptedStep, InvariantHolds, PTL DEF Spec

-------------------------------------------------------------------------------
(* When no call fails *)

LEMMA CalmInvariant == CalmSpec => []IInv
<1>1. [CalmNext]_vars => [Next]_vars
  BY DEF Next
<1> QED BY <1>1, InvariantInit, InvariantStep, PTL DEF CalmSpec

LEMMA CalmOutcome ==
  ASSUME IInv, CalmNext
  PROVE  Time \/ \E w \in Workers : Serve(w) /\ Outcome(w)
BY SessionsOutcome, PasswordsOutcome DEF CalmNext, Serve

LEMMA RegisteredStays ==
  ASSUME IInv, Next, NEW e \in Emails, Registered(e) PROVE account'[e].version > 0
<1>1. account[e].version \in Nat
  BY DEF IInv, TypeOK, Accounts
<1> QED BY <1>1, VersionStep DEF Registered

\* A password is written of a user that is there.
UsersFound ==
  /\ \A w \in Workers :
       request[w].at \in {"change.write", "reset.write"} => Registered(request[w].user)
  /\ \A t \in ResetTokens :
       reset[t].state = "live" => Registered(reset[t].user)

LEMMA UsersFoundStep == IInv /\ UsersFound /\ [Next]_vars => UsersFound'
<1> SUFFICES ASSUME IInv, UsersFound, [Next]_vars PROVE UsersFound'
  OBVIOUS
<1>0. /\ request \in [Workers -> Requests] /\ reset \in [ResetTokens -> Resets]
      /\ \A w \in Workers : Shape(request[w])
      /\ Sent
  BY DEF IInv, TypeOK
<1>1. CASE UNCHANGED vars
  BY <1>1 DEF vars, UsersFound, Registered
<1>2. CASE Next
  <2>1. ASSUME NEW v \in Workers, request'[v].at \in {"change.write", "reset.write"}
        PROVE  account'[request'[v].user].version > 0
    <3>1. CASE request'[v] = request[v]
      BY <1>0, <1>2, <2>1, <3>1, RegisteredStays DEF UsersFound, Shape
    <3>2. CASE request'[v] # request[v]
      <4>1. PICK w \in Workers :
              SessionsNext(w) \/ PasswordsNext(w) \/ Fail(w) \/ LogoutFails(w)
        BY <1>2, <3>2 DEF Next, CalmNext, Serve, Time, Tick, ExpireAttempts,
                          ExpireReset, ExpireSession
      <4>2. w = v
        BY <3>2, <4>1, OthersWait, SessionsOutcome, PasswordsOutcome, FailureOutcome
      <4>3. ChangeFind(v) \/ ResetFind(v)
        BY <2>1, <4>1, <4>2, StageAfter
      <4>4. CASE ChangeFind(v)
        <5>1. PICK e \in Emails :
                Registered(e) /\ Goto(v, [Idle EXCEPT !.at = "change.write", !.user = e])
          BY <3>2, <4>4 DEF ChangeFind
        <5>2. request'[v].user = e
          BY <1>0, <5>1 DEF Goto, Idle
        <5> QED BY <1>2, <5>1, <5>2, RegisteredStays
      <4>5. CASE ResetFind(v)
        <5>1. PICK t \in ResetTokens :
                /\ reset[t].state = "live"
                /\ Goto(v, [Idle EXCEPT !.at = "reset.write", !.user = reset[t].user,
                                        !.resetToken = t])
          BY <3>2, <4>5 DEF ResetFind
        <5>2. request'[v].user = reset[t].user
          BY <1>0, <5>1 DEF Goto, Idle
        <5>3. Registered(reset[t].user) /\ reset[t].user \in Emails
          BY <1>0, <5>1 DEF UsersFound, Sent
        <5> QED BY <1>2, <5>2, <5>3, RegisteredStays
      <4> QED BY <4>3, <4>4, <4>5
    <3> QED BY <3>1, <3>2
  <2>2. ASSUME NEW t \in ResetTokens, reset'[t].state = "live"
        PROVE  account'[reset'[t].user].version > 0
    <3>1. CASE reset'[t] = reset[t]
      BY <1>0, <1>2, <2>2, <3>1, RegisteredStays DEF UsersFound, Sent
    <3>2. ASSUME NEW w \in Workers, Forgot(w), reset'[t] # reset[t]
          PROVE  account'[reset'[t].user].version > 0
      <4>1. PICK e \in Emails, u \in ResetTokens :
              /\ Registered(e)
              /\ reset' = [reset EXCEPT ![u] = [state |-> "live", user |-> e]]
        BY <3>2 DEF Forgot
      <4>2. reset'[t].user = e
        BY <1>0, <3>2, <4>1
      <4> QED BY <1>2, <4>1, <4>2, RegisteredStays
    <3>3. ASSUME NEW u, reset' = [reset EXCEPT ![u].state = "gone"] PROVE reset'[t] = reset[t]
      BY <1>0, <2>2, <3>3 DEF Resets
    <3> QED BY <1>2, <3>1, <3>2, <3>3, NextEffects DEF ResetStep, ResetDel, ExpireReset
  <2> QED BY <2>1, <2>2 DEF UsersFound, Registered
<1> QED BY <1>1, <1>2

LEMMA AccountsStep ==
  IInv /\ UsersFound /\ AccountsComplete /\ [CalmNext]_vars => AccountsComplete'
<1> SUFFICES ASSUME IInv, UsersFound, AccountsComplete, [CalmNext]_vars,
                    NEW e \in Emails, Registered(e)'
             PROVE  \/ account'[e].wallet
                    \/ \E w \in Workers : /\ request'[w].at = "register.wallet"
                                          /\ request'[w].user = e
  BY DEF AccountsComplete
<1>0. account \in [Emails -> Accounts] /\ request \in [Workers -> Requests]
  BY DEF IInv, TypeOK
<1>1. CASE UNCHANGED vars
  BY <1>1 DEF vars, AccountsComplete, Registered
<1>2. CASE Time
  BY <1>2 DEF Time, Tick, ExpireAttempts, ExpireReset, ExpireSession,
              AccountsComplete, Registered
\* A step of a request that is not about to create the wallet leaves the one
\* that is alone.
<1>3. ASSUME NEW w \in Workers, Outcome(w), request[w].at # "register.wallet",
             Registered(e), account'[e].wallet = account[e].wallet
      PROVE  \/ account'[e].wallet
             \/ \E v \in Workers : /\ request'[v].at = "register.wallet"
                                   /\ request'[v].user = e
  BY <1>3, OthersWait DEF AccountsComplete
<1>4. ASSUME NEW w \in Workers, Serve(w), Outcome(w)
      PROVE  \/ account'[e].wallet
             \/ \E v \in Workers : /\ request'[v].at = "register.wallet"
                                   /\ request'[v].user = e
  <2> DEFINE u == request[w].user
  <2>1. CASE RegisterCreate(w)
    <3>1. CASE UNCHANGED account
      BY <1>3, <1>4, <2>1, <3>1 DEF RegisterCreate, Registered
    <3>2. CASE WritePassword(u) /\ Step(w, "register.wallet")
      <4>1. request'[w].at = "register.wallet" /\ request'[w].user = u
        BY <1>0, <3>2 DEF Step, Requests
      <4>2. CASE u # e
        BY <1>0, <1>3, <1>4, <2>1, <3>2, <4>2 DEF RegisterCreate, Registered, WritePassword
      <4> QED BY <4>1, <4>2
    <3> QED BY <2>1, <3>1, <3>2 DEF RegisterCreate
  <2>2. CASE RegisterWallet(w)
    <3>1. account' = [account EXCEPT ![u].wallet = TRUE]
      BY <2>2 DEF RegisterWallet
    <3>2. CASE u = e
      BY <1>0, <3>1, <3>2 DEF Accounts
    <3>3. CASE u # e
      <4>1. account'[e] = account[e]
        BY <1>0, <3>1, <3>3
      <4> QED BY <1>4, <3>3, <4>1, OthersWait DEF AccountsComplete, Registered
    <3> QED BY <3>2, <3>3
  <2>3. CASE ChangeWrite(w) \/ ResetWrite(w)
    <3>1. WritePassword(u) /\ request[w].at \in {"change.write", "reset.write"}
      BY <2>3 DEF ChangeWrite, ResetWrite
    <3>2. account'[e].wallet = account[e].wallet
      BY <1>0, <3>1 DEF WritePassword, Accounts
    <3>3. Registered(e)
      BY <1>0, <3>1 DEF UsersFound, WritePassword, Registered
    <3> QED BY <1>3, <1>4, <3>1, <3>2, <3>3
  <2>4. CASE /\ ~RegisterCreate(w) /\ ~RegisterWallet(w)
             /\ ~ChangeWrite(w) /\ ~ResetWrite(w)
    <3>1. UNCHANGED account /\ request[w].at # "register.wallet"
      <4>1. CASE SessionsNext(w)
        BY <2>4, <4>1
           DEF SessionsNext, RegisterFind, LoginCheck, LoginFind, LoginIncr,
               LoginExpire, LoginDel, SessionCreate, TokenSign, TokenStore, Answer,
               RefreshFind, RefreshDelete, LogoutAll, LogoutOne, Takes
      <4>2. CASE PasswordsNext(w)
        BY <2>4, <4>2 DEF PasswordsNext, ChangeFind, Forgot, ResetFind, ResetDel,
                          DropSessions, Takes
      <4> QED BY <1>4, <4>1, <4>2 DEF Serve
    <3> QED BY <1>3, <1>4, <3>1 DEF Registered
  <2> QED BY <2>1, <2>2, <2>3, <2>4
<1> QED BY <1>1, <1>2, <1>4, CalmOutcome

\* When no call fails, a user has a wallet, or the request that inserted it is
\* at the insert of the wallet, however registrations overlap (register).
THEOREM AccountsCorrect == CalmSpec => []AccountsComplete
<1>1. Init => UsersFound /\ AccountsComplete
  BY DEF Init, UsersFound, AccountsComplete, Registered, NoAccount, Idle
<1>2. [CalmNext]_vars => [Next]_vars
  BY DEF Next
<1> QED BY <1>1, <1>2, UsersFoundStep, AccountsStep, CalmInvariant, PTL DEF CalmSpec

\* The token a session holds has been answered, or is about to be replaced or
\* answered by a request on the session.
Served(x) ==
  \/ session[x].refreshToken \in issued
  \/ \E w \in Workers :
       /\ request[w].session = x
       /\ \/ request[w].at \in {"token.sign", "token.store"}
          \/ request[w].at = "answer" /\ request[w].token = session[x].refreshToken

TokensServed == \A x \in SessionIds : Open(x) => Served(x)

LEMMA TokensServedStep == IInv /\ TokensServed /\ [CalmNext]_vars => TokensServed'
<1> SUFFICES ASSUME IInv, TokensServed, [CalmNext]_vars, NEW x \in SessionIds,
                    session'[x].state = "open"
             PROVE  \/ session'[x].refreshToken \in issued'
                    \/ \E w \in Workers :
                         /\ request'[w].session = x
                         /\ \/ request'[w].at \in {"token.sign", "token.store"}
                            \/ /\ request'[w].at = "answer"
                               /\ request'[w].token = session'[x].refreshToken
  BY DEF TokensServed, Served, Open
<1>0. /\ session \in [SessionIds -> Sessions] /\ request \in [Workers -> Requests]
      /\ session[x] \in Sessions
      /\ \A w \in Workers : Shape(request[w]) /\ request[w] \in Requests
  BY DEF IInv, TypeOK
\* The session is open before, with the token it has after.
<1>1. ASSUME UNCHANGED <<request, issued>>, session[x].state = "open",
             session'[x].refreshToken = session[x].refreshToken
      PROVE  \/ session'[x].refreshToken \in issued'
             \/ \E w \in Workers :
                  /\ request'[w].session = x
                  /\ \/ request'[w].at \in {"token.sign", "token.store"}
                     \/ /\ request'[w].at = "answer"
                        /\ request'[w].token = session'[x].refreshToken
  BY <1>1 DEF TokensServed, Served, Open
<1>2. CASE UNCHANGED vars
  BY <1>1, <1>2 DEF vars
<1>3. CASE Time
  <2>1. UNCHANGED <<request, issued>>
    BY <1>3 DEF Time, Tick, ExpireAttempts, ExpireReset, ExpireSession
  <2>2. session[x].state = "open" /\ session'[x].refreshToken = session[x].refreshToken
    <3>1. CASE UNCHANGED session
      BY <3>1
    <3>2. ASSUME NEW y \in SessionIds, ExpireSession(y)
          PROVE  session[x].state = "open"
                 /\ session'[x].refreshToken = session[x].refreshToken
      <4>1. session'[x] \in {session[x], [session[x] EXCEPT !.expired = TRUE]}
        BY <1>0, <3>2 DEF ExpireSession
      <4> QED BY <1>0, <4>1 DEF Sessions
    <3> QED BY <1>3, <3>1, <3>2 DEF Time, Tick, ExpireAttempts, ExpireReset
  <2> QED BY <1>1, <2>1, <2>2
<1>4. ASSUME NEW w \in Workers, Serve(w), Outcome(w)
      PROVE  \/ session'[x].refreshToken \in issued'
             \/ \E v \in Workers :
                  /\ request'[v].session = x
                  /\ \/ request'[v].at \in {"token.sign", "token.store"}
                     \/ /\ request'[v].at = "answer"
                        /\ request'[v].token = session'[x].refreshToken
  \* A step of a request at another stage.
  <2>1. ASSUME request[w].at \notin {"token.sign", "token.store", "answer"},
               session[x].state = "open",
               session'[x].refreshToken = session[x].refreshToken,
               issued \subseteq issued'
        PROVE  \/ session'[x].refreshToken \in issued'
               \/ \E v \in Workers :
                    /\ request'[v].session = x
                    /\ \/ request'[v].at \in {"token.sign", "token.store"}
                       \/ /\ request'[v].at = "answer"
                          /\ request'[v].token = session'[x].refreshToken
    BY <1>4, <2>1, OthersWait DEF TokensServed, Served, Open
  <2>2. issued \subseteq issued'
    BY <1>4 DEF Outcome
  <2>3. CASE SessionCreate(w)
    <3> DEFINE y == request[w].session
    <3>1. request'[w].at = "token.sign" /\ request'[w].session = y
      BY <1>0, <2>3 DEF SessionCreate, Step, Requests
    <3>2. CASE y # x
      <4>1. session'[x] = session[x]
        BY <1>0, <2>3, <3>2 DEF SessionCreate
      <4> QED BY <2>1, <2>2, <2>3, <4>1 DEF SessionCreate
    <3> QED BY <3>1, <3>2
  <2>4. CASE TokenSign(w)
    <3>1. request'[w].at = "token.store" /\ request'[w].session = request[w].session
          /\ session' = session
      BY <1>0, <2>4 DEF TokenSign, Goto, Requests
    <3>2. CASE request[w].session = x
      BY <3>1, <3>2
    <3>3. CASE request[w].session # x
      BY <1>4, <2>2, <3>1, <3>3, OthersWait DEF TokensServed, Served, Open
    <3> QED BY <3>2, <3>3
  <2>5. CASE TokenStore(w)
    <3> DEFINE y == request[w].session
    <3>1. y \in SessionIds /\ request[w].at = "token.store"
      BY <1>0, <2>5 DEF TokenStore, Shape, Using
    <3>2. CASE Open(y) /\ y = x
      <4>1. session'[x] = [session[x] EXCEPT !.refreshToken = request[w].token,
                                             !.expired = FALSE]
            /\ Step(w, "answer")
        BY <1>0, <2>5, <3>1, <3>2 DEF TokenStore
      <4>2. session'[x].refreshToken = request[w].token
        BY <1>0, <4>1 DEF Sessions
      <4>3. request'[w].at = "answer" /\ request'[w].session = x
            /\ request'[w].token = request[w].token
        BY <1>0, <3>2, <4>1 DEF Step, Requests
      <4> QED BY <4>2, <4>3
    <3>3. CASE ~(Open(y) /\ y = x)
      <4>1. session'[x] = session[x]
        BY <1>0, <2>5, <3>3 DEF TokenStore
      <4>2. y # x
        BY <3>3, <4>1 DEF Open
      <4> QED BY <1>4, <2>2, <4>1, <4>2, OthersWait DEF TokensServed, Served, Open
    <3> QED BY <3>2, <3>3
  <2>6. CASE Answer(w)
    <3>1. session' = session /\ issued' = issued \cup {request[w].token}
          /\ request[w].at = "answer"
      BY <2>6 DEF Answer
    <3> QED BY <1>4, <3>1, OthersWait DEF TokensServed, Served, Open
  <2>7. CASE /\ ~SessionCreate(w) /\ ~TokenSign(w) /\ ~TokenStore(w) /\ ~Answer(w)
    <3>1. /\ request[w].at \notin {"token.sign", "token.store", "answer"}
          /\ \/ UNCHANGED session
             \/ \E e \in Emails : CloseAll(e)
             \/ \E y \in SessionIds : CloseSession(y)
      <4>1. CASE SessionsNext(w)
        <5>1. CASE RefreshDelete(w) \/ LogoutOne(w) \/ LogoutAll(w)
          <6>1. \A t \in issued : t.session \in SessionIds
            BY DEF IInv, TypeOK, Tokens
          <6> QED BY <1>0, <5>1, <6>1
                  DEF RefreshDelete, LogoutOne, LogoutAll, Takes, Shape, Using
        <5> QED BY <2>7, <4>1, <5>1
                DEF SessionsNext, RegisterFind, RegisterCreate, RegisterWallet, LoginCheck,
                    LoginFind, LoginIncr, LoginExpire, LoginDel, RefreshFind, Takes
      <4>2. CASE PasswordsNext(w)
        <5>1. CASE DropSessions(w)
          BY <1>0, <5>1 DEF DropSessions, Shape
        <5> QED BY <4>2, <5>1 DEF PasswordsNext, ChangeFind, ChangeWrite, Forgot,
                                  ResetFind, ResetWrite, ResetDel, Takes
      <4> QED BY <1>4, <4>1, <4>2 DEF Serve
    <3>2. session'[x] \in {session[x], [session[x] EXCEPT !.state = "closed"]}
      <4>1. CASE \E e \in Emails : CloseAll(e)
        BY <1>0, <4>1 DEF CloseAll
      <4>2. CASE \E y \in SessionIds : CloseSession(y)
        BY <1>0, <4>2 DEF CloseSession
      <4> QED BY <3>1, <4>1, <4>2
    <3>3. session'[x] = session[x]
      BY <1>0, <3>2 DEF Sessions
    <3> QED BY <2>1, <2>2, <3>1, <3>3
  <2> QED BY <2>3, <2>4, <2>5, <2>6, <2>7
<1> QED BY <1>2, <1>3, <1>4, CalmOutcome

\* When no call fails, an open session on which no request is working holds a
\* token that a client was answered (generateTokensAndCreateSession,
\* refreshTokens).
THEOREM SessionsCorrect == CalmSpec => []SessionsAreUsable
<1>1. Init => TokensServed
  BY DEF Init, TokensServed, Open, NoSession
<1>2. TokensServed => SessionsAreUsable
  BY DEF TokensServed, Served, SessionsAreUsable
<1> QED BY <1>1, <1>2, TokensServedStep, CalmInvariant, PTL DEF CalmSpec

-------------------------------------------------------------------------------
(* Tokens for a reset, and the sessions of an old password *)

\* The request that a step changes is the one it serves.
LEMMA RequestMoved ==
  ASSUME IInv, Next, NEW w \in Workers, request'[w] # request[w]
  PROVE  SessionsNext(w) \/ PasswordsNext(w) \/ Fail(w) \/ LogoutFails(w)
<1>1. ~Time
  BY DEF Time, Tick, ExpireAttempts, ExpireReset, ExpireSession
<1>2. PICK v \in Workers : SessionsNext(v) \/ PasswordsNext(v) \/ Fail(v) \/ LogoutFails(v)
  BY <1>1 DEF Next, CalmNext, Serve
<1>3. v = w
  BY <1>2, OthersWait, SessionsOutcome, PasswordsOutcome, FailureOutcome
<1> QED BY <1>2, <1>3

\* A reset token stays the token of the user it was sent to.
LEMMA TokenKeepsUser ==
  ASSUME IInv, Next, NEW t \in ResetTokens, reset[t].state # "none"
  PROVE  reset'[t].state # "none" /\ reset'[t].user = reset[t].user
<1>1. reset \in [ResetTokens -> Resets] /\ reset[t] \in Resets
  BY DEF IInv, TypeOK
<1>2. ASSUME NEW u, reset' = [reset EXCEPT ![u].state = "gone"]
      PROVE  reset'[t].state # "none" /\ reset'[t].user = reset[t].user
  BY <1>1, <1>2 DEF Resets
<1>3. ASSUME NEW w \in Workers, Forgot(w) PROVE reset'[t] = reset[t]
  BY <1>1, <1>3 DEF Forgot
<1> QED BY <1>1, <1>2, <1>3, NextEffects DEF ResetStep, ResetDel, ExpireReset

\* A request resets the password of the user its token was sent to.
TokensOwned ==
  \A w \in Workers : request[w].at = "reset.write" =>
    LET t == request[w].resetToken IN
    t \in ResetTokens /\ reset[t].state # "none" /\ reset[t].user = request[w].user

LEMMA TokensOwnedStep == IInv /\ TokensOwned /\ [Next]_vars => TokensOwned'
<1> SUFFICES ASSUME IInv, TokensOwned, [Next]_vars, NEW w \in Workers,
                    request'[w].at = "reset.write"
             PROVE  LET t == request'[w].resetToken IN
                    /\ t \in ResetTokens /\ reset'[t].state # "none"
                    /\ reset'[t].user = request'[w].user
  BY DEF TokensOwned
<1>1. CASE UNCHANGED vars
  BY <1>1 DEF vars, TokensOwned
<1>2. CASE Next /\ request'[w] = request[w]
  BY <1>2, TokenKeepsUser DEF TokensOwned
<1>3. CASE Next /\ request'[w] # request[w]
  <2>1. ResetFind(w)
    <3>1. ~ChangeFind(w)
      BY <1>3 DEF ChangeFind, Goto, Idle, IInv, TypeOK
    <3> QED BY <1>3, <3>1, RequestMoved, StageAfter
  <2>2. PICK t \in ResetTokens :
          /\ reset[t].state = "live"
          /\ Goto(w, [Idle EXCEPT !.at = "reset.write", !.user = reset[t].user,
                                  !.resetToken = t])
    BY <1>3, <2>1 DEF ResetFind
  <2>3. request'[w].user = reset[t].user /\ request'[w].resetToken = t
    BY <2>2 DEF Goto, Idle, IInv, TypeOK
  <2> QED BY <2>1, <2>2, <2>3 DEF ResetFind
<1> QED BY <1>1, <1>2, <1>3

\* What VersionStep says in the terms of the property.
LEMMA WriterStep ==
  ASSUME IInv, UsersFound, TokensOwned, Next, NEW e \in Emails,
         account'[e].version # account[e].version
  PROVE  /\ account'[e].version = account[e].version + 1
         /\ \E w \in PasswordWriters(e) : request'[w] # request[w]
<1>1. PICK w \in Workers : /\ Registers(w) \/ ChangeWrite(w) \/ ResetWrite(w)
                           /\ request[w].user = e
  BY VersionStep
<1>2. w \in PasswordWriters(e)
  BY <1>1 DEF Registers, ChangeWrite, ResetWrite, UsersFound, TokensOwned,
                    PasswordWriters
<1>3. request'[w].at # request[w].at
  BY <1>1 DEF Registers, ChangeWrite, ResetWrite, Step, IInv, TypeOK, Requests
<1> QED BY <1>2, <1>3, VersionStep

\* Only the registration of an email without a user, a change by the user and a
\* reset with a token sent to the user write a password (register,
\* changePassword, resetPassword).
THEOREM PasswordsCorrect == Spec => PasswordsOnlyAdvance
<1>1. Init => UsersFound /\ TokensOwned
  BY DEF Init, UsersFound, TokensOwned, Idle
<1>2. IInv /\ UsersFound /\ TokensOwned /\ [Next]_vars =>
        [\A e \in Emails : account'[e].version # account[e].version =>
           /\ account'[e].version = account[e].version + 1
           /\ \E w \in PasswordWriters(e) : request'[w] # request[w]]_vars
  BY WriterStep
<1> QED BY <1>1, <1>2, InvariantHolds, UsersFoundStep, TokensOwnedStep, PTL
        DEF Spec, PasswordsOnlyAdvance

LEMMA TokenStaysSpent ==
  ASSUME IInv, Next, NEW t \in ResetTokens, reset[t].state = "gone"
  PROVE  /\ reset'[t] = reset[t]
         /\ Redeeming(t)' \subseteq Redeeming(t)
<1>1. /\ reset \in [ResetTokens -> Resets] /\ request \in [Workers -> Requests]
      /\ \A w \in Workers : request[w] \in Requests
  BY DEF IInv, TypeOK
<1>2. reset'[t] = reset[t]
  <2>1. ASSUME NEW u, reset' = [reset EXCEPT ![u].state = "gone"]
        PROVE  reset'[t] = reset[t]
    <3>1. CASE u # t
      BY <1>1, <2>1, <3>1
    <3>2. CASE u = t
      <4>1. reset'[t] = [reset[t] EXCEPT !.state = "gone"]
        BY <1>1, <2>1, <3>2
      <4> QED BY <1>1, <4>1 DEF Resets
    <3> QED BY <3>1, <3>2
  <2>2. ASSUME NEW w \in Workers, Forgot(w) PROVE reset'[t] = reset[t]
    BY <1>1, <2>2 DEF Forgot
  <2> QED BY <1>1, <2>1, <2>2, NextEffects DEF ResetStep, ResetDel, ExpireReset
<1>3. ASSUME NEW w \in Workers, w \in Redeeming(t)', request'[w] # request[w]
      PROVE  w \in Redeeming(t)
  <2>1. request'[w].at \in {"reset.write", "reset.del"} /\ request'[w].resetToken = t
    BY <1>3 DEF Redeeming
  <2>2. ChangeFind(w) \/ ResetFind(w) \/ ResetWrite(w)
    BY <1>3, <2>1, RequestMoved, StageAfter
  <2>3. ~ChangeFind(w)
    BY <1>1, <1>3, <2>1 DEF ChangeFind, Goto, Idle
  <2>4. ~ResetFind(w)
    <3> SUFFICES ASSUME ResetFind(w) PROVE FALSE
      OBVIOUS
    <3>1. PICK u \in ResetTokens :
            /\ reset[u].state = "live"
            /\ Goto(w, [Idle EXCEPT !.at = "reset.write", !.user = reset[u].user,
                                    !.resetToken = u])
      BY <1>3 DEF ResetFind
    <3>2. request'[w].resetToken = u
      BY <1>1, <3>1 DEF Goto, Idle
    <3> QED BY <2>1, <3>1, <3>2
  <2>5. request[w].at = "reset.write" /\ request'[w].resetToken = request[w].resetToken
    BY <1>1, <2>2, <2>3, <2>4 DEF ResetWrite, Step, Requests
  <2> QED BY <2>1, <2>5 DEF Redeeming
<1>4. Redeeming(t)' \subseteq Redeeming(t)
  BY <1>3 DEF Redeeming
<1> QED BY <1>2, <1>4

\* A spent token is of no use to a new request: what it may still write are the
\* passwords of the requests that had found it live (resetPassword).
THEOREM ResetTokensCorrect == Spec => ResetTokensSpent
<1>1. IInv /\ [Next]_vars =>
        [\A t \in ResetTokens : reset[t].state = "gone" =>
           reset'[t] = reset[t] /\ Redeeming(t)' \subseteq Redeeming(t)]_vars
  BY TokenStaysSpent
<1> QED BY <1>1, InvariantHolds, PTL DEF Spec, ResetTokensSpent

\* A session is opened by a request that has compared the password, and is
\* never opened again.
LEMMA OpenBefore ==
  ASSUME IInv, Next, NEW x \in SessionIds, Open(x)'
  PROVE  \/ /\ Open(x) /\ session'[x].user = session[x].user
            /\ session'[x].opened = session[x].opened
         \/ \E w \in Workers : /\ request[w].at = "session.create"
                                /\ session'[x].user = request[w].user
                                /\ session'[x].opened = request[w].version
<1>1. session \in [SessionIds -> Sessions] /\ session[x] \in Sessions
  BY DEF IInv, TypeOK
<1>2. ASSUME NEW y \in SessionIds, Expires(y) \/ Rotates(y) \/ CloseSession(y)
      PROVE  /\ Open(x) /\ session'[x].user = session[x].user
             /\ session'[x].opened = session[x].opened
  <2>1. CASE y # x
    BY <1>1, <1>2, <2>1 DEF Expires, Rotates, CloseSession, Open
  <2>2. CASE Expires(x)
    <3>1. session'[x] = [session[x] EXCEPT !.expired = TRUE]
      BY <1>1, <2>2 DEF Expires
    <3> QED BY <1>1, <2>2, <3>1 DEF Expires, Sessions
  <2>3. CASE Rotates(x)
    <3>1. PICK t \in Tokens :
            session' = [session EXCEPT ![x].refreshToken = t, ![x].expired = FALSE]
      BY <2>3 DEF Rotates
    <3>2. session'[x] = [session[x] EXCEPT !.refreshToken = t, !.expired = FALSE]
      BY <1>1, <3>1
    <3> QED BY <1>1, <2>3, <3>2 DEF Rotates, Sessions
  <2>4. ~CloseSession(x)
    BY <1>1 DEF CloseSession, Open, Sessions
  <2> QED BY <1>2, <2>1, <2>2, <2>3, <2>4
<1>3. ASSUME NEW e \in Emails, CloseAll(e)
      PROVE  session'[x] = session[x]
  <2>1. session'[x] \in {session[x], [session[x] EXCEPT !.state = "closed"]}
    BY <1>3 DEF CloseAll
  <2> QED BY <1>1, <2>1 DEF Open, Sessions
<1>4. ASSUME NEW w \in Workers, RowStep(w)
      PROVE  \/ /\ Open(x) /\ session'[x].user = session[x].user
                /\ session'[x].opened = session[x].opened
             \/ /\ request[w].at = "session.create"
                /\ session'[x].user = request[w].user
                /\ session'[x].opened = request[w].version
  <2>1. CASE Opens(w)
    BY <1>1, <2>1 DEF Opens, NoSession, Open
  <2>2. CASE UNCHANGED session \/ \E e \in Emails : CloseAll(e)
    BY <1>3, <2>2 DEF Open
  <2> QED BY <1>2, <1>4, <2>1, <2>2 DEF RowStep
<1>5. CASE \E w \in Workers : Outcome(w)
  BY <1>4, <1>5 DEF Outcome
<1>6. CASE UNCHANGED <<session, request, issued>>
  BY <1>6 DEF Open
<1> QED BY <1>2, <1>5, <1>6, NextOutcome

\* Who is past the comparison has compared with the password of the account, or
\* had compared before.
LEMMA ComparedBefore ==
  ASSUME IInv, Next, NEW w \in Workers, request'[w].at \in Compared
  PROVE  LET e == request'[w].user IN
         \/ /\ request[w].at \in Compared /\ request[w].user = e
            /\ request'[w].version = request[w].version
         \/ request'[w].version = account[e].version
         \/ account'[e].version # account[e].version
<1>1. /\ account \in [Emails -> Accounts] /\ request \in [Workers -> Requests]
      /\ request[w] \in Requests /\ Shape(request[w])
  BY DEF IInv, TypeOK
<1> PICK e : e = request[w].user
  OBVIOUS
<1>2. CASE request'[w] = request[w]
  BY <1>2
<1>3. CASE RegisterCreate(w)
  <2>1. ~Finish(w)
    BY <1>1 DEF Finish, Goto, Idle, Compared
  <2>2. e \in Emails /\ request'[w].user = e
    BY <1>1, <1>3, <2>1 DEF RegisterCreate, Step, Requests, Shape
  <2>3. ~Registered(e) /\ WritePassword(e)
    BY <1>3, <2>1 DEF RegisterCreate
  <2>4. account[e].version \in Nat /\ account'[e].version = account[e].version + 1
    BY <1>1, <2>2, <2>3 DEF WritePassword, Accounts
  <2> QED BY <2>2, <2>4
<1>4. CASE RegisterWallet(w) \/ LoginDel(w)
  <2>1. request[w].at \in Compared
    BY <1>4 DEF RegisterWallet, LoginDel, Compared
  <2>2. request'[w].user = e /\ request'[w].version = request[w].version
    BY <1>1, <1>4 DEF RegisterWallet, LoginDel, Step, Requests
  <2> QED BY <2>1, <2>2
<1>5. CASE LoginFind(w)
  <2>1. ~Step(w, "login.incr")
    BY <1>1 DEF Step, Requests, Compared
  <2>2. Goto(w, [request[w] EXCEPT !.at = "login.del", !.version = account[e].version])
    BY <1>5, <2>1 DEF LoginFind
  <2>3. request'[w].user = e /\ request'[w].version = account[e].version
    BY <1>1, <2>2 DEF Goto, Requests
  <2> QED BY <2>3
<1> QED BY <1>2, <1>3, <1>4, <1>5, RequestMoved, StageAfter

LEMMA StaysMatched ==
  ASSUME IInv, Next, NEW e \in Emails, Matched(e),
         account'[e].version = account[e].version
  PROVE  Matched(e)'
<1>1. ASSUME NEW x \in SessionIds, Open(x)', session'[x].user = e
      PROVE  session'[x].opened = account'[e].version
  BY <1>1, OpenBefore DEF Matched, Compared
<1>2. ASSUME NEW w \in Workers, request'[w].at \in Compared, request'[w].user = e
      PROVE  request'[w].version = account'[e].version
  BY <1>2, ComparedBefore DEF Matched
<1> QED BY <1>1, <1>2 DEF Matched, Compared

\* Only a write of the password leaves sessions or logins of an older one, and
\* once they are gone nothing but another write brings any back.
THEOREM SessionsMatched == Spec => SessionsStayMatched
<1>1. IInv /\ [Next]_vars =>
        [\A e \in Emails :
           Matched(e) /\ account'[e].version = account[e].version => Matched(e)']_vars
  BY StaysMatched
<1> QED BY <1>1, InvariantHolds, PTL DEF Spec, SessionsStayMatched

-------------------------------------------------------------------------------
(* One request at a time: the sessions of an old password are on their way out *)

\* Sessions, and requests past the comparison, are of users that are there.
Enrolled ==
  /\ \A w \in Workers : request[w].at \in Compared => Registered(request[w].user)
  /\ \A w \in Workers : request[w].at = "register.create" => request[w].version = 1
  /\ \A x \in SessionIds : Open(x) => Registered(session[x].user)

\* A request that has written the password of e, or found no such session of
\* it, and will delete the sessions.
Dropping(e) ==
  \E w \in Workers : /\ request[w].at \in {"reset.del", "drop"}
                     /\ request[w].user = e

LEMMA EnrolledStep == IInv /\ Enrolled /\ [Next]_vars => Enrolled'
<1> SUFFICES ASSUME IInv, Enrolled, [Next]_vars PROVE Enrolled'
  OBVIOUS
<1>0. /\ account \in [Emails -> Accounts] /\ request \in [Workers -> Requests]
      /\ \A w \in Workers : request[w] \in Requests /\ Shape(request[w])
      /\ \A x \in SessionIds : Open(x) => session[x].user \in Emails
  BY DEF IInv, TypeOK, Rows, Open
<1>1. CASE UNCHANGED vars
  BY <1>1 DEF vars, Enrolled, Registered, Open
<1>2. CASE Next
  <2>1. \A e \in Emails : Registered(e) => Registered(e)'
    BY <1>2, RegisteredStays DEF Registered
  <2>2. ASSUME NEW w \in Workers, request'[w].at \in Compared
        PROVE  Registered(request[w].user)' /\ request'[w].user = request[w].user
    <3>1. CASE request'[w] = request[w]
      BY <1>0, <2>1, <2>2, <3>1 DEF Enrolled, Shape, Compared, Registered
    <3>2. CASE RegisterCreate(w)
      <4>1. ~Finish(w)
        BY <1>0, <2>2 DEF Finish, Goto, Idle, Compared
      <4>2. /\ WritePassword(request[w].user)
            /\ Step(w, "register.wallet") /\ request[w].user \in Emails
        BY <1>0, <3>2, <4>1 DEF RegisterCreate, Shape
      <4> QED BY <1>0, <4>2 DEF WritePassword, Registered, Accounts, Step, Requests
    <3>3. CASE RegisterWallet(w) \/ LoginDel(w)
      <4>1. /\ request[w].at \in Compared /\ request[w].user \in Emails
            /\ request'[w].user = request[w].user
        BY <1>0, <3>3 DEF RegisterWallet, LoginDel, Step, Requests, Shape, Compared
      <4> QED BY <2>1, <4>1 DEF Enrolled, Registered
    <3>4. CASE LoginFind(w)
      <4>1. ~Step(w, "login.incr")
        BY <1>0, <2>2 DEF Step, Requests, Compared
      <4>2. /\ Registered(request[w].user) /\ request[w].user \in Emails
            /\ request'[w].user = request[w].user
        BY <1>0, <3>4, <4>1 DEF LoginFind, Goto, Requests, Shape
      <4> QED BY <2>1, <4>2 DEF Registered
    <3> QED BY <1>2, <2>2, <3>1, <3>2, <3>3, <3>4, RequestMoved, StageAfter
  <2>3. ASSUME NEW w \in Workers, request'[w].at = "register.create"
        PROVE  request'[w].version = 1
    <3>1. CASE request'[w] = request[w]
      BY <2>3, <3>1 DEF Enrolled
    <3>2. CASE RegisterFind(w)
      BY <1>0, <2>3, <3>2 DEF RegisterFind, Takes, Goto, Idle
    <3> QED BY <1>2, <2>3, <3>1, <3>2, RequestMoved, StageAfter
  <2>4. ASSUME NEW x \in SessionIds, Open(x)' PROVE Registered(session[x].user)'
    <3>1. CASE Open(x) /\ session'[x].user = session[x].user
      BY <1>0, <2>1, <3>1 DEF Enrolled, Registered
    <3>2. ASSUME NEW w \in Workers, request[w].at = "session.create",
                 session'[x].user = request[w].user
          PROVE  Registered(session[x].user)'
      BY <1>0, <2>1, <3>2 DEF Enrolled, Registered, Shape, Compared
    <3> QED BY <1>2, <2>4, <3>1, <3>2, OpenBefore
  <2> QED BY <2>2, <2>3, <2>4 DEF Enrolled, Registered, Compared
<1> QED BY <1>1, <1>2

\* A write of the password is followed by the deletion of the sessions, unless
\* there can be none: the user has just been registered.
LEMMA PasswordWritten ==
  ASSUME NEW x, Workers = {x}, IInv, Enrolled, CalmNext, NEW e \in Emails,
         account'[e].version # account[e].version
  PROVE  Matched(e)' \/ Dropping(e)'
<1>0. /\ account \in [Emails -> Accounts] /\ request \in [Workers -> Requests]
      /\ request[x] \in Requests /\ Shape(request[x])
  BY DEF IInv, TypeOK
<1>1. RegisterCreate(x) \/ ChangeWrite(x) \/ ResetWrite(x)
  <2>1. ~UNCHANGED account /\ ~RegisterWallet(x)
    BY <1>0 DEF RegisterWallet, Accounts
  <2> QED BY <2>1 DEF CalmNext, Time, Tick, ExpireAttempts, ExpireReset, ExpireSession,
                      Serve, SessionsNext, RegisterFind, LoginCheck, LoginFind, LoginIncr,
                      LoginExpire, LoginDel, SessionCreate, TokenSign, TokenStore, Answer,
                      RefreshFind, RefreshDelete, LogoutAll, LogoutOne, PasswordsNext,
                      ChangeFind, Forgot, ResetFind, ResetDel, DropSessions
<1>2. request[x].user = e
  <2>1. ASSUME NEW u, WritePassword(u) PROVE u = e
    BY <1>0, <2>1 DEF WritePassword
  <2> QED BY <1>1, <2>1 DEF RegisterCreate, ChangeWrite, ResetWrite
<1>3. CASE ChangeWrite(x) \/ ResetWrite(x)
  <2>1. request'[x].at \in {"reset.del", "drop"} /\ request'[x].user = e
    BY <1>0, <1>2, <1>3 DEF ChangeWrite, ResetWrite, Step, Requests
  <2> QED BY <2>1 DEF Dropping
<1>4. CASE RegisterCreate(x)
  <2>1. /\ ~Registered(e) /\ WritePassword(e)
        /\ UNCHANGED session /\ Step(x, "register.wallet")
        /\ request[x].at = "register.create"
    BY <1>2, <1>4 DEF RegisterCreate
  <2>2. request'[x].version = 1 /\ account'[e].version = 1
    BY <1>0, <2>1 DEF Enrolled, Step, Requests, WritePassword, Registered, Accounts
  <2>3. \A y \in SessionIds : ~(Open(y) /\ session[y].user = e)
    BY <2>1 DEF Enrolled
  <2> QED BY <2>1, <2>2, <2>3 DEF Matched, Open
<1> QED BY <1>1, <1>3, <1>4

\* The deletion leaves no session, and no other request could open one.
LEMMA SessionsDropped ==
  ASSUME NEW x, Workers = {x}, IInv, CalmNext, NEW e \in Emails, Dropping(e)
  PROVE  Matched(e)' \/ Dropping(e)'
<1>0. /\ session \in [SessionIds -> Sessions] /\ request \in [Workers -> Requests]
      /\ request[x] \in Requests
  BY DEF IInv, TypeOK
<1>1. request[x].at \in {"reset.del", "drop"} /\ request[x].user = e
  BY DEF Dropping
<1>2. CASE Time
  <2>1. UNCHANGED request
    BY <1>2 DEF Time, Tick, ExpireAttempts, ExpireReset, ExpireSession
  <2> QED BY <1>1, <2>1 DEF Dropping
<1>3. CASE ResetDel(x)
  <2>1. request'[x].at = "drop" /\ request'[x].user = e
    BY <1>0, <1>1, <1>3 DEF ResetDel, Step, Requests
  <2> QED BY <2>1 DEF Dropping
<1>4. CASE DropSessions(x)
  <2>1. CloseAll(e) /\ request'[x] = Idle
    BY <1>0, <1>1, <1>4 DEF DropSessions, Finish, Goto
  <2>2. ASSUME NEW y \in SessionIds PROVE ~(Open(y) /\ session[y].user = e)'
    <3>1. CASE Open(y) /\ session[y].user = e
      <4>1. session'[y] = [session[y] EXCEPT !.state = "closed"]
        BY <2>1, <3>1 DEF CloseAll
      <4> QED BY <1>0, <4>1 DEF Open, Sessions
    <3>2. CASE ~(Open(y) /\ session[y].user = e)
      <4>1. session'[y] = session[y]
        BY <2>1, <3>2 DEF CloseAll
      <4> QED BY <3>2, <4>1 DEF Open
    <3> QED BY <3>1, <3>2
  <2>3. request'[x].at \notin Compared
    BY <2>1 DEF Idle, Compared
  <2> QED BY <2>2, <2>3 DEF Matched, Open, Compared
<1>5. Time \/ ResetDel(x) \/ DropSessions(x)
  BY <1>1 DEF CalmNext, Serve, SessionsNext, RegisterFind, RegisterCreate, RegisterWallet,
              LoginCheck, LoginFind, LoginIncr, LoginExpire, LoginDel, SessionCreate,
              TokenSign, TokenStore, Answer, RefreshFind, RefreshDelete, LogoutAll,
              LogoutOne, PasswordsNext, ChangeFind, ChangeWrite, Forgot, ResetFind,
              ResetWrite, Takes
<1> QED BY <1>2, <1>3, <1>4, <1>5

\* With one request at a time and no failed call, a session was opened with the
\* password that the account has now: "force re-login" (changePassword).
THEOREM ReloginForced ==
  ASSUME NEW x, Workers = {x}
  PROVE  CalmSpec => []SessionsMatchPassword
<1> DEFINE MatchedSoon == \A e \in Emails : Matched(e) \/ Dropping(e)
<1>1. Init => Enrolled /\ MatchedSoon
  BY DEF Init, Enrolled, Matched, Open, NoSession, Idle, Compared
<1>2. IInv /\ Enrolled /\ [CalmNext]_vars => Enrolled'
  BY EnrolledStep DEF Next
<1>3. IInv /\ Enrolled /\ MatchedSoon /\ [CalmNext]_vars => MatchedSoon'
  <2> SUFFICES ASSUME IInv, Enrolled, MatchedSoon, [CalmNext]_vars, NEW e \in Emails
               PROVE  Matched(e)' \/ Dropping(e)'
    OBVIOUS
  <2>1. CASE UNCHANGED vars
    BY <2>1 DEF vars, Matched, Dropping, Open, Compared
  <2>2. CASE CalmNext
    BY <2>2, StaysMatched, PasswordWritten, SessionsDropped DEF Next
  <2> QED BY <2>1, <2>2
<1>4. IInv /\ MatchedSoon => SessionsMatchPassword
  BY DEF IInv, Rows, SessionsMatchPassword, Matched, Dropping, Open
<1> QED BY <1>1, <1>2, <1>3, <1>4, CalmInvariant, PTL DEF CalmSpec

===============================================================================

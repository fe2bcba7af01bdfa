----------------------------- MODULE AuthSessions ------------------------------
(***************************************************************************)
(* AuthService: register, login with its lockout counter, the creation of  *)
(* a session, the rotation of refresh tokens and logout.                   *)
(***************************************************************************)
EXTENDS AuthStore, Integers

-------------------------------------------------------------------------------
(* register *)

RegisterFind(w) ==
  /\ Takes(w, "register")
  /\ \E e \in Emails :
       \/ \E x \in SessionIds :
            /\ ~Registered(e) /\ Fresh(x)
            /\ Goto(w, [Idle EXCEPT !.at = "register.create", !.user = e,
                                    !.session = x, !.version = 1])
       \/ /\ Registered(e)
          /\ UNCHANGED request
  /\ UNCHANGED <<account, session, attempts, reset, issued, now>>

RegisterCreate_Upsert(w) ==
  /\ request[w].at = "register.create"
  /\ WritePassword(request[w].user)
  /\ Step(w, "register.wallet")
  /\ UNCHANGED <<session, attempts, reset, issued, now>>

\* The column email is unique: a user inserted since the lookup fails this
\* insert.
RegisterCreate(w) ==
  LET e == request[w].user IN
  /\ request[w].at = "register.create"
  /\ \/ /\ ~Registered(e)
        /\ WritePassword(e)
        /\ Step(w, "register.wallet")
     \/ /\ Registered(e)
        /\ Finish(w)
        /\ UNCHANGED account
  /\ UNCHANGED <<session, attempts, reset, issued, now>>

RegisterWallet_Skipped(w) ==
  /\ request[w].at = "register.wallet"
  /\ Step(w, "session.create")
  /\ UNCHANGED <<account, session, attempts, reset, issued, now>>

RegisterWallet(w) ==
  /\ request[w].at = "register.wallet"
  /\ account' = [account EXCEPT ![request[w].user].wallet = TRUE]
  /\ Step(w, "session.create")
  /\ UNCHANGED <<session, attempts, reset, issued, now>>

-------------------------------------------------------------------------------
(* login *)

Locked(e) == attempts[e].count >= LOCKOUT_MAX_ATTEMPTS

LoginCheck_AfterLimit(w) ==
  /\ Takes(w, "login")
  /\ \E e \in Emails :
       \/ \E x \in SessionIds :
            /\ attempts[e].count <= LOCKOUT_MAX_ATTEMPTS /\ Fresh(x)
            /\ Goto(w, [Idle EXCEPT !.at = "login.find", !.user = e,
                                    !.session = x])
       \/ /\ attempts[e].count > LOCKOUT_MAX_ATTEMPTS
          /\ UNCHANGED request
  /\ UNCHANGED <<account, session, attempts, reset, issued, now>>

\* checkAccountLockout
LoginCheck(w) ==
  /\ Takes(w, "login")
  /\ \E e \in Emails :
       \/ \E x \in SessionIds :
            /\ ~Locked(e) /\ Fresh(x)
            /\ Goto(w, [Idle EXCEPT !.at = "login.find", !.user = e,
                                    !.session = x])
       \/ /\ Locked(e)
          /\ UNCHANGED request
  /\ UNCHANGED <<account, session, attempts, reset, issued, now>>

\* The user is found, and the password is compared with the hash that was
\* found: it is right, or it is wrong, or there is no user.
LoginFind(w) ==
  LET e == request[w].user IN
  /\ request[w].at = "login.find"
  /\ \/ /\ Registered(e)
        /\ Goto(w, [request[w] EXCEPT !.at = "login.del",
                                      !.version = account[e].version])
     \/ Step(w, "login.incr")
  /\ UNCHANGED <<account, session, attempts, reset, issued, now>>

LoginIncr_ExpireSecond(w) ==
  LET e == request[w].user
      n == attempts[e].count + 1 IN
  /\ request[w].at = "login.incr"
  /\ attempts' = [attempts EXCEPT ![e].count = n]
  /\ \/ n = 2 /\ Step(w, "login.expire")
     \/ n # 2 /\ Finish(w)
  /\ UNCHANGED <<account, session, reset, issued, now>>

\* incrementFailedAttempts: INCR creates the key without a time to live, and
\* the caller that got 1 sets it.
LoginIncr(w) ==
  LET e == request[w].user
      n == attempts[e].count + 1 IN
  /\ request[w].at = "login.incr"
  /\ attempts' = [attempts EXCEPT ![e].count = n]
  /\ \/ n = 1 /\ Step(w, "login.expire")
     \/ n # 1 /\ Finish(w)
  /\ UNCHANGED <<account, session, reset, issued, now>>

\* EXPIRE does nothing when the key is gone.
LoginExpire(w) ==
  LET e == request[w].user IN
  /\ request[w].at = "login.expire"
  /\ attempts' = [attempts EXCEPT ![e].ttl = attempts[e].count > 0]
  /\ Finish(w)
  /\ UNCHANGED <<account, session, reset, issued, now>>

LoginDel_TakesOneBack(w) ==
  /\ request[w].at = "login.del"
  /\ attempts' = [attempts EXCEPT ![request[w].user].count = @ - 1]
  /\ Step(w, "session.create")
  /\ UNCHANGED <<account, session, reset, issued, now>>

\* The counter is cleared; the update of lastLoginAt that follows writes
\* nothing that is modelled.
LoginDel(w) ==
  /\ request[w].at = "login.del"
  /\ attempts' = [attempts EXCEPT ![request[w].user] = NoKey]
  /\ Step(w, "session.create")
  /\ UNCHANGED <<account, session, reset, issued, now>>

-------------------------------------------------------------------------------
(* generateTokensAndCreateSession, and the rotation in refreshTokens *)

\* The row is inserted with the refresh token 'pending', here Null.
SessionCreate(w) ==
  LET r == request[w] IN
  /\ r.at = "session.create"
  /\ session' = [session EXCEPT ![r.session] =
                   [NoSession EXCEPT !.state = "open", !.user = r.user,
                                     !.opened = r.version]]
  /\ Step(w, "token.sign")
  /\ UNCHANGED <<account, attempts, reset, issued, now>>

TokenSign(w) ==
  /\ request[w].at = "token.sign"
  /\ Goto(w, [request[w] EXCEPT !.at = "token.store",
                !.token = [session |-> request[w].session, iat |-> now]])
  /\ UNCHANGED <<account, session, attempts, reset, issued, now>>

TokenStore_Upsert(w) ==
  LET r == request[w] IN
  /\ r.at = "token.store"
  /\ session' = [session EXCEPT ![r.session].state = "open",
                                ![r.session].refreshToken = r.token]
  /\ Step(w, "answer")
  /\ UNCHANGED <<account, attempts, reset, issued, now>>

TokenStore_Skipped(w) ==
  /\ request[w].at = "token.store"
  /\ Step(w, "answer")
  /\ UNCHANGED <<account, session, attempts, reset, issued, now>>

\* session.update rejects when the row was deleted meanwhile.
TokenStore(w) ==
  LET r == request[w] IN
  /\ r.at = "token.store"
  /\ \/ /\ Open(r.session)
        /\ session' = [session EXCEPT ![r.session].refreshToken = r.token,
                                      ![r.session].expired = FALSE]
        /\ Step(w, "answer")
     \/ /\ ~Open(r.session)
        /\ Finish(w)
        /\ UNCHANGED session
  /\ UNCHANGED <<account, attempts, reset, issued, now>>

Answer(w) ==
  /\ request[w].at = "answer"
  /\ issued' = issued \cup {request[w].token}
  /\ Finish(w)
  /\ UNCHANGED <<account, session, attempts, reset, now>>

-------------------------------------------------------------------------------
(* refreshTokens *)

\* A token that verifies, and is the one its session holds, is rotated; the
\* user, who is looked up next, is never removed.
RefreshFind(w) ==
  /\ Takes(w, "refresh")
  /\ \E t \in issued :
       LET x == t.session
           matches == Open(x) /\ session[x].refreshToken = t IN
       \/ /\ matches
          /\ Goto(w, [Idle EXCEPT
                        !.at = IF session[x].expired THEN "refresh.delete"
                                                     ELSE "token.sign",
                        !.user = session[x].user, !.session = x])
       \/ /\ ~matches
          /\ UNCHANGED request
  /\ UNCHANGED <<account, session, attempts, reset, issued, now>>

RefreshDelete(w) ==
  LET x == request[w].session IN
  /\ request[w].at = "refresh.delete"
  /\ \/ Open(x) /\ CloseSession(x)
     \/ ~Open(x) /\ UNCHANGED session
  /\ Finish(w)
  /\ UNCHANGED <<account, attempts, reset, issued, now>>

-------------------------------------------------------------------------------
(* logout: the caller's access token names a user, whatever became of the   *)
(* sessions.  A token that does not verify, or none, ends all of them.      *)

LogoutAll(w) ==
  /\ Takes(w, "logout")
  /\ \E e \in Emails : SignedIn(e) /\ CloseAll(e)
  /\ UNCHANGED <<account, attempts, reset, issued, now, request>>

\* With a token that verifies its session is deleted, and when that call
\* rejects, as it does for a row that is gone, the catch block ends all
\* sessions of the caller.  Nothing asks whose session the token is of.
LogoutOne(w) ==
  /\ Takes(w, "logout")
  /\ \E e \in Emails, t \in issued :
       /\ SignedIn(e)
       /\ \/ /\ Open(t.session)
             /\ CloseSession(t.session)
             /\ UNCHANGED request
          \/ /\ ~Open(t.session)
             /\ Goto(w, [Idle EXCEPT !.at = "logout.drop", !.user = e])
             /\ UNCHANGED session
  /\ UNCHANGED <<account, attempts, reset, issued, now>>

-------------------------------------------------------------------------------

SessionsNext(w) ==
  \/ RegisterFind(w) \/ RegisterCreate(w) \/ RegisterWallet(w)
  \/ LoginCheck(w) \/ LoginFind(w) \/ LoginIncr(w) \/ LoginExpire(w)
  \/ LoginDel(w)
  \/ SessionCreate(w) \/ TokenSign(w) \/ TokenStore(w) \/ Answer(w)
  \/ RefreshFind(w) \/ RefreshDelete(w)
  \/ LogoutAll(w) \/ LogoutOne(w)

===============================================================================

--------------------------------- MODULE Auth ----------------------------------
(***************************************************************************)
(* AuthService: the handlers of AuthSessions and AuthPasswords interleaved *)
(* over users, sessions and Redis keys, and what they guarantee together.  *)
(***************************************************************************)
EXTENDS AuthSessions, AuthPasswords

Serve(w) == SessionsNext(w) \/ PasswordsNext(w)

\* A database or Redis call rejects, or the process stops.
Fail(w) ==
  /\ request[w].at # "idle"
  /\ Finish(w)
  /\ UNCHANGED <<account, session, attempts, reset, issued, now>>

\* The deletion in logout rejects although the row is there.
LogoutFails(w) ==
  /\ Takes(w, "logout")
  /\ \E e \in Emails, t \in issued :
       /\ SignedIn(e) /\ Open(t.session)
       /\ Goto(w, [Idle EXCEPT !.at = "logout.drop", !.user = e])
  /\ UNCHANGED <<account, session, attempts, reset, issued, now>>

-------------------------------------------------------------------------------
(* Time: a second passes, a Redis key or a session reaches its end. *)

Tick ==
  /\ now < MaxTime
  /\ now' = now + 1
  /\ UNCHANGED <<account, session, attempts, reset, issued, request>>

ExpireAttempts(e) ==
  /\ attempts[e].ttl
  /\ attempts' = [attempts EXCEPT ![e] = NoKey]
  /\ UNCHANGED <<account, session, reset, issued, now, request>>

ExpireReset(t) ==
  /\ reset[t].state = "live"
  /\ reset' = [reset EXCEPT ![t].state = "gone"]
  /\ UNCHANGED <<account, session, attempts, issued, now, request>>

ExpireSession(x) ==
  /\ Open(x) /\ session[x].refreshToken # Null /\ ~session[x].expired
  /\ session' = [session EXCEPT ![x].expired = TRUE]
  /\ UNCHANGED <<account, attempts, reset, issued, now, request>>

Time ==
  \/ Tick
  \/ \E e \in Emails : ExpireAttempts(e)
  \/ \E t \in ResetTokens : ExpireReset(t)
  \/ \E x \in SessionIds : ExpireSession(x)

-------------------------------------------------------------------------------

CalmNext == Time \/ \E w \in Workers : Serve(w)
Next == CalmNext \/ \E w \in Workers : Fail(w) \/ LogoutFails(w)

Spec == Init /\ [][Next]_vars

\* A call returns or throws, and its handler is resumed; Redis removes a key
\* whose time to live is over.
Resume(w) == request[w].at # "idle" /\ Serve(w)
Fairness == /\ \A w \in Workers : WF_vars(Resume(w))
            /\ \A e \in Emails : WF_vars(ExpireAttempts(e))
FairSpec == Spec /\ Fairness

\* No call fails and the process does not stop.
CalmSpec == Init /\ [][CalmNext]_vars /\ Fairness

-------------------------------------------------------------------------------
(* Properties of every behaviour *)

TypeOK ==
  /\ account \in [Emails -> Accounts]
  /\ session \in [SessionIds -> Sessions]
  /\ attempts \in [Emails -> Counters]
  /\ reset \in [ResetTokens -> Resets]
  /\ issued \in SUBSET Tokens
  /\ now \in 0 .. MaxTime
  /\ request \in [Workers -> Requests]

L == INSTANCE SessionLife WITH
       Users <- Emails,
       phase <- [x \in SessionIds |-> session[x].state],
       owner <- [x \in SessionIds |-> session[x].user],
       token <- [x \in SessionIds |-> session[x].refreshToken]

\* The handlers implement the life of a session: a deleted session is never
\* revived by a refresh or a login still under way, it keeps its user and
\* takes only its own tokens, and no request ends the sessions of two users.
Life == L!Spec

\* The requests that may write the password of e: the registration of an email
\* that has no user, a change by the user, and the use of a reset token that
\* was sent to the user.
PasswordWriters(e) ==
  {w \in Workers :
     /\ request[w].user = e
     /\ \/ request[w].at = "register.create" /\ ~Registered(e)
        \/ request[w].at = "change.write" /\ Registered(e)
        \/ /\ request[w].at = "reset.write" /\ Registered(e)
           /\ reset[request[w].resetToken].user = e}

\* Nobody else writes it, once each: a registration that found no user never
\* overwrites the password of one that was inserted meanwhile (register), and
\* no change or reset writes that of another user (changePassword,
\* resetPassword).
PasswordsOnlyAdvance ==
  [][\A e \in Emails : account'[e].version # account[e].version =>
       /\ account'[e].version = account[e].version + 1
       /\ \E w \in PasswordWriters(e) : request'[w] # request[w]]_vars

\* A reset token that is used up, or whose hour is over, stays so and no request
\* takes it up any more: what it may still write are the passwords of the
\* requests that had found it (resetPassword deletes it after the write).
Redeeming(t) ==
  {w \in Workers : /\ request[w].at \in {"reset.write", "reset.del"}
                   /\ request[w].resetToken = t}
ResetTokensSpent ==
  [][\A t \in ResetTokens : reset[t].state = "gone" =>
       reset'[t] = reset[t] /\ Redeeming(t)' \subseteq Redeeming(t)]_vars

\* The sessions of a user were opened with the password the account has, and
\* so was compared what the requests will open that are past the comparison.
Compared == {"register.wallet", "login.del", "session.create"}
Matched(e) ==
  /\ \A x \in SessionIds :
       Open(x) /\ session[x].user = e => session[x].opened = account[e].version
  /\ \A w \in Workers :
       request[w].at \in Compared /\ request[w].user = e
         => request[w].version = account[e].version

\* Only a write of the password parts the two, and when the sessions of the old
\* one are gone and the logins that compared with it are over, no refresh, no
\* login and no store of a token brings one back (changePassword, login).
SessionsStayMatched ==
  [][\A e \in Emails :
       Matched(e) /\ account'[e].version = account[e].version => Matched(e)']_vars

\* login compares the counter before the attempt and adds to it afterwards, in
\* two calls: it passes the limit by no more than the attempts that were under
\* way with it (checkAccountLockout, incrementFailedAttempts).
AttemptsBounded ==
  \A e \in Emails :
    attempts[e].count < LOCKOUT_MAX_ATTEMPTS + Cardinality(Workers)

-------------------------------------------------------------------------------
(* Properties of behaviours in which no call fails *)

\* The session of a client is of use to it: whoever stored its last refresh
\* token has been answered with it, however refreshes of one token and logins
\* overlap (generateTokensAndCreateSession, refreshTokens).
SessionsAreUsable ==
  \A x \in SessionIds :
    Open(x) /\ (\A w \in Workers : request[w].session # x)
      => session[x].refreshToken \in issued

\* A user has a wallet, or the registration that inserted it is about to
\* create one, also when two register the same email (register).
AccountsComplete ==
  \A e \in Emails :
    Registered(e) => \/ account[e].wallet
                     \/ \E w \in Workers : /\ request[w].at = "register.wallet"
                                           /\ request[w].user = e

\* An account that failed attempts have locked is unlocked: "Try again in ...
\* minutes" (checkAccountLockout).  Where calls may fail, as in FairSpec, the
\* key may be left without a time to live, and the account locked for good.
Unlocks == \A e \in Emails : Locked(e) ~> ~Locked(e)

-------------------------------------------------------------------------------
(* What the repository says of the code, and the code does not do *)

\* "Invalidate all sessions (force re-login)" (changePassword): when no request
\* is under way, a session was opened with the password the account now has.
SessionsMatchPassword ==
  (\A w \in Workers : request[w].at = "idle")
    => \A x \in SessionIds :
         Open(x) => session[x].opened = account[session[x].user].version

===============================================================================

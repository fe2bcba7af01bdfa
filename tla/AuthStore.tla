------------------------------- MODULE AuthStore -------------------------------
(***************************************************************************)
(* What the handlers of AuthService share: the rows of users, wallets and  *)
(* sessions in PostgreSQL, the keys auth:lockout:* and auth:reset:* in     *)
(* Redis, the refresh tokens clients have been answered, and the requests  *)
(* in flight.  As in the logistics services, an action is the code from    *)
(* one await to the next and ends with the one call it issues.             *)
(*                                                                         *)
(* A password is the number of times the password_hash of the account has  *)
(* been written: comparePassword tells whether the caller knows the        *)
(* password of the version the handler has read.                           *)
(***************************************************************************)
EXTENDS Naturals, FiniteSets

CONSTANTS
  Emails,                \* email addresses, each with at most one user row
  SessionIds,            \* ids of session rows (UUIDs: never drawn twice)
  ResetTokens,           \* reset tokens (random: never drawn twice)
  LOCKOUT_MAX_ATTEMPTS,  \* 5 in the code
  Workers,               \* bound: requests in flight at one time
  Endpoints,             \* bound: the endpoints a run exercises
  MaxVersion,            \* bound: no request that writes a password starts at it
  MaxTime,               \* bound: the seconds that pass
  Null

ASSUME AuthAssumption ==
  /\ LOCKOUT_MAX_ATTEMPTS \in Nat \ {0}
  /\ MaxVersion \in Nat
  /\ MaxTime \in Nat
  /\ IsFiniteSet(Workers)

ASSUME AuthNullAssumption ==
  Null \notin Emails \cup SessionIds \cup ResetTokens
                     \cup [session : SessionIds, iat : 0 .. MaxTime]

VARIABLES
  account,   \* users and wallets: version 0 when the email has no user
  session,   \* sessions: a row is open from its insert to its deletion
  attempts,  \* auth:lockout:<email>: no key when the count is 0
  reset,     \* auth:reset:<token>: the user it was sent to while it is live
  issued,    \* the refresh tokens that clients have been answered
  now,       \* the clock that stamps tokens, in seconds
  request    \* the request each worker is serving, with its local variables

vars == <<account, session, attempts, reset, issued, now, request>>

-------------------------------------------------------------------------------
(* Values *)

\* A refresh token is what its JWT says: the session and the second it was
\* signed in.  Two signed for a session in one second are the same string.
Tokens == [session : SessionIds, iat : 0 .. MaxTime]

\* The await a request is suspended at, named for the call that follows it.
Stages == {"idle", "register.create", "register.wallet",
           "login.find", "login.incr", "login.expire", "login.del",
           "session.create", "refresh.delete", "token.sign", "token.store",
           "answer", "logout.drop", "change.write", "reset.write", "reset.del",
           "drop"}

Accounts == [version : Nat, wallet : BOOLEAN]
\* opened, the version of the password the session was opened with, is not a
\* column: it is kept to state properties.
Sessions == [state : {"none", "open", "closed"}, user : Emails \cup {Null},
             refreshToken : Tokens \cup {Null}, expired : BOOLEAN,
             opened : Nat]
Counters == [count : Nat, ttl : BOOLEAN]
Resets == [state : {"none", "live", "gone"}, user : Emails \cup {Null}]
Requests == [at : Stages, user : Emails \cup {Null},
             session : SessionIds \cup {Null}, token : Tokens \cup {Null},
             version : Nat, resetToken : ResetTokens \cup {Null}]

NoAccount == [version |-> 0, wallet |-> FALSE]
NoSession == [state |-> "none", user |-> Null, refreshToken |-> Null,
              expired |-> FALSE, opened |-> 0]
NoKey == [count |-> 0, ttl |-> FALSE]
Idle == [at |-> "idle", user |-> Null, session |-> Null, token |-> Null,
         version |-> 0, resetToken |-> Null]

Init ==
  /\ account = [e \in Emails |-> NoAccount]
  /\ session = [x \in SessionIds |-> NoSession]
  /\ attempts = [e \in Emails |-> NoKey]
  /\ reset = [t \in ResetTokens |-> [state |-> "none", user |-> Null]]
  /\ issued = {}
  /\ now = 0
  /\ request = [w \in Workers |-> Idle]

-------------------------------------------------------------------------------
(* Reads and writes *)

Registered(e) == account[e].version > 0
Open(x) == session[x].state = "open"

\* An id that no row and no request has.
Fresh(x) ==
  /\ session[x].state = "none"
  /\ \A w \in Workers : request[w].session # x

\* The password_hash of a user is written, whatever it was before.
WritePassword(e) == account' = [account EXCEPT ![e].version = @ + 1]

\* prisma.session.deleteMany({ where: { userId } })
CloseAll(e) ==
  session' = [x \in SessionIds |->
                IF Open(x) /\ session[x].user = e
                THEN [session[x] EXCEPT !.state = "closed"] ELSE session[x]]

CloseSession(x) == session' = [session EXCEPT ![x].state = "closed"]

\* JwtAuthGuard: the caller has an access token of the user.  They are answered
\* with refresh tokens, and stay good when the session is gone.
SignedIn(e) == \E t \in issued : session[t.session].user = e

Takes(w, endpoint) == request[w].at = "idle" /\ endpoint \in Endpoints
Goto(w, r) == request' = [request EXCEPT ![w] = r]
Step(w, stage) == request' = [request EXCEPT ![w].at = stage]
Finish(w) == Goto(w, Idle)

===============================================================================

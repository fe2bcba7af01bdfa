----------------------------- MODULE SessionLife -------------------------------
(***************************************************************************)
(* What AuthService promises about sessions, without requests, tables or   *)
(* counters.  A session is opened for a user without a token, is given a   *)
(* token, which later ones replace, and is closed for good: alone, or with *)
(* every other session of its user, and never with one of another user.    *)
(***************************************************************************)
CONSTANTS SessionIds, Users, Tokens, Null

VARIABLES
  phase,  \* of each session: none, open or closed
  owner,  \* the user it was opened for
  token   \* the token it accepts, Null before the first

life == <<phase, owner, token>>

OpenOf(u) == {x \in SessionIds : phase[x] = "open" /\ owner[x] = u}

LifeInit ==
  /\ phase = [x \in SessionIds |-> "none"]
  /\ owner = [x \in SessionIds |-> Null]
  /\ token = [x \in SessionIds |-> Null]

OpenFor(x, u) ==
  /\ phase[x] = "none"
  /\ phase' = [phase EXCEPT ![x] = "open"]
  /\ owner' = [owner EXCEPT ![x] = u]
  /\ UNCHANGED token

\* A token is of one session: it cannot be another's.
Rotate(x, t) ==
  /\ phase[x] = "open"
  /\ t.session = x
  /\ token' = [token EXCEPT ![x] = t]
  /\ UNCHANGED <<phase, owner>>

Close(X) ==
  /\ phase' = [x \in SessionIds |-> IF x \in X THEN "closed" ELSE phase[x]]
  /\ UNCHANGED <<owner, token>>

LifeNext ==
  \/ \E x \in SessionIds, u \in Users : OpenFor(x, u)
  \/ \E x \in SessionIds, t \in Tokens : Rotate(x, t)
  \/ \E u \in Users : Close(OpenOf(u)) \/ \E x \in OpenOf(u) : Close({x})

Spec == LifeInit /\ [][LifeNext]_life

===============================================================================

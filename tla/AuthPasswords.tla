----------------------------- MODULE AuthPasswords -----------------------------
(***************************************************************************)
(* AuthService: changePassword, forgotPassword and resetPassword.  Both    *)
(* writers of a password end with the deletion of the user's sessions, in  *)
(* a call of its own.                                                      *)
(***************************************************************************)
EXTENDS AuthStore

-------------------------------------------------------------------------------
(* changePassword *)

ChangeFind(w) ==
  /\ Takes(w, "change")
  /\ \E e \in Emails :
       /\ SignedIn(e) /\ Registered(e) /\ account[e].version < MaxVersion
       /\ \/ Goto(w, [Idle EXCEPT !.at = "change.write", !.user = e])
          \/ UNCHANGED request  \* the old password is wrong
  /\ UNCHANGED <<account, session, attempts, reset, issued, now>>

ChangeWrite(w) ==
  /\ request[w].at = "change.write"
  /\ WritePassword(request[w].user)
  /\ Step(w, "drop")
  /\ UNCHANGED <<session, attempts, reset, issued, now>>

\* session.deleteMany: the end of changePassword and of resetPassword, and the
\* catch block of logout.
DropSessions(w) ==
  /\ request[w].at \in {"drop", "logout.drop"}
  /\ CloseAll(request[w].user)
  /\ Finish(w)
  /\ UNCHANGED <<account, attempts, reset, issued, now>>

-------------------------------------------------------------------------------
(* forgotPassword: the user is found and a token is stored for an hour.  No *)
(* user is ever removed, so the lookup and SETEX are one step.             *)

Forgot(w) ==
  /\ Takes(w, "forgot")
  /\ \E e \in Emails, t \in ResetTokens :
       /\ Registered(e)
       /\ reset[t].state = "none"
       /\ reset' = [reset EXCEPT ![t] = [state |-> "live", user |-> e]]
  /\ UNCHANGED <<account, session, attempts, issued, now, request>>

-------------------------------------------------------------------------------
(* resetPassword *)

ResetFind_GoneToo(w) ==
  /\ Takes(w, "reset")
  /\ \E t \in ResetTokens :
       /\ reset[t].state # "none"
       /\ account[reset[t].user].version < MaxVersion
       /\ Goto(w, [Idle EXCEPT !.at = "reset.write", !.user = reset[t].user,
                               !.resetToken = t])
  /\ UNCHANGED <<account, session, attempts, reset, issued, now>>

ResetFind(w) ==
  /\ Takes(w, "reset")
  /\ \E t \in ResetTokens :
       \/ /\ reset[t].state = "live"
          /\ account[reset[t].user].version < MaxVersion
          /\ Goto(w, [Idle EXCEPT !.at = "reset.write", !.user = reset[t].user,
                                  !.resetToken = t])
       \/ /\ reset[t].state = "gone"
          /\ UNCHANGED request
  /\ UNCHANGED <<account, session, attempts, reset, issued, now>>

ResetWrite(w) ==
  /\ request[w].at = "reset.write"
  /\ WritePassword(request[w].user)
  /\ Step(w, "reset.del")
  /\ UNCHANGED <<session, attempts, reset, issued, now>>

ResetDel(w) ==
  /\ request[w].at = "reset.del"
  /\ reset' = [reset EXCEPT ![request[w].resetToken].state = "gone"]
  /\ Step(w, "drop")
  /\ UNCHANGED <<account, session, attempts, issued, now>>

-------------------------------------------------------------------------------

PasswordsNext(w) ==
  \/ ChangeFind(w) \/ ChangeWrite(w)
  \/ Forgot(w)
  \/ ResetFind(w) \/ ResetWrite(w) \/ ResetDel(w)
  \/ DropSessions(w)

===============================================================================

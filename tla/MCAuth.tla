-------------------------------- MODULE MCAuth ---------------------------------
(* Instances of Auth for TLC. *)
EXTENDS Auth, TLC

SessionEndpoints == {"register", "login", "refresh", "logout"}
ChangeEndpoints == {"register", "login", "change"}
PasswordEndpoints == {"register", "login", "refresh", "change", "forgot", "reset"}

Symmetry ==
  Permutations(Workers) \cup Permutations(Emails)
    \cup Permutations(SessionIds)

===============================================================================

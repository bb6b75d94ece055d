--------------------------- MODULE MCUserSessions ---------------------------
(***************************************************************************)
(* Instances of UserSessions for TLC.                                      *)
(***************************************************************************)
EXTENDS UserSessions

Symmetry == Permutations(Browsers) \cup Permutations(Users)
              \cup Permutations(Tokens) \cup Permutations(Passwords)
=============================================================================

--------------------------- MODULE MCProfileClaims ---------------------------
(* Small instances of ProfileClaims for TLC. *)
EXTENDS ProfileClaims, TLC

(* Users, names and requests are interchangeable in the safety run. *)
Interchangeable ==
    Permutations(Users) \cup Permutations(Names) \cup Permutations(Procs)
=============================================================================

---------------------------- MODULE MCBuildRefs ----------------------------
(* Small instances of BuildRefs for TLC. *)
EXTENDS BuildRefs, TLC

(* The requests are interchangeable. *)
Interchangeable == Permutations(Procs)
=============================================================================

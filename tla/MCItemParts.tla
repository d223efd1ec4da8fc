---------------------------- MODULE MCItemParts ----------------------------
(* A small instance of ItemParts for TLC. *)
EXTENDS ItemParts, TLC

(* The parts are interchangeable, and so are the requests. *)
Interchangeable == Permutations(Parts) \cup Permutations(Procs)
=============================================================================

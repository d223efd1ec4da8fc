---------------------------- MODULE MCModeration ----------------------------
(* Small instances of Moderation for TLC. *)
EXTENDS Moderation, TLC

(* The deliveries are interchangeable. *)
Interchangeable == Permutations(Deliveries)
=============================================================================

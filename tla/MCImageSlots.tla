---------------------------- MODULE MCImageSlots ----------------------------
(* Small instances of ImageSlots for TLC. *)
EXTENDS ImageSlots, TLC

(* Each kind of record, one at a time. *)
AllKinds == Single \cup Maps

(* Keys are interchangeable, and so are requests. *)
Interchangeable == Permutations(Keys) \cup Permutations(Procs)
=============================================================================

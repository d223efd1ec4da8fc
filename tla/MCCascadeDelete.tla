-------------------------- MODULE MCCascadeDelete --------------------------
(* Small instances of CascadeDelete for TLC. *)
EXTENDS CascadeDelete, TLC

CONSTANTS kb, plate, set, k1, c1, d1, d2

(* One keyboard, which is what builds list, and its plate. *)
Keyboard == {kb}
OwnsItself == [i \in Keyboard |-> {i}]
HasPlates == [i \in Keyboard |-> Parts]

(* One keycap set, and a kit of it that is deleted alone; builds list its  *)
(* kits.                                                                   *)
SetAndKit == {set, k1}
OwnsKits == [i \in SetAndKit |-> IF i = set THEN Refs ELSE {i}]
HasKit == [i \in SetAndKit |-> IF i = set THEN {k1} ELSE {}]

(* One client, and the goroutines of one delete or of two. *)
OneClient == {c1}
OneDelete == {d1}
TwoDeletes == {d1, d2}
WithOneDelete == OneClient \cup (OneDelete \X Builds)
WithTwoDeletes == OneClient \cup (TwoDeletes \X Builds)

(* The builds are interchangeable, and so are the deletes. *)
Interchangeable == Permutations(Builds) \cup Permutations(Deletes)
=============================================================================

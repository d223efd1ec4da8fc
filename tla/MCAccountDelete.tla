-------------------------- MODULE MCAccountDelete --------------------------
(* Small instances of AccountDelete for TLC. *)
EXTENDS AccountDelete, TLC

(* A build with a reference and an image, a switch with an image, and a    *)
(* profile with an avatar; there may come a second build, a keyboard and a *)
(* set.                                                                    *)
SmallAccount ==
    {<<BuildTable, 1>>, MarkerOf(<<BuildTable, 1>>), ImageOf(<<BuildTable, 1>>),
     <<SwitchTable, 1>>, ImageOf(<<SwitchTable, 1>>), Profile, ImageOf(Profile)}
=============================================================================

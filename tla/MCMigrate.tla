----------------------------- MODULE MCMigrate -----------------------------
(* A small instance of Migrate for TLC: one of each kind of item, with two *)
(* switches, the second of which a build refers to.                        *)
EXTENDS Migrate, TLC

CONSTANTS p, pa, k, kp, ki, kj, ke, s, t, ti, c, ck, ci, b, bi, be

TheWalk == <<p, pa, k, kp, ki, kj, ke, s, t, ti, c, ck, ci, b, bi, be>>

TheKind ==
    p :> "profile" @@ pa :> "avatar"
    @@ k :> "keyboard" @@ kp :> "part" @@ ki :> "image" @@ kj :> "image" @@ ke :> "end"
    @@ s :> "switch" @@ t :> "switch" @@ ti :> "slot"
    @@ c :> "set" @@ ck :> "kit" @@ ci :> "slot"
    @@ b :> "build" @@ bi :> "image" @@ be :> "end"

TheParent == [x \in Range(TheWalk) |->
    CASE x \in {p, pa} -> p
      [] x \in {k, kp, ki, kj, ke} -> k
      [] x = s -> s
      [] x \in {t, ti} -> t
      [] x \in {c, ck} -> c
      [] x = ci -> ck
      [] x \in {b, bi, be} -> b]

TheRefs == [x \in Range(TheWalk) |-> IF x = b THEN {k, kp, t, ck} ELSE {}]
=============================================================================

-------------------------- MODULE UsernameRegistry --------------------------
(***************************************************************************)
(* What the profile repository promises about usernames, with no tables,   *)
(* no transactions and no concurrency: a registry in which every member    *)
(* holds exactly one name, a name is held by at most one member, and a     *)
(* name changes hands only by its holder giving it up.                     *)
(*                                                                         *)
(* ProfileClaims implements it: the username table is the registry, and    *)
(* the users that have a profile item are its members.                     *)
(***************************************************************************)
CONSTANTS
    Users,   \* the subjects that can have a profile
    Names,   \* the usernames they can ask for
    NoUser   \* the holder of a name nobody holds

VARIABLES
    holder,   \* [Names -> Users \cup {NoUser}]
    member    \* the users that have a profile

registry == <<holder, member>>

RInit ==
    /\ holder = [n \in Names |-> NoUser]
    /\ member = {}

(* A user with no profile takes a free name. *)
Register(u, n) ==
    /\ u \notin member
    /\ holder[n] = NoUser
    /\ member' = member \cup {u}
    /\ holder' = [holder EXCEPT ![n] = u]

(* A member gives up the name it holds for a free one, in one step. *)
Move(u, from, to) ==
    /\ u \in member
    /\ holder[from] = u
    /\ holder[to] = NoUser
    /\ holder' = [holder EXCEPT ![from] = NoUser, ![to] = u]
    /\ UNCHANGED member

(* A member leaves, and its name becomes free in the same step. *)
Release(u, n) ==
    /\ u \in member
    /\ holder[n] = u
    /\ member' = member \ {u}
    /\ holder' = [holder EXCEPT ![n] = NoUser]

RNext ==
    \E u \in Users, n \in Names :
        \/ Register(u, n)
        \/ Release(u, n)
        \/ \E to \in Names : Move(u, n, to)

RSpec == RInit /\ [][RNext]_registry
=============================================================================

----------------------------- MODULE BuildTable -----------------------------
(***************************************************************************)
(* The build table of one owner, and what a repository call writes to it.  *)
(*                                                                         *)
(* A build item lists the items it is made of: a keyboard, switches and    *)
(* keycap kits.  Next to it, in the same table, lies one marker item per   *)
(* reference, so that an index can answer which builds reference an item.  *)
(* The plate and the PCB it names are parts of its keyboard, which have no *)
(* markers of their own.                                                   *)
(* A build may list the same reference several times; a marker is keyed by *)
(* build and reference, and one transaction may not name a key twice.      *)
(***************************************************************************)
CONSTANTS
    Builds,      \* build ids
    Refs,        \* ids a build can list: a keyboard, a switch, a set's kit
    Repeatable,  \* the references that are lists in a build: switches, kits
    Parts,       \* ids of plates and PCBs
    Unborn,      \* no create has used this build id yet
    Gone         \* the build was deleted

(* What a build lists, which of it more than once, and the parts it names. *)
Contents ==
    {c \in [refs : SUBSET Refs, twice : SUBSET Repeatable, parts : SUBSET Parts] :
        c.twice \subseteq c.refs}

ASSUME ListsOfRefs == Repeatable \subseteq Refs
ASSUME Absent == Unborn \notin Contents /\ Gone \notin Contents /\ Unborn # Gone

VARIABLES
    build,   \* [Builds -> Contents \cup {Unborn, Gone}]
    marker   \* [Builds -> SUBSET Refs], the marker items of each build

TablesOK ==
    /\ build \in [Builds -> Contents \cup {Unborn, Gone}]
    /\ marker \in [Builds -> SUBSET Refs]

(* Mutation of Removed: markers are only ever added. *)
RemovedNothing(old, new) == {}

(* diffRefMarkers: only the differences are written. *)
Added(old, new) == new.refs \ old.refs
Removed(old, new) == old.refs \ new.refs

(* deriveRefMarkers yields one marker per entry of a list, so a transaction *)
(* that puts or deletes the markers rs of c names a key twice in this case. *)
Repeated(c, rs) == c.twice \cap rs # {}

(* DynamoDB refuses such a transaction whatever the table holds. *)
CreateRefused(c) == Repeated(c, c.refs)
UpdateRefused(old, new) == Repeated(new, Added(old, new)) \/ Repeated(old, Removed(old, new))
DeleteRefused(old) == Repeated(old, old.refs)

(* The three transactions, as they commit. *)
WriteCreate(b, c) ==
    /\ build' = [build EXCEPT ![b] = c]
    /\ marker' = [marker EXCEPT ![b] = @ \cup c.refs]

WriteUpdate(b, old, new) ==
    /\ build' = [build EXCEPT ![b] = new]
    /\ marker' = [marker EXCEPT ![b] = (@ \cup Added(old, new)) \ Removed(old, new)]

WriteDelete(b, old) ==
    /\ build' = [build EXCEPT ![b] = Gone]
    /\ marker' = [marker EXCEPT ![b] = @ \ old.refs]

Stored(b) == build[b] \in Contents

(* The markers of b are the ones its item calls for. *)
Exact(b) == marker[b] = IF Stored(b) THEN build[b].refs ELSE {}
=============================================================================

------------------------------ MODULE Migrate ------------------------------
(***************************************************************************)
(* mykeebs-migrate: dump writes an account to a directory, restore creates *)
(* it again in another account, and verify compares the two.               *)
(*                                                                         *)
(* Restore walks the dump in one fixed order.  It writes the new id of     *)
(* whatever it creates into id-map.json, from which a later run goes on    *)
(* when this one is cut short: by an error of the API or the disk, by the  *)
(* loss of a response, or because the process dies.                        *)
(*                                                                         *)
(* What a dump holds is a tree of nodes: a profile with its avatar; a      *)
(* keyboard with its parts and images; a switch with the slot of its       *)
(* image; a set with its kits, each with the slot of an image; a build     *)
(* with its images.  An "end" stands behind the images of an item, where   *)
(* restore saves the map once more.                                        *)
(***************************************************************************)
EXTENDS Naturals, Sequences, FiniteSetsExt, Functions

CONSTANTS
    Walk,              \* the nodes, in the order in which restore takes them
    Kind,              \* the kind of each node
    Parent,            \* the node that holds it; an item holds itself
    Refs,              \* the nodes that a build refers to
    AtFirst,           \* the items of the source when the first dump begins
    PageLimit,         \* items on a page of a listing
    MaxImagesPerItem,  \* images the API accepts on one item
    NoMap, Torn,       \* id-map.json: not there; cut off while written
    MaxEdits,          \* bound: changes of the source's owner
    MaxCuts            \* bound: restores that are cut short

Nodes == Range(Walk)
Position == [x \in Nodes |-> CHOOSE i \in DOMAIN Walk : Walk[i] = x]

Items == {x \in Nodes : Parent[x] = x}

(* The collections of items, in the order in which dump lists them. *)
Collections == <<"keyboard", "switch", "set", "profile", "build">>

(* What may hold a node of a kind, and what a build may refer to. *)
Holders == [avatar |-> {"profile"}, part |-> {"keyboard"}, kit |-> {"set"},
            slot |-> {"switch", "kit"}, image |-> {"keyboard", "build"},
            end |-> {"keyboard", "build"}]
Referable == {"keyboard", "part", "switch", "kit"}

Created == {"keyboard", "switch", "set", "build", "part", "kit"}
Slots == {"avatar", "slot"}
Images == {x \in Nodes : Kind[x] \in Slots \cup {"image"}}

(* The item that holds a node, and all that an item holds. *)
Top(x) == Parent[Parent[x]]
Tree == [x \in Nodes |-> {y \in Nodes : Top(y) = x}]

(* An id says what was copied and which copy of it this is. *)
Ids == [of : Nodes, nth : Nat]

ASSUME Tables ==
    /\ Walk \in Seq(Nodes) /\ \A i, j \in DOMAIN Walk : Walk[i] = Walk[j] => i = j
    /\ Kind \in [Nodes -> Range(Collections) \cup DOMAIN Holders]
    /\ Parent \in [Nodes -> Nodes] /\ Refs \in [Nodes -> SUBSET Nodes]
    /\ AtFirst \subseteq Items
ASSUME Kinds ==
    /\ \A x \in Nodes : x \in Items <=> Kind[x] \in Range(Collections)
    /\ \A x \in Nodes \ Items : Kind[Parent[x]] \in Holders[Kind[x]]
    /\ \A x \in Nodes : \A r \in Refs[x] : Kind[x] = "build" /\ Kind[r] \in Referable
ASSUME Depth == \A x \in Nodes : Top(x) \in Items
ASSUME WholeItems ==  \* an item's nodes follow it, and a holder its contents
    /\ \A x \in Nodes : Position[Parent[x]] <= Position[x]
    /\ \A y \in Nodes : Position[y] < Position[Top(y)] + Cardinality(Tree[Top(y)])
ASSUME ItemImages ==  \* an item's images have an end behind them, and are no more than the API
                      \* accepts: checkImageLimits refuses to restore any other dump
    /\ \A y \in Nodes : Kind[y] = "image" =>
         \E e \in Nodes : Kind[e] = "end" /\ Parent[e] = Parent[y] /\ Position[y] < Position[e]
    /\ \A x \in Nodes : Cardinality({y \in Nodes : Kind[y] = "image" /\ Parent[y] = x}) <= MaxImagesPerItem
ASSUME Marks ==       \* what is no map
    NoMap # Torn /\ \A S \in SUBSET Nodes : NoMap \notin [S -> Ids] /\ Torn \notin [S -> Ids]
ASSUME Bounds == {PageLimit, MaxImagesPerItem, MaxEdits, MaxCuts} \subseteq Nat /\ PageLimit > 0

VARIABLES
    source,    \* the items of the account that is dumped
    stable,    \* history: those there since the dump began
    edits,     \* how often its owner has changed it
    dir,       \* the nodes in the dump's directory
    broken,    \* the items there whose item.json is missing or cut off
    manifest,  \* it has a manifest.json
    todo,      \* dump: items listed and not fetched yet
    cursor,    \* dump: where in the collection the next page begins
    live,      \* the account restored to: what it holds, by id
    taken,     \* the dumped username is another account's
    fits,      \* the API would accept every dumped image
    disk,      \* id-map.json
    mem,       \* restore: the id map in memory
    pc, at,    \* what the tool does next, and for which collection or node
    outcome,   \* how the last restore ended
    verified,  \* the last verify found everything OK
    cuts       \* how many restores were cut short

dumping == <<source, stable, edits, dir, broken, manifest, todo, cursor>>
target == <<taken, fits>>
vars == <<dumping, live, target, disk, mem, pc, at, outcome, verified, cuts>>

IsMap(m) == DOMAIN m \subseteq Nodes /\ Range(m) \subseteq Ids

TypeOK ==
    /\ source \subseteq Items /\ stable \subseteq source /\ todo \subseteq Items
    /\ edits \in 0..MaxEdits /\ cuts \in 0..MaxCuts
    /\ dir \subseteq Nodes /\ broken \subseteq Items \cap dir
    /\ {manifest, taken, fits, verified} \subseteq BOOLEAN
    /\ cursor \in 0..Len(Walk)
    /\ at \in 0..(IF pc \in {"list", "fetch"} THEN Len(Collections) ELSE Len(Walk) + 1)
    /\ DOMAIN live \subseteq Ids
    /\ \A c \in DOMAIN live : /\ live[c].under \in Ids \cup {NoMap}
                              /\ live[c].refs \subseteq Ids
                              /\ live[c].bytes \in {"none", "dumped", "other"}
    /\ disk \in {NoMap, Torn} \/ IsMap(disk)
    /\ mem = NoMap \/ IsMap(mem)
    /\ pc \in {"idle", "list", "fetch", "next", "put", "save"}
    /\ pc \in {"next", "put", "save"} <=> mem # NoMap
    /\ outcome \in {"none", "ok", "error"}

(* f, with y for x. *)
With(f, x, y) == [z \in DOMAIN f \cup {x} |-> IF z = x THEN y ELSE f[z]]

Thing(under, refs, bytes) == [under |-> under, refs |-> refs, bytes |-> bytes]

Init ==
    /\ source = AtFirst /\ stable = {} /\ edits = 0
    /\ dir = {} /\ broken = {} /\ manifest = FALSE /\ todo = {} /\ cursor = 0
    /\ live = [c \in {} |-> NoMap] /\ taken = FALSE /\ fits = TRUE
    /\ disk = NoMap /\ mem = NoMap
    /\ pc = "idle" /\ at = 0
    /\ outcome = "none" /\ verified = FALSE /\ cuts = 0

-----------------------------------------------------------------------------
(* The source's owner goes on using it while it is dumped. *)

Edited == edits < MaxEdits /\ ~manifest /\ edits' = edits + 1
EditsOnly == UNCHANGED <<dir, broken, manifest, todo, cursor, live, target, disk, mem, pc, at,
                         outcome, verified, cuts>>

OwnerAdds(x) ==
    /\ Edited
    /\ x \notin source \cup dir \cup todo
    /\ \A r \in Refs[x] : Top(r) \in source
    /\ source' = source \cup {x}
    /\ UNCHANGED stable /\ EditsOnly

(* Builds that refer to an item block its delete. *)
OwnerDeletes(x) ==
    /\ Edited
    /\ x \in source /\ Kind[x] # "profile"
    /\ \A b \in source, r \in Nodes : r \in Refs[b] => Top(r) # x
    /\ source' = source \ {x}
    /\ stable' = stable \ {x}
    /\ EditsOnly

-----------------------------------------------------------------------------
(* dump *)

Dump(pc1, at1) ==
    /\ pc' = pc1 /\ at' = at1
    /\ UNCHANGED <<source, edits, live, target, disk, mem, outcome, verified, cuts>>

(* A dump that did not finish is made again, into the same directory. *)
DumpRun ==
    /\ pc = "idle" /\ ~manifest
    /\ stable' = source /\ todo' = {} /\ cursor' = 0
    /\ Dump("list", 1) /\ UNCHANGED <<dir, broken, manifest>>

(* What a listing still has beyond the cursor; the ids are its order. *)
Listed == {x \in source : Kind[x] = Collections[at] /\ Position[x] > cursor}
Page == {x \in Listed : Cardinality({y \in Listed : Position[y] <= Position[x]}) <= PageLimit}

(* Mutation of listAll: only the first page is read. *)
listAllFirstPage ==
    /\ pc = "list"
    /\ todo' = todo \cup Page
    /\ cursor' = 0
    /\ Dump("fetch", at) /\ UNCHANGED <<stable, dir, broken, manifest>>

(* A page that is full has a cursor to the next one, which may be empty. *)
listAll ==
    /\ pc = "list"
    /\ todo' = todo \cup Page
    /\ IF Cardinality(Page) = PageLimit
         THEN cursor' = Max({Position[x] : x \in Page}) /\ Dump("list", at)
         ELSE cursor' = 0 /\ Dump("fetch", at)
    /\ UNCHANGED <<stable, dir, broken, manifest>>

IsNext(x) ==
    /\ pc = "fetch" /\ x \in todo
    /\ \A y \in todo : Position[x] <= Position[y]

Fetches(x) == IsNext(x) /\ x \in source

dumpItem(x) ==
    /\ Fetches(x)
    /\ dir' = dir \cup Tree[x] /\ broken' = broken \ {x}
    /\ todo' = todo \ {x}
    /\ Dump("fetch", at) /\ UNCHANGED <<stable, manifest, cursor>>

(* The item is written before its images are downloaded.  The images of a  *)
(* keyboard or build count only once the last one is there, those of kits  *)
(* one by one.                                                             *)
dumpItemStops(x) ==
    /\ Fetches(x)
    /\ \E S \in SUBSET {y \in Tree[x] : Kind[y] \in Slots} :
         dir' = dir \cup S \cup (Tree[x] \ Images)
    /\ broken' = broken \ {x}
    /\ todo' = {}
    /\ Dump("idle", 0) /\ UNCHANGED <<stable, manifest, cursor>>

(* The directory is made before the item is fetched, so a fetch that fails *)
(* leaves it without an item.json, as for an item that was deleted since   *)
(* it was listed.  os.WriteFile empties what is there before it writes, so *)
(* one that fails leaves it cut off; so is a profile.json.                 *)
dumpItemUnwritten(x) ==
    /\ IsNext(x)
    /\ x \in dir => x \in source
    /\ dir' = dir \cup {x} /\ broken' = broken \cup {x}
    /\ todo' = {}
    /\ Dump("idle", 0) /\ UNCHANGED <<stable, manifest, cursor>>

dumpSimpleCollection(x) == Kind[x] \in {"keyboard", "switch", "build"} /\ dumpItem(x)
dumpKeycapSets(x) == Kind[x] = "set" /\ dumpItem(x)
dumpProfile(x) == Kind[x] = "profile" /\ dumpItem(x)

(* Any other error: of a listing, or of a fetch whose item is there from   *)
(* an earlier dump.                                                        *)
dumpStops ==
    /\ pc \in {"list", "fetch"}
    /\ todo' = {} /\ cursor' = 0
    /\ Dump("idle", 0) /\ UNCHANGED <<stable, dir, broken, manifest>>

nextCollection ==
    /\ pc = "fetch" /\ todo = {} /\ at < Len(Collections)
    /\ Dump("list", at + 1) /\ UNCHANGED <<stable, dir, broken, manifest, todo, cursor>>

(* Later changes of the source are of no matter. *)
writeManifest ==
    /\ pc = "fetch" /\ todo = {} /\ at = Len(Collections)
    /\ manifest' = TRUE /\ fits' \in BOOLEAN
    /\ stable' = {} /\ edits' = MaxEdits
    /\ pc' = "idle" /\ at' = 0
    /\ UNCHANGED <<source, dir, broken, todo, cursor, live, taken, disk, mem, outcome, verified, cuts>>

-----------------------------------------------------------------------------
(* The account restored to, until a restore has made it a profile.         *)

Elsewhere == UNCHANGED <<dumping, fits, disk, mem, pc, at, outcome, verified, cuts>>
NoProfile == manifest /\ pc = "idle" /\ live = [c \in {} |-> NoMap]

(* Its owner signs up, and uploads an avatar. *)
TargetSignsUp(x) ==
    /\ NoProfile /\ Kind[x] = "profile"
    /\ live' = [c \in {[of |-> y, nth |-> 1] : y \in Tree[x]} |->
                  IF c.of = x THEN Thing(NoMap, {}, "none")
                              ELSE Thing([of |-> x, nth |-> 1], {}, "other")]
    /\ UNCHANGED taken /\ Elsewhere

UsernameTaken ==
    /\ NoProfile /\ ~taken
    /\ taken' = TRUE
    /\ UNCHANGED live /\ Elsewhere

-----------------------------------------------------------------------------
(* restore *)

(* Mutation of Load: a map that is not there is read as none. *)
LoadNil == disk

Load == IF disk = NoMap THEN [x \in {} |-> NoMap] ELSE disk

(* Before anything is written, the manifest of every image is read, and    *)
(* the image held against the API's limits.                                *)
checkImageLimits == fits

RestoreRun ==
    /\ pc = "idle" /\ manifest /\ checkImageLimits /\ disk # Torn
    /\ mem' = Load
    /\ pc' = "next" /\ at' = 1
    /\ outcome' = "none" /\ verified' = FALSE
    /\ UNCHANGED <<dumping, live, target, disk, cuts>>

Node == Walk[at]
Takes(kinds) == pc = "next" /\ at \in DOMAIN Walk /\ Node \in dir \ broken /\ Kind[Node] \in kinds

(* The copy that a node is restored to, and the slot of an image there. *)
Home(x) == IF Kind[Parent[x]] = "profile" THEN [of |-> Parent[x], nth |-> 1] ELSE mem[Parent[x]]
SlotOf(x) == [of |-> x, nth |-> Home(x).nth]
Holder(x) == IF x \in Items THEN NoMap ELSE Home(x)

Copies(x) == {c \in DOMAIN live : c.of = x}
NewCopy(x) == [of |-> x, nth |-> Cardinality(Copies(x)) + 1]
ImagesUnder(c) == {d \in DOMAIN live : live[d].under = c /\ Kind[d.of] = "image"}

Restoring == UNCHANGED <<dumping, target, outcome, verified, cuts>>

Go(pc1, at1) == pc' = pc1 /\ at' = at1 /\ Restoring

(* The run ends with an error, for a reason that the next run meets again  *)
(* or because it was cut short.                                            *)
Ended ==
    /\ pc' = "idle" /\ at' = 0 /\ mem' = NoMap /\ outcome' = "error"
    /\ UNCHANGED <<dumping, target, verified>>
Fails == Ended /\ UNCHANGED <<live, disk, cuts>>
IsCut == cuts < MaxCuts /\ cuts' = cuts + 1 /\ Ended

(* The API has done what was asked: the tool gets the answer, or it is cut. *)
Answered(mem1, pc1, at1) ==
    /\ UNCHANGED disk
    /\ \/ mem' = mem1 /\ Go(pc1, at1)
       \/ IsCut

Skip(n) == Go("next", at + n) /\ UNCHANGED <<live, disk, mem>>

NotDumped == pc = "next" /\ at \in DOMAIN Walk /\ Node \notin dir /\ Skip(1)

(* Every directory is taken for an item that was dumped. *)
itemUnreadable == pc = "next" /\ at \in DOMAIN Walk /\ Node \in broken /\ Fails

createProfile ==
    /\ Takes({"profile"})
    /\ Copies(Node) = {} /\ ~taken
    /\ live' = With(live, NewCopy(Node), Thing(NoMap, {}, "none"))
    /\ Answered(mem, "next", at + 1)

profileConflict == Takes({"profile"}) /\ Copies(Node) = {} /\ taken /\ Fails

(* Mutation of updateProfile: it takes on the dumped username as well. *)
updateProfileRenames ==
    Takes({"profile"}) /\ Copies(Node) # {} /\ IF taken THEN Fails ELSE Skip(1)

(* The profile that is there keeps its username, and takes on the rest. *)
updateProfile == Takes({"profile"}) /\ Copies(Node) # {} /\ Skip(1)

(* Mutation of resume: what a mapped item holds is not looked at again. *)
resumeWithoutContents ==
    /\ Takes(Created \cup {"image"})
    /\ Node \in DOMAIN mem
    /\ Skip(IF Node \in Items THEN Cardinality(Tree[Node]) ELSE 1)

(* What the map has is not created again.  All that a build holds is left  *)
(* out with it; what other items hold is looked at.                        *)
resume ==
    /\ Takes(Created \cup {"image"})
    /\ Node \in DOMAIN mem
    /\ Skip(IF Kind[Node] = "build" THEN Cardinality(Tree[Node]) ELSE 1)

Mapped(x) == Kind[x] = "build" => Refs[x] \subseteq DOMAIN mem

(* Mutation of create: the map is saved only behind the item. *)
createUnsaved(kinds) ==
    /\ Takes(kinds)
    /\ Node \notin DOMAIN mem /\ Mapped(Node)
    /\ LET refs == {mem[r] : r \in Refs[Node]}
       IN  live' = With(live, NewCopy(Node), Thing(Holder(Node), refs, "none"))
    /\ Answered(With(mem, Node, NewCopy(Node)), "next", at + 1)

create(kinds) ==
    /\ Takes(kinds)
    /\ Node \notin DOMAIN mem /\ Mapped(Node)
    /\ LET refs == {mem[r] : r \in Refs[Node]}
       IN  live' = With(live, NewCopy(Node), Thing(Holder(Node), refs, "none"))
    /\ Answered(With(mem, Node, NewCopy(Node)), "save", at)

restoreKeyboards == create({"keyboard"})
restoreKeyboardParts == create({"part"})
restoreSwitches == create({"switch"})
restoreKeycapSets == create({"set"})
restoreKits == create({"kit"})
restoreBuilds == create({"build"})

(* A reference that is not in the map is a hard error. *)
buildRefused == Takes({"build"}) /\ Node \notin DOMAIN mem /\ ~Mapped(Node) /\ Fails

(* os.WriteFile empties the file before it writes it. *)
save ==
    /\ pc = "save" \/ Takes({"end"})
    /\ UNCHANGED live
    /\ \/ disk' = mem /\ UNCHANGED mem /\ Go("next", at + 1)
       \/ disk' \in {mem, Torn} /\ IsCut

(* A slot that has a URL is taken to have its image. *)
slotFilled == Takes({"slot"}) /\ SlotOf(Node) \in DOMAIN live /\ Skip(1)

(* The avatar is downloaded to compare it, which fails when it is not there. *)
avatarMatches ==
    /\ Takes({"avatar"})
    /\ SlotOf(Node) \in DOMAIN live /\ live[SlotOf(Node)].bytes = "dumped"
    /\ Skip(1)
avatarUnreadable ==
    /\ Takes({"avatar"})
    /\ SlotOf(Node) \in DOMAIN live /\ live[SlotOf(Node)].bytes = "none"
    /\ Fails

WantsSlot(holders) ==
    /\ Takes(Slots) /\ Kind[Parent[Node]] \in holders
    /\ SlotOf(Node) \in DOMAIN live => (Kind[Node] = "avatar" /\ live[SlotOf(Node)].bytes = "other")

uploadSingleSlot(holders) ==
    /\ WantsSlot(holders)
    /\ live' = With(live, SlotOf(Node), Thing(Home(Node), {}, "none"))
    /\ Answered(mem, "put", at)

restoreAvatar == uploadSingleSlot({"profile"})
restoreSwitchImage == uploadSingleSlot({"switch"})
restoreKitImage == uploadSingleSlot({"kit"})

restoreArrayImages ==
    /\ Takes({"image"}) /\ Node \notin DOMAIN mem
    /\ Cardinality(ImagesUnder(Home(Node))) < MaxImagesPerItem
    /\ live' = With(live, NewCopy(Node), Thing(Home(Node), {}, "none"))
    /\ Answered(mem, "put", at)

imagesFull ==
    /\ Takes({"image"}) /\ Node \notin DOMAIN mem
    /\ Cardinality(ImagesUnder(Home(Node))) = MaxImagesPerItem
    /\ Fails

(* The upload; an image is then in the map, in memory, before it is read   *)
(* back and compared.                                                      *)
uploadImage ==
    /\ pc = "put"
    /\ LET copy == IF Kind[Node] = "image" THEN [of |-> Node, nth |-> Cardinality(Copies(Node))]
                                           ELSE SlotOf(Node)
       IN  /\ live' = [live EXCEPT ![copy].bytes = "dumped"]
           /\ Answered(IF Kind[Node] = "image" THEN With(mem, Node, copy) ELSE mem, "next", at + 1)

(* A call that fails, a disk that is full, the death of the process. *)
cut == pc \in {"next", "put", "save"} /\ IsCut /\ UNCHANGED <<live, disk>>

restored ==
    /\ pc = "next" /\ at = Len(Walk) + 1
    /\ disk' = mem /\ mem' = NoMap
    /\ pc' = "idle" /\ at' = 0 /\ outcome' = "ok"
    /\ UNCHANGED <<dumping, live, target, verified, cuts>>

-----------------------------------------------------------------------------
(* verify *)

Under(c, kinds) == {d \in DOMAIN live : live[d].under = c /\ Kind[d.of] \in kinds}
Holds(x, kinds) == {y \in dir \cap Tree[x] : Kind[y] \in kinds}

Stored(c) == c \in DOMAIN live /\ live[c].bytes = "dumped"

(* Mutation of verifyArrayImages: only the images in the map are compared. *)
verifyArrayImagesMapped(x) == \A y \in Holds(x, {"image"}) \cap DOMAIN disk : Stored(disk[y])

verifyArrayImages(x) ==
    /\ Cardinality(Under(disk[x], {"image"})) = Cardinality(Holds(x, {"image"}))
    /\ \A y \in Holds(x, {"image"}) :
         y \in DOMAIN disk /\ disk[y] \in Under(disk[x], {"image"}) /\ Stored(disk[y])

(* Parts have no ids to compare: what they are and how many must agree. *)
verifyParts(x) == LET parts == Under(disk[x], {"part"})
                  IN  {d.of : d \in parts} = Holds(x, {"part"})
                      /\ Cardinality(parts) = Cardinality(Holds(x, {"part"}))

(* An image that the dump does not have must not be there either. *)
verifySingleImage(x) == Under(disk[x], {"slot"}) = {} \/ Holds(x, {"slot"}) # {}

verifySlots(x) == \A y \in Holds(x, {"slot"}) :
    Parent[y] \in DOMAIN disk /\ Stored([of |-> y, nth |-> disk[Parent[y]].nth])

compareBuildRefs(x) == Refs[x] \subseteq DOMAIN disk /\ live[disk[x]].refs = {disk[r] : r \in Refs[x]}

verifyProfile(x) == /\ Copies(x) # {}
                    /\ \A y \in Holds(x, {"avatar"}) : Stored([of |-> y, nth |-> 1])

verifyKeyboards(x) == verifyParts(x) /\ verifyArrayImages(x)
verifySwitches(x) == verifySingleImage(x) /\ verifySlots(x)
verifyKitImages(x) == verifySlots(x)
verifyKeycapSets(x) == verifyKitImages(x)
verifyBuilds(x) == compareBuildRefs(x) /\ verifyArrayImages(x)

(* It goes through the id map, and not through the dump. *)
VerifyPasses ==
    /\ \A x \in Items \cap dir : Kind[x] = "profile" => x \notin broken /\ verifyProfile(x)
    /\ \A x \in Items \cap DOMAIN disk :
         /\ disk[x] \in DOMAIN live
         /\ CASE Kind[x] = "keyboard" -> verifyKeyboards(x)
              [] Kind[x] = "switch" -> verifySwitches(x)
              [] Kind[x] = "set" -> verifyKeycapSets(x)
              [] Kind[x] = "build" -> verifyBuilds(x)

VerifyRun ==
    /\ pc = "idle" /\ disk \notin {NoMap, Torn}
    /\ verified' = VerifyPasses
    /\ UNCHANGED <<dumping, live, target, disk, mem, pc, at, outcome, cuts>>

-----------------------------------------------------------------------------
DumpNext ==
    \/ \E x \in Items :
         \/ OwnerAdds(x) \/ OwnerDeletes(x)
         \/ dumpSimpleCollection(x) \/ dumpKeycapSets(x) \/ dumpProfile(x)
         \/ dumpItemStops(x) \/ dumpItemUnwritten(x)
    \/ DumpRun \/ listAll \/ dumpStops \/ nextCollection \/ writeManifest

RestoreStep ==
    \/ NotDumped \/ itemUnreadable \/ save \/ uploadImage \/ restored
    \/ createProfile \/ profileConflict \/ updateProfile
    \/ resume \/ restoreKeyboards \/ restoreKeyboardParts \/ restoreSwitches
    \/ restoreKeycapSets \/ restoreKits \/ restoreBuilds \/ buildRefused
    \/ slotFilled \/ avatarMatches \/ avatarUnreadable
    \/ restoreAvatar \/ restoreSwitchImage \/ restoreKitImage
    \/ restoreArrayImages \/ imagesFull

RestoreNext == RestoreRun \/ RestoreStep \/ cut

TargetNext == UsernameTaken \/ \E x \in Items : TargetSignsUp(x)

Next == DumpNext \/ TargetNext \/ RestoreNext \/ VerifyRun

Spec == Init /\ [][Next]_vars

(* A restore that runs goes on, and one that ended is started again. *)
FairSpec == Spec /\ WF_vars(RestoreRun \/ RestoreStep)

-----------------------------------------------------------------------------
(* Properties *)

(* A dump with a manifest has every item, with its images, that was there  *)
(* since the dump began, whatever was added or deleted on its pages        *)
(* meanwhile and however earlier dumps into the directory were stopped     *)
(* (cmd/mykeebs-migrate/dump.go:86, client.go:149).                        *)
DumpIsWhole ==
    [][manifest' /\ ~manifest => \A x \in stable : Tree[x] \subseteq dir \ broken]_vars

(* "A crash between a create and its id-map save leaves one duplicate      *)
(* item": the copies of items, parts and kits that the map does not have,  *)
(* and that no run is about to save, are at most as many as the runs that  *)
(* were cut short (restore.go:20).                                         *)
OneSurplusPerCut ==
    LET known == UNION {Range(m) : m \in {disk, mem} \ {NoMap, Torn}}
    IN  disk # Torn =>
          Cardinality({c \in DOMAIN live : Kind[c.of] \in Created} \ known) <= cuts

(* The account has what the map names for a node, on what it names for the *)
(* node's parent.                                                          *)
Below(x) ==
    /\ disk[x] \in DOMAIN live /\ disk[x].of = x
    /\ x \notin Items => Parent[x] \in DOMAIN disk /\ live[disk[x]].under = disk[Parent[x]]

(* A node of the dump is in the account, with its image or, in a build,    *)
(* the references to the copies of what the dumped build refers to.        *)
IsRestored(x) ==
    CASE Kind[x] = "profile" -> Copies(x) # {}
      [] Kind[x] = "avatar" -> Stored([of |-> x, nth |-> 1])
      [] Kind[x] = "slot" -> Parent[x] \in DOMAIN disk /\ Stored([of |-> x, nth |-> disk[Parent[x]].nth])
      [] Kind[x] = "image" -> x \in DOMAIN disk /\ Below(x) /\ Stored(disk[x])
      [] Kind[x] \in Created -> x \in DOMAIN disk /\ Below(x) /\ live[disk[x]].refs = {disk[r] : r \in Refs[x]}
      [] Kind[x] = "end" -> TRUE

(* A restore that answers success, after however many that were cut short, *)
(* has restored all of the dump but the images of a build that an earlier  *)
(* run created, and single images whose upload failed behind the request   *)
(* for it (restore.go:408, :664).                                          *)
OnlyCutImagesMissing ==
    pc = "idle" /\ outcome = "ok" =>
        \A x \in dir : ~IsRestored(x) =>
            /\ cuts > 0
            /\ \/ Kind[x] = "image" /\ Kind[Top(x)] = "build"
               \/ Kind[x] = "slot" /\ live[[of |-> x, nth |-> disk[Parent[x]].nth]].bytes = "none"

(* When verify finds nothing wrong behind a restore that succeeded, all of *)
(* the dump is there, and no item that was restored has an image or a      *)
(* keyboard's part too many (verify.go:34).                                *)
VerifiedIsWhole ==
    pc = "idle" /\ outcome = "ok" /\ verified =>
        /\ \A x \in dir : IsRestored(x)
        /\ \A x \in DOMAIN disk \cap Items :
             Under(disk[x], {"image", "part"}) \subseteq {disk[y] : y \in Holds(x, {"image", "part"})}

(* Why no run can succeed any more. *)
Stuck ==
    /\ pc = "idle"
    /\ \/ ~fits \/ disk = Torn \/ broken # {}
       \/ \E b \in dir \cap Items : ~(Refs[b] \subseteq dir)
       \/ \E x \in dir \cap Items : Kind[x] = "profile" /\ taken /\ Copies(x) = {}
       \/ \E c \in DOMAIN live : Kind[c.of] = "avatar" /\ live[c].bytes = "none"
       \/ disk # NoMap /\ \E x \in dir \ DOMAIN disk :
            /\ Kind[x] = "image" /\ Parent[x] \in DOMAIN disk
            /\ Cardinality(ImagesUnder(disk[Parent[x]])) = MaxImagesPerItem

(* Once the failures end, a restore that is started again and again        *)
(* succeeds, unless its map was torn, a dump that was stopped left the     *)
(* directory of an item it had not written, which was deleted before the   *)
(* next dump, the dump was taken across a change that leaves a build       *)
(* without what it refers to, an avatar was asked for and never uploaded,  *)
(* an item is full of images from runs that were cut, or it is refused     *)
(* outright (cmd/mykeebs-migrate/dump.go:199, restore.go:84).              *)
EventuallyRestored == manifest ~> (outcome = "ok" \/ Stuck)
=============================================================================

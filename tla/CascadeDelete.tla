---------------------------- MODULE CascadeDelete ----------------------------
(***************************************************************************)
(* Deleting an item that builds may reference, next to requests that write *)
(* builds.                                                                 *)
(*                                                                         *)
(* A delete asks an index which builds reference the item, and gets the    *)
(* first page of the answer.  In block mode it refuses when there are any; *)
(* in cascade mode it deletes them first, one goroutine for each, and then *)
(* the item.  Every delete removes the S3 objects of a record before the   *)
(* record.  A plate or PCB lies in the item of its keyboard: its builds    *)
(* are those of the keyboard that, when they are read one by one, name it. *)
(* Creates and updates of a build check that what it lists exists, and     *)
(* write it in a later step.                                               *)
(*                                                                         *)
(* The goroutines and the other requests make their repository calls as    *)
(* processes of BuildRefs.                                                 *)
(***************************************************************************)
EXTENDS BuildRefs, FiniteSets

CONSTANTS
    Items,     \* keyboards, switches, keycap sets and kits of one owner
    Owns,      \* the references each stands for: itself, or a set its kits
    Holds,     \* what lies in its item: a keyboard's parts, a set's kits
    FullPage,  \* markers, at least, on a page of the index that is not the last
    Clients,   \* requests that create or update a build
    Deletes,   \* requests that delete an item or a build
    NoItem     \* a delete that is of a build, or not in flight

(* A delete has a goroutine for each build. *)
Workers == Deletes \X Builds

ASSUME Processes == Procs = Clients \cup Workers /\ Clients \cap Workers = {}
ASSUME Ownership ==
    /\ Owns \in [Items -> SUBSET Refs]
    /\ Holds \in [Items -> SUBSET (Items \cup Parts)]
    /\ \A i \in Items : \A k \in Holds[i] \cap Items : Owns[k] \subseteq Owns[i] /\ Holds[k] = {}
    /\ \A q \in Parts : \E i \in Items : \A j \in Items : q \in Holds[j] <=> j = i
    /\ NoItem \notin Items \cup Parts /\ Items \cap Parts = {}
    /\ Builds \cap (Items \cup Parts) = {}
ASSUME Pages == FullPage \in Nat \ {0}

VARIABLES
    unborn,   \* the items and parts that are not created yet
    live,     \* the items and parts that exist
    shown,    \* the items that a lagging read finds
    object,   \* the items and builds that have an object left in S3
    index,    \* the index over the markers, which lags behind them
    phase,    \* where each delete is
    item,     \* the item or part it deletes
    found,    \* the builds it found to reference the item
    work,     \* where the goroutine of each build is
    late,     \* history: the builds of which its answers are out of date
    beyond    \* history: the builds behind the first page of its query

records == <<unborn, live, shown, object>>
deletes == <<phase, item, found, work, late, beyond>>
cvars == <<vars, records, index, deletes>>

Fetching == {"blockFetch", "cascadeFetch"}
Phases == {"idle", "wait", "itemGet", "itemImages", "itemDelete", "partDelete"} \cup Fetching
Ended == {"none", "deleted", "absent", "failed"}
Fetched == {"kept", "skipped", "failed", "none"}
Stages == {"fetch", "get", "images", "repo"} \cup Fetched \cup Ended

CTypeOK ==
    /\ TypeOK
    /\ unborn \subseteq Items \cup Parts
    /\ live \subseteq (Items \cup Parts) \ unborn
    /\ shown \subseteq Items
    /\ object \subseteq Items \cup Builds
    /\ index \in [Builds -> SUBSET Refs]
    /\ phase \in [Deletes -> Phases]
    /\ item \in [Deletes -> Items \cup Parts \cup {NoItem}]
    /\ found \in [Deletes -> SUBSET Builds]
    /\ work \in [Workers -> Stages]
    /\ \A w \in Workers :
        /\ work[w] \in {"get", "images", "repo"} => phase[w[1]] = "wait"
        /\ work[w] \in {"fetch", "kept", "skipped"} => phase[w[1]] \in Fetching
        /\ pc[w] # "idle" => work[w] = "repo"
        /\ work[w] # "none" => w[2] \in found[w[1]]
    /\ late \in [Deletes -> SUBSET Builds]
    /\ beyond \in [Deletes -> SUBSET Builds]

Holdings(x) == IF x \in Items THEN Holds[x] ELSE {}
Home(q) == CHOOSE i \in Items : q \in Holds[i]

(* The content names i: an item, or a part. *)
Lists(c, i) == IF i \in Parts THEN i \in c.parts ELSE c.refs \cap Owns[i] # {}

(* Of what a reference stands for, all is there: of a kit, its set too. *)
Resolves(r) ==
    /\ \E i \in Items : r \in Owns[i]
    /\ \A i \in Items : r \in Owns[i] => i \in live

(* A build lists something; the items that it lists exist, and its parts   *)
(* are its keyboard's.                                                     *)
Valid(c) ==
    /\ c.refs # {}
    /\ \A r \in c.refs : Resolves(r)
    /\ \A q \in c.parts : q \in live /\ Lists(c, Home(q))

(* Nothing is in flight: some items and builds, with markers, index and    *)
(* replicas in step, and an image on all that can have one (a keycap set   *)
(* has those of its kits).                                                 *)
CInit ==
    /\ NoRequests
    /\ unborn \in SUBSET (Items \cup Parts)
    /\ \A i \in unborn \cap Items : Holds[i] \subseteq unborn
    /\ live = (Items \cup Parts) \ unborn
    /\ shown = live \cap Items
    /\ build \in [Builds -> Contents \cup {Unborn}]
    /\ \A b \in Builds : Stored(b) => Valid(build[b])
    /\ marker = [b \in Builds |-> IF Stored(b) THEN build[b].refs ELSE {}]
    /\ replica = build
    /\ index = marker
    /\ object = {i \in live \cap Items : Holds[i] \cap Items = {}} \cup {b \in Builds : Stored(b)}
    /\ phase = [d \in Deletes |-> "idle"]
    /\ item = [d \in Deletes |-> NoItem]
    /\ found = [d \in Deletes |-> {}]
    /\ work = [w \in Workers |-> "none"]
    /\ late = [d \in Deletes |-> {}]
    /\ beyond = [d \in Deletes |-> {}]

-----------------------------------------------------------------------------
(* Requests that create items and parts *)

(* A keyboard, switch or set, or a part or kit of one that is there, under *)
(* a fresh id; it has no image yet, and no build can list it before.       *)
ItemCreate(x) ==
    /\ x \in unborn
    /\ \A i \in Items : x \in Holds[i] => i \in live
    /\ unborn' = unborn \ {x}
    /\ live' = live \cup {x}
    /\ UNCHANGED <<vars, shown, object, index, deletes>>

-----------------------------------------------------------------------------
(* Requests that write a build *)

(* ValidateReferences passes, and the repository call follows. *)
CreateBuild(p, b, c) ==
    /\ Valid(c)
    /\ Create(p, b, c)
    /\ UNCHANGED <<records, index, deletes>>

UpdateBuild(p, b, c) ==
    /\ Valid(c)
    /\ Update(p, b, c)
    /\ UNCHANGED <<records, index, deletes>>

(* A build that is written makes what a delete read of it out of date. *)
Outdate ==
    late' = [d \in Deletes |->
        IF phase[d] = "idle" THEN {} ELSE late[d] \cup {b \in Builds : build'[b] # build[b]}]

ClientStep(p) ==
    /\ Step(p) \/ Fail(p)
    /\ Outdate
    /\ UNCHANGED <<records, index, phase, item, found, work, beyond>>

-----------------------------------------------------------------------------
(* Deletes *)

(* The index has a marker for each reference that a build lists. *)
Markers(i) == {m \in Builds \X Refs : m[2] \in index[m[1]] \cap Owns[i]}
Referencing(i) == {b \in Builds : index[b] \cap Owns[i] # {}}

(* queryReferencingBuilds: one Query, whose LastEvaluatedKey is not        *)
(* followed.  How many markers a page of 1 MB holds depends on their size. *)
QueryAnswers(i) ==
    {{m[1] : m \in page} :
        page \in {ms \in SUBSET Markers(i) : ms = Markers(i) \/ Cardinality(ms) >= FullPage}}

(* What a query or a read may answer of b is not what its item says. *)
Lagging(b) == replica[b] # build[b] \/ index[b] # IF Stored(b) THEN build[b].refs ELSE {}

Begin(d, i, bs, rest, ph) ==
    /\ phase' = [phase EXCEPT ![d] = ph]
    /\ item' = [item EXCEPT ![d] = i]
    /\ found' = [found EXCEPT ![d] = bs]
    /\ late' = [late EXCEPT ![d] = {b \in Builds : Lagging(b)}]
    /\ beyond' = [beyond EXCEPT ![d] = rest]
    /\ UNCHANGED <<vars, records, index>>

StartWork(d, bs, stage) ==
    work' = [w \in Workers |-> IF w[1] = d /\ w[2] \in bs THEN stage ELSE work[w]]

(* Mutation of BlockingDelete: block mode deletes a referenced item too. *)
BlockingDeleteAnyway(d, i) ==
    /\ phase[d] = "idle" /\ i \notin unborn
    /\ Begin(d, i, {}, {}, "itemGet")
    /\ UNCHANGED work

(* OnDeleteBlock: a referenced item answers 409, which changes nothing. *)
BlockingDelete(d, i) ==
    /\ phase[d] = "idle" /\ i \notin unborn
    /\ {} \in QueryAnswers(i)
    /\ Begin(d, i, {}, {}, "itemGet")
    /\ UNCHANGED work

(* OnDeleteCascade: a goroutine for each build found. *)
CascadingDelete(d, i) ==
    /\ phase[d] = "idle" /\ i \notin unborn
    /\ \E bs \in QueryAnswers(i) :
        /\ Begin(d, i, bs, Referencing(i) \ bs, "wait")
        /\ StartWork(d, bs, "get")

(* DeleteBuild does for one build what a goroutine of a cascade does. *)
DeleteBuild(d, b) ==
    /\ phase[d] = "idle"
    /\ build[b] # Unborn
    /\ Begin(d, NoItem, {b}, {}, "wait")
    /\ StartWork(d, {b}, "get")

(* deleteKeyboardPart, in either mode: the builds of the keyboard are      *)
(* fetched, by a goroutine each, to see which of them name the part.       *)
PartQuery(d, q) ==
    /\ phase[d] = "idle" /\ q \notin unborn
    /\ \E mode \in Fetching, bs \in QueryAnswers(Home(q)) :
        /\ Begin(d, q, bs, Referencing(Home(q)) \ bs, mode)
        /\ StartWork(d, bs, "fetch")

Progress(w, stage) ==
    /\ work' = [work EXCEPT ![w] = stage]
    /\ UNCHANGED <<unborn, live, shown, index, phase, item, found, beyond>>

(* Mutation of PartFetch: every build of the keyboard uses the part. *)
PartFetchAny(w) ==
    /\ work[w] = "fetch"
    /\ \E c \in Reads(w[2]) :
        Progress(w, IF c \in Contents THEN "kept" ELSE "skipped")
    /\ UNCHANGED <<vars, object, late>>

PartFetch(w) ==
    /\ work[w] = "fetch"
    /\ \E c \in Reads(w[2]) :
        Progress(w, IF c \in Contents /\ Lists(c, item[w[1]]) THEN "kept" ELSE "skipped")
    /\ UNCHANGED <<vars, object, late>>

(* The goroutine reads the build for its images; one that is gone is done. *)
BuildGet(w) ==
    /\ work[w] = "get"
    /\ \E c \in Reads(w[2]) : Progress(w, IF c \in Contents THEN "images" ELSE "absent")
    /\ UNCHANGED <<vars, object, late>>

(* Mutation of BuildImages: a failure to delete an object is not one of    *)
(* the goroutine's.                                                        *)
BuildImagesAnyway(w) ==
    /\ work[w] = "images"
    /\ object' \in {object, object \ {w[2]}}
    /\ Delete(w, w[2])
    /\ Progress(w, "repo")
    /\ UNCHANGED late

(* deleteBuildImages, all of them, and then the repository's Delete. *)
BuildImages(w) ==
    /\ work[w] = "images"
    /\ object' = object \ {w[2]}
    /\ Delete(w, w[2])
    /\ Progress(w, "repo")
    /\ UNCHANGED late

(* The repository's Delete returns: it committed, though the response may  *)
(* be lost, or it found nothing to delete, or it failed.                   *)
BuildRecordDeleted(w) ==
    /\ DeleteCommit(w)
    /\ \E stage \in {"deleted", "failed"} : Progress(w, stage)
    /\ Outdate
    /\ UNCHANGED object

BuildRecordAbsent(w) ==
    /\ DeleteGet(w)
    /\ pc'[w] = "idle"
    /\ Progress(w, "absent")
    /\ UNCHANGED <<object, late>>

BuildRecordRetried(w) ==
    /\ DeleteGet(w) \/ DeleteCancel(w)
    /\ pc'[w] # "idle"
    /\ UNCHANGED <<records, index, deletes>>

BuildRecordFailed(w) ==
    /\ GiveUp(w) \/ DeleteReject(w) \/ Fail(w)
    /\ Progress(w, "failed")
    /\ UNCHANGED <<object, late>>

(* A read or an S3 delete fails; of several objects any may be left.  A    *)
(* Lambda that is killed fails every goroutine it has, and then the join.  *)
BuildCallFails(w) ==
    /\ work[w] \in {"fetch", "get", "images"}
    /\ Progress(w, "failed")
    /\ UNCHANGED <<vars, object, late>>

Finish(d) ==
    /\ phase' = [phase EXCEPT ![d] = "idle"]
    /\ item' = [item EXCEPT ![d] = NoItem]
    /\ found' = [found EXCEPT ![d] = {}]
    /\ late' = [late EXCEPT ![d] = {}]
    /\ beyond' = [beyond EXCEPT ![d] = {}]
    /\ work' = [w \in Workers |-> IF w[1] = d THEN "none" ELSE work[w]]

Continue(d, ph) ==
    /\ phase' = [phase EXCEPT ![d] = ph]
    /\ UNCHANGED <<item, found, work, late, beyond>>

AllEnded(d) == \A b \in Builds : work[<<d, b>>] \in Ended
AnyFailed(d) == \E b \in Builds : work[<<d, b>>] = "failed"

Target(d) == IF item[d] \in Parts THEN "partDelete" ELSE "itemGet"

(* Mutation of Join: the errors of the goroutines are not joined. *)
JoinIgnoringErrors(d) ==
    /\ phase[d] = "wait"
    /\ AllEnded(d)
    /\ IF item[d] = NoItem THEN Finish(d) ELSE Continue(d, Target(d))
    /\ UNCHANGED <<vars, records, index>>

(* Mutation of Join: the goroutines are not waited for. *)
JoinWithoutWaiting(d) ==
    /\ phase[d] = "wait"
    /\ IF item[d] = NoItem \/ AnyFailed(d) THEN Finish(d) ELSE Continue(d, Target(d))
    /\ UNCHANGED <<vars, records, index>>

(* wg.Wait: the item is next if every goroutine succeeded. *)
Join(d) ==
    /\ phase[d] = "wait"
    /\ AllEnded(d)
    /\ IF item[d] = NoItem \/ AnyFailed(d) THEN Finish(d) ELSE Continue(d, Target(d))
    /\ UNCHANGED <<vars, records, index>>

Kept(d) == {b \in Builds : work[<<d, b>>] = "kept"}

(* The fetched builds that name the part block its delete, or are deleted  *)
(* by a goroutine each, with the images they had when they were fetched.   *)
PartJoin(d) ==
    /\ phase[d] \in Fetching
    /\ \A b \in Builds : work[<<d, b>>] \in Fetched
    /\ IF AnyFailed(d) \/ (phase[d] = "blockFetch" /\ Kept(d) # {})
          THEN Finish(d)
          ELSE /\ phase' = [phase EXCEPT ![d] = "wait"]
               /\ found' = [found EXCEPT ![d] = Kept(d)]
               /\ work' = [w \in Workers |-> IF w[1] = d
                                               THEN IF w[2] \in Kept(d) THEN "images" ELSE "none"
                                               ELSE work[w]]
               /\ UNCHANGED <<item, late, beyond>>
    /\ UNCHANGED <<vars, records, index>>

(* deletePart, conditioned on the part: one that is gone is a success, if  *)
(* its keyboard is still there.                                            *)
PartDelete(d) ==
    /\ phase[d] = "partDelete"
    /\ live' = live \ {item[d]}
    /\ Finish(d)
    /\ UNCHANGED <<vars, unborn, shown, object, index>>

(* What Get, which is without ConsistentRead, may answer of an item. *)
MayFind(i) == i \in live \/ (StaleReads /\ i \in shown)
MayMiss(i) == i \notin live \/ (StaleReads /\ i \notin shown)

(* The item is read for its images. *)
ItemGet(d) ==
    /\ phase[d] = "itemGet"
    /\ MayFind(item[d])
    /\ Continue(d, "itemImages")
    /\ UNCHANGED <<vars, records, index>>

(* ErrNotFound is a success. *)
ItemAbsent(d) ==
    /\ phase[d] = "itemGet"
    /\ MayMiss(item[d])
    /\ Finish(d)
    /\ UNCHANGED <<vars, records, index>>

(* The images of the item, or of all kits of a set. *)
ItemImages(d) ==
    /\ phase[d] = "itemImages"
    /\ object' = object \ ({item[d]} \cup Holds[item[d]])
    /\ Continue(d, "itemDelete")
    /\ UNCHANGED <<vars, unborn, live, shown, index>>

(* An unconditional DeleteItem; parts and kits lie in the item.  A kit's   *)
(* is conditioned on the kit, and changes nothing when it is gone.         *)
ItemDelete(d) ==
    /\ phase[d] = "itemDelete"
    /\ live' = live \ ({item[d]} \cup Holds[item[d]])
    /\ Finish(d)
    /\ UNCHANGED <<vars, unborn, shown, object, index>>

(* A call on the item fails, or the Lambda is killed. *)
ItemCallFails(d) ==
    /\ phase[d] \in {"itemGet", "itemImages", "itemDelete", "partDelete"}
    /\ Finish(d)
    /\ UNCHANGED <<vars, records, index>>

-----------------------------------------------------------------------------
(* DynamoDB *)

(* The index catches up with one marker. *)
IndexMarker(b, r) ==
    /\ r \in index[b] <=> r \notin marker[b]
    /\ index' = [index EXCEPT ![b] = IF r \in @ THEN @ \ {r} ELSE @ \cup {r}]
    /\ UNCHANGED <<vars, records, deletes>>

CatchUp(b) == Replicate(b) /\ UNCHANGED <<records, index, deletes>>

(* The lagging copy of an item catches up. *)
ItemCatchUp(i) ==
    /\ StaleReads
    /\ i \in shown <=> i \notin live
    /\ shown' = IF i \in live THEN shown \cup {i} ELSE shown \ {i}
    /\ UNCHANGED <<vars, unborn, live, object, index, deletes>>

ClientNext ==
    \E p \in Clients :
        \/ ClientStep(p)
        \/ \E b \in Builds, c \in Contents : CreateBuild(p, b, c) \/ UpdateBuild(p, b, c)

WorkerNext ==
    \E w \in Workers :
        \/ PartFetch(w) \/ BuildGet(w) \/ BuildImages(w) \/ BuildCallFails(w)
        \/ BuildRecordDeleted(w) \/ BuildRecordAbsent(w)
        \/ BuildRecordRetried(w) \/ BuildRecordFailed(w)

DeleteNext ==
    \E d \in Deletes :
        \/ \E i \in Items : BlockingDelete(d, i) \/ CascadingDelete(d, i)
        \/ \E b \in Builds : DeleteBuild(d, b)
        \/ \E q \in Parts : PartQuery(d, q)
        \/ PartJoin(d) \/ PartDelete(d) \/ Join(d)
        \/ ItemGet(d) \/ ItemAbsent(d) \/ ItemImages(d) \/ ItemDelete(d) \/ ItemCallFails(d)

CNext ==
    \/ ClientNext \/ WorkerNext \/ DeleteNext
    \/ \E b \in Builds : CatchUp(b) \/ \E r \in Refs : IndexMarker(b, r)
    \/ \E x \in Items \cup Parts : ItemCreate(x)
    \/ \E i \in Items : ItemCatchUp(i)

CSpec == CInit /\ [][CNext]_cvars

-----------------------------------------------------------------------------
(* Properties *)

(* Whatever deletes race, fail half way or are repeated, no S3 object      *)
(* outlives the record that names it: the images go first.                 *)
NothingOrphaned == object \subseteq live \cup {b \in Builds : Stored(b)}

(* A delete that answers with a success has removed what it names, with    *)
(* all that lies in it, its images and every build of its answer, with     *)
(* theirs; what may still be there is what a lagging read missed: a build  *)
(* of its answer, or the item itself, created a moment before.             *)
Succeeds(d) ==
    \/ ItemDelete(d) \/ ItemAbsent(d)
    \/ PartDelete(d) /\ Home(item[d]) \in live
SuccessIsClean ==
    [][\A d \in Deletes : Succeeds(d) =>
        /\ \/ ({item[d]} \cup Holdings(item[d])) \cap (live' \cup object') = {}
           \/ ItemAbsent(d) /\ item[d] \in live \ shown
        /\ \A b \in found[d] :
            \/ work[<<d, b>>] = "absent"
            \/ build'[b] = Gone /\ b \notin object']_cvars

(* A stored build lists an item or a part that is gone. *)
Dangling(b) == Stored(b) /\ ~Valid(build[b])

(* A reference comes to dangle in three ways only: a write of the build,   *)
(* the check of which is out of date; the delete of the item or part when  *)
(* what it read of the build is: the build was written since it began, or  *)
(* its query or one of its reads lagged behind; or its delete when more    *)
(* builds list it than the first page of the query has.                    *)
OnlyLateOrMissedDangles ==
    [][\A b \in Builds : ~Dangling(b) /\ Dangling(b)' =>
        \/ build'[b] # build[b]
        \/ \E d \in Deletes :
            /\ ItemDelete(d) \/ PartDelete(d)
            /\ b \notin found[d] \/ work[<<d, b>>] = "absent"
            /\ b \in late[d] \cup beyond[d]]_cvars

(* A cascade deletes only builds that name what it deletes, except one     *)
(* that was written since the cascade read it: an update in between that   *)
(* dropped the reference does not save it.                                 *)
DeletesOnlyUsers ==
    [][\A d \in Deletes, b \in Builds :
        BuildRecordDeleted(<<d, b>>) /\ item[d] # NoItem /\ Stored(b)
            => Lists(build[b], item[d]) \/ b \in late[d]]_cvars
=============================================================================

--------------------------- MODULE AccountDelete ---------------------------
(***************************************************************************)
(* The deletion of an account, next to requests of the same user.          *)
(*                                                                         *)
(* An account is spread over four tables, a bucket and the profile.  The   *)
(* deletion goes through them in a fixed order, a page at a time, and each *)
(* step is a call that may fail; what a failed one leaves is for the next. *)
(* Nothing stops the user's other requests meanwhile: they may write in a  *)
(* place the deletion has not reached, or in one it has passed.            *)
(*                                                                         *)
(* A thing is <<stage, n>>: where the deletion meets it, and its position  *)
(* in the order of keys there.                                             *)
(***************************************************************************)
EXTENDS Naturals, FiniteSets

CONSTANTS
    Procs,       \* calls of Account.Delete at work at the same time
    Builds,      \* builds the user may have, each with one reference marker
    Start,       \* what there is before
    MaxWrites,   \* bound: writes by the user's other requests
    Retries      \* unprocessedRetries

(* The stages, in the order of Account.Delete and of OwnerImagePrefixes. *)
BuildTable == 1
KeyboardTable == 2
SwitchTable == 3
KeycapSetTable == 4
Tables == 1..4
Prefixes == 5..9     \* builds/ keyboards/ keycap-sets/ profiles/ switches/
ProfileStage == 10

BuildItems == {BuildTable} \X (1..Builds)

(* A marker sorts after every build of the table. *)
MarkerOf(b) == <<BuildTable, Builds + b[2]>>
Markers == {MarkerOf(b) : b \in BuildItems}

Profile == <<ProfileStage, 1>>
Items == BuildItems \cup {<<t, 1>> : t \in Tables \ {BuildTable}}

(* The prefix of the keys of a record's images. *)
PrefixOf(s) == IF s = ProfileStage THEN 8 ELSE <<5, 6, 9, 7>>[s]
ImageOf(i) == <<PrefixOf(i[1]), i[2]>>
Images == {ImageOf(i) : i \in Items \cup {Profile}}

Things == Items \cup Markers \cup Images \cup {Profile}

ASSUME ConstantsOK ==
    /\ Builds \in Nat \ {0}
    /\ Start \subseteq Things
    /\ MaxWrites \in Nat
    /\ Retries \in Nat

VARIABLES
    present,   \* what there is
    ever,      \* history: what there ever was
    url,       \* images the client holds an upload URL for
    cached,    \* images an edge of the CDN holds a copy of
    replica,   \* whether a lagging read finds the profile
    writes,    \* writes of other requests so far
    asked,     \* the user wants the account deleted
    answered,  \* a call told so answered that it is
    notice,    \* "none", "sent", or "failed" and logged for the alarm
    pc, stage, cursor, page, tries, emptied,  \* of each call
    unseen,    \* history: what each call could not know of
    swept,     \* history: the images it deleted and has not invalidated
    excused    \* history: images deleted by a call that did not come to that

account == <<present, ever>>
client == <<url, replica, writes, asked>>
edge == <<cached, excused>>
result == <<answered, notice>>
scan == <<pc, stage, cursor, page, tries>>
call == <<scan, emptied, swept>>
vars == <<account, client, edge, result, call, unseen>>

Stages == Tables \cup Prefixes \cup {ProfileStage}
Calls == {"idle", "list", "batch", "objects", "invalidate", "profile", "notify"}

TypeOK ==
    /\ present \subseteq Things /\ ever \subseteq Things /\ present \subseteq ever
    /\ url \subseteq Images /\ cached \subseteq Images /\ excused \subseteq Images
    /\ replica \in BOOLEAN /\ asked \in BOOLEAN /\ answered \in BOOLEAN
    /\ writes \in 0..MaxWrites
    /\ notice \in {"none", "sent", "failed"}
    /\ pc \in [Procs -> Calls]
    /\ stage \in [Procs -> Stages]
    /\ cursor \in [Procs -> Nat]
    /\ page \in [Procs -> SUBSET Things]
    /\ tries \in [Procs -> 0..Retries]
    /\ emptied \in [Procs -> SUBSET Prefixes]
    /\ unseen \in [Procs -> SUBSET Things]
    /\ swept \in [Procs -> SUBSET Images]

Init ==
    /\ present = Start /\ ever = Start
    /\ url = {} /\ cached = {} /\ excused = {}
    /\ replica = (Profile \in Start)
    /\ writes = 0
    /\ asked = FALSE /\ answered = FALSE /\ notice = "none"
    /\ pc = [p \in Procs |-> "idle"]
    /\ stage = [p \in Procs |-> BuildTable]
    /\ cursor = [p \in Procs |-> 0]
    /\ page = [p \in Procs |-> {}]
    /\ tries = [p \in Procs |-> 0]
    /\ emptied = [p \in Procs |-> {}]
    /\ unseen = [p \in Procs |-> {}]
    /\ swept = [p \in Procs |-> {}]

-----------------------------------------------------------------------------
(* Requests of the same user *)

End == 2 * Builds + 1

InProgress(p) == pc[p] # "idle"

(* The call has read past x, and does not come back to it. *)
Passed(p, x) ==
    /\ InProgress(p)
    /\ x[1] < stage[p] \/ (x[1] = stage[p] /\ x[2] <= cursor[p])

(* xs are written, by a request that no call of the deletion knows of. *)
Store(xs) ==
    /\ present' = present \cup xs
    /\ ever' = ever \cup xs
    /\ unseen' = [p \in Procs |-> unseen[p] \cup {x \in xs \ present : Passed(p, x)}]

Counted == writes < MaxWrites /\ writes' = writes + 1

(* A created item has a fresh UUID. *)
Create(i) ==
    /\ i \notin ever
    /\ Counted
    /\ Store({i})
    /\ UNCHANGED <<url, replica, asked, edge, result, call>>

CreateKeyboard == Create(<<KeyboardTable, 1>>)
CreateSwitch == Create(<<SwitchTable, 1>>)
CreateKeycapSet == Create(<<KeycapSetTable, 1>>)

(* With its marker, in one transaction, or without references. *)
CreateBuild(b) ==
    /\ b \notin ever
    /\ Counted
    /\ Store({b}) \/ Store({b, MarkerOf(b)})
    /\ UNCHANGED <<url, replica, asked, edge, result, call>>

(* Mutation of Update: UpdateItem creates an item that is not there. *)
UpdateAnyway(i) ==
    /\ i \in ever
    /\ Counted
    /\ Store({i})
    /\ UNCHANGED <<url, replica, asked, edge, result, call>>

(* An update writes the record back, on the condition that it is there. *)
Update(i) ==
    /\ i \in present
    /\ Counted
    /\ Store({i})
    /\ UNCHANGED <<url, replica, asked, edge, result, call>>

UpdateKeyboard == Update(<<KeyboardTable, 1>>)
UpdateSwitch == Update(<<SwitchTable, 1>>)
UpdateKeycapSet == Update(<<KeycapSetTable, 1>>)

(* An update of a build that adds a reference, or drops it. *)
UpdateBuild(b) ==
    /\ b \in present
    /\ Counted
    /\ \/ Store({b, MarkerOf(b)})
       \/ present' = present \ {MarkerOf(b)} /\ UNCHANGED <<ever, unseen>>
    /\ UNCHANGED <<url, replica, asked, edge, result, call>>

CreateProfile ==
    /\ Profile \notin present
    /\ Counted
    /\ Store({Profile})
    /\ UNCHANGED <<url, replica, asked, edge, result, call>>

(* An image is added to a record, and the client gets a URL for it. *)
AddImage(i) ==
    /\ i \in present
    /\ ImageOf(i) \notin url
    /\ Counted
    /\ url' = url \cup {ImageOf(i)}
    /\ UNCHANGED <<account, replica, asked, edge, result, call, unseen>>

(* The client uploads, whatever became of the record. *)
Upload(k) ==
    /\ k \in url \ present
    /\ Counted
    /\ Store({k})
    /\ UNCHANGED <<url, replica, asked, edge, result, call>>

(* Somebody looks at the image, and an edge keeps a copy. *)
Serve(k) ==
    /\ k \in (present \cap Images) \ cached
    /\ cached' = cached \cup {k}
    /\ UNCHANGED <<account, client, excused, result, call, unseen>>

Replicate ==
    /\ replica # (Profile \in present)
    /\ replica' = (Profile \in present)
    /\ UNCHANGED <<account, url, writes, asked, edge, result, call, unseen>>

-----------------------------------------------------------------------------
(* A call of Account.Delete *)

(* The user asks for it, by either front end, and again until the answer   *)
(* is that it is done.                                                     *)
Ask ==
    /\ ~asked
    /\ asked' = TRUE
    /\ UNCHANGED <<account, url, replica, writes, edge, result, call, unseen>>

Begin(p) ==
    /\ asked /\ ~answered /\ pc[p] = "idle"
    /\ pc' = [pc EXCEPT ![p] = "list"]
    /\ stage' = [stage EXCEPT ![p] = BuildTable]
    /\ UNCHANGED <<account, client, edge, result, cursor, page, tries, emptied,
                   swept, unseen>>

DeleteProfile(p) == Begin(p)
handleDeleteProfile(p) == Begin(p)

(* The call is over, and forgotten. *)
Stop(p) ==
    /\ pc' = [pc EXCEPT ![p] = "idle"]
    /\ stage' = [stage EXCEPT ![p] = BuildTable]
    /\ cursor' = [cursor EXCEPT ![p] = 0]
    /\ page' = [page EXCEPT ![p] = {}]
    /\ tries' = [tries EXCEPT ![p] = 0]
    /\ emptied' = [emptied EXCEPT ![p] = {}]
    /\ swept' = [swept EXCEPT ![p] = {}]
    /\ unseen' = [unseen EXCEPT ![p] = {}]

Goto(p, c, s, n) ==
    /\ pc' = [pc EXCEPT ![p] = c]
    /\ stage' = [stage EXCEPT ![p] = s]
    /\ cursor' = [cursor EXCEPT ![p] = n]

(* What a stage has behind the cursor.  A page of it is all there is up to *)
(* some key, which is the next cursor, or up to the end.                   *)
Ahead(p) == {x \in present : x[1] = stage[p] /\ x[2] > cursor[p]}
PageEnds(p) == {x[2] : x \in Ahead(p)} \cup {End}
UpTo(p, n) == {x \in Ahead(p) : x[2] <= n}

(* Mutation of NextStage: invalidates also when there was nothing. *)
NextStageUnguarded(p) ==
    IF stage[p] + 1 \in Tables \cup Prefixes THEN Goto(p, "list", stage[p] + 1, 0)
    ELSE Goto(p, "invalidate", stage[p], End)

(* From a stage that has no more keys to the next. *)
NextStage(p) ==
    IF stage[p] + 1 \in Tables \cup Prefixes THEN Goto(p, "list", stage[p] + 1, 0)
    ELSE IF emptied[p] = {} THEN Goto(p, "profile", ProfileStage, 0)
    ELSE Goto(p, "invalidate", stage[p], End)

(* After a page: the next one, if there is. *)
Onward(p) ==
    IF cursor[p] = End THEN NextStage(p) ELSE Goto(p, "list", stage[p], cursor[p])

(* Mutation of Read: the first page is taken for all there is. *)
ReadOnce(p, c) ==
    \E n \in PageEnds(p) :
        IF UpTo(p, n) = {}
        THEN NextStage(p) /\ UNCHANGED page
        ELSE Goto(p, c, stage[p], End) /\ page' = [page EXCEPT ![p] = UpTo(p, n)]

(* A page is read, and its keys go to the call c. *)
Read(p, c) ==
    \E n \in PageEnds(p) :
        IF UpTo(p, n) = {}
        THEN NextStage(p) /\ UNCHANGED page
        ELSE Goto(p, c, stage[p], n) /\ page' = [page EXCEPT ![p] = UpTo(p, n)]

(* deleteOwnerItems: the Query, which reads consistently. *)
Query(p) ==
    /\ pc[p] = "list" /\ stage[p] \in Tables
    /\ Read(p, "batch")
    /\ UNCHANGED <<account, client, edge, result, tries, emptied, swept, unseen>>

(* batchDelete: a chunk of the page is deleted. *)
BatchDelete(p) ==
    /\ pc[p] = "batch"
    /\ \E ks \in (SUBSET page[p]) \ {{}} :
        /\ present' = present \ ks
        /\ page' = [page EXCEPT ![p] = @ \ ks]
        /\ IF ks = page[p] THEN Onward(p) ELSE UNCHANGED <<pc, stage, cursor>>
    /\ tries' = [tries EXCEPT ![p] = 0]
    /\ UNCHANGED <<ever, client, edge, result, emptied, swept, unseen>>

(* Mutation of BatchUnprocessed: sent again for as long as it takes. *)
BatchUnprocessedForever(p) ==
    /\ pc[p] = "batch"
    /\ tries' = [tries EXCEPT ![p] = @ + 1]
    /\ UNCHANGED <<account, client, edge, result, pc, stage, cursor, page, emptied,
                   swept, unseen>>

(* Keys are handed back unprocessed: sent again, but so many times only. *)
BatchUnprocessed(p) ==
    /\ pc[p] = "batch"
    /\ \E ks \in (SUBSET page[p]) \ {page[p]} :
        /\ present' = present \ ks
        /\ \/ /\ tries[p] < Retries
              /\ tries' = [tries EXCEPT ![p] = @ + 1]
              /\ page' = [page EXCEPT ![p] = @ \ ks]
              /\ UNCHANGED <<pc, stage, cursor, emptied, swept, unseen>>
           \/ tries[p] = Retries /\ Stop(p)
    /\ UNCHANGED <<ever, client, edge, result>>

(* OwnerImageStore.DeleteAll: a page of a prefix. *)
ListObjects(p) ==
    /\ pc[p] = "list" /\ stage[p] \in Prefixes
    /\ Read(p, "objects")
    /\ UNCHANGED <<account, client, edge, result, tries, emptied, swept, unseen>>

(* deleteObjects, of the page; the prefix is one to invalidate. *)
DeleteObjects(p) ==
    /\ pc[p] = "objects"
    /\ present' = present \ page[p]
    /\ swept' = [swept EXCEPT ![p] = @ \cup page[p]]
    /\ emptied' = [emptied EXCEPT ![p] = @ \cup {stage[p]}]
    /\ Goto(p, "list", stage[p], cursor[p])
    /\ page' = [page EXCEPT ![p] = {}]
    /\ UNCHANGED <<ever, client, edge, result, tries, unseen>>

(* Mutation of DeleteObjectsErrors: only the request's error is looked at. *)
DeleteObjectsErrorsIgnored(p) ==
    /\ pc[p] = "objects"
    /\ \E left \in SUBSET page[p] :
        /\ present' = present \ (page[p] \ left)
        /\ swept' = [swept EXCEPT ![p] = @ \cup (page[p] \ left)]
    /\ emptied' = [emptied EXCEPT ![p] = @ \cup {stage[p]}]
    /\ Goto(p, "list", stage[p], cursor[p])
    /\ page' = [page EXCEPT ![p] = {}]
    /\ UNCHANGED <<ever, client, edge, result, tries, unseen>>

(* The request succeeds and some of its keys do not. *)
DeleteObjectsErrors(p) ==
    /\ pc[p] = "objects"
    /\ \E left \in SUBSET page[p] :
        /\ present' = present \ (page[p] \ left)
        /\ excused' = excused \cup swept[p] \cup (page[p] \ left)
    /\ Stop(p)
    /\ UNCHANGED <<ever, client, cached, result>>

(* Mutation of Invalidate: only the last prefix is invalidated. *)
InvalidateLast(p) ==
    /\ pc[p] = "invalidate" /\ emptied[p] # {}
    /\ cached' = {k \in cached : k[1] # stage[p]}
    /\ swept' = [swept EXCEPT ![p] = {}]
    /\ emptied' = [emptied EXCEPT ![p] = {}]
    /\ Goto(p, "profile", ProfileStage, 0)
    /\ UNCHANGED <<account, client, excused, result, page, tries, unseen>>

(* Each prefix that had objects goes from the edges. *)
Invalidate(p) ==
    /\ pc[p] = "invalidate" /\ emptied[p] # {}
    /\ cached' = {k \in cached : k[1] \notin emptied[p]}
    /\ swept' = [swept EXCEPT ![p] = {}]
    /\ emptied' = [emptied EXCEPT ![p] = {}]
    /\ Goto(p, "profile", ProfileStage, 0)
    /\ UNCHANGED <<account, client, excused, result, page, tries, unseen>>

(* An invalidation that fails is logged, and the call goes on. *)
InvalidateFails(p) ==
    /\ pc[p] = "invalidate" /\ emptied[p] # {}
    /\ excused' = excused \cup swept[p]
    /\ swept' = [swept EXCEPT ![p] = {}]
    /\ emptied' = [emptied EXCEPT ![p] = {}]
    /\ Goto(p, "profile", ProfileStage, 0)
    /\ UNCHANGED <<account, client, cached, result, page, tries, unseen>>

(* ProfileRepository.Delete, whose read may lag. *)
ProfileDelete(p) ==
    /\ pc[p] = "profile"
    /\ \/ Profile \in present /\ present' = present \ {Profile} /\ UNCHANGED unseen
       \/ /\ ~replica \/ Profile \notin present
          /\ unseen' = [unseen EXCEPT ![p] = @ \cup (present \cap {Profile})]
          /\ UNCHANGED present
    /\ Goto(p, "notify", ProfileStage, End)
    /\ UNCHANGED <<ever, client, edge, result, page, tries, emptied, swept>>

(* The operator is told; a notice that fails is logged, not returned. *)
Notify(p) ==
    /\ pc[p] = "notify"
    /\ notice' \in {"sent", "failed"}
    /\ answered' = TRUE
    /\ Stop(p)
    /\ UNCHANGED <<account, client, edge>>

(* A call fails, or the invocation ends. *)
Fail(p) ==
    /\ InProgress(p)
    /\ excused' = excused \cup swept[p]
    /\ Stop(p)
    /\ UNCHANGED <<account, client, cached, result>>

-----------------------------------------------------------------------------
Others ==
    \/ CreateKeyboard \/ CreateSwitch \/ CreateKeycapSet \/ CreateProfile
    \/ UpdateKeyboard \/ UpdateSwitch \/ UpdateKeycapSet
    \/ \E b \in BuildItems : CreateBuild(b) \/ UpdateBuild(b)
    \/ \E i \in Items \cup {Profile} : AddImage(i)
    \/ \E k \in Images : Upload(k) \/ Serve(k)
    \/ Replicate
    \/ Ask

(* The steps of a call that succeed. *)
Succeed(p) ==
    \/ Query(p) \/ BatchDelete(p)
    \/ ListObjects(p) \/ DeleteObjects(p) \/ Invalidate(p) \/ InvalidateFails(p)
    \/ ProfileDelete(p) \/ Notify(p)

Retry(p) == DeleteProfile(p) \/ handleDeleteProfile(p)

Next ==
    \/ Others
    \/ \E p \in Procs :
        Retry(p) \/ Succeed(p) \/ BatchUnprocessed(p) \/ DeleteObjectsErrors(p) \/ Fail(p)

Spec == Init /\ [][Next]_vars

(* The user asks again until it is done; a call that is not cut off goes   *)
(* on; and calls are cut off or refused only for so long.                  *)
Fairness ==
    /\ \A p \in Procs : WF_vars(Retry(p)) /\ WF_vars(Succeed(p))
    /\ <>[][\A p \in Procs : InProgress(p) /\ ~InProgress(p)' => answered']_vars

FairSpec == Spec /\ Fairness

-----------------------------------------------------------------------------
(* Properties *)

(* What there is in a place a call has passed was written there behind it, *)
(* or not shown to it: it is gone otherwise, however many calls failed     *)
(* before and whatever the user's other requests did meanwhile.            *)
PassedIsClean ==
    \A p \in Procs : \A x \in present :
        Passed(p, x) => x \in unseen[p] \cup page[p]

(* The profile goes last: as long as a call can leave something it should  *)
(* have deleted, the account is still there for the user to try again.     *)
ProfileGoesLast ==
    [][(Profile \in present /\ Profile \notin present') =>
        \E p \in Procs : pc[p] = "profile" /\ present' \subseteq unseen[p]]_vars

(* A request that was under way does not bring an item back. *)
GoneStaysGone == [][\A i \in Items : i \in ever \ present => i \notin present']_vars

(* The edges keep copies of deleted images for two reasons only: a sweep   *)
(* that failed is repeated over prefixes that are then empty, and does not *)
(* invalidate them; or the invalidation itself failed.                     *)
OnlyFailureLeavesCopies ==
    cached \ present \subseteq excused \cup UNION {swept[p] : p \in Procs}

(* A user who keeps asking is answered in the end. *)
EventuallyAnswered == asked ~> answered
=============================================================================

# A TLA+ development for the MyKeebs API

The repository is a Go service (module `mykeebs-api`) that runs on AWS Lambda
and keeps its state in DynamoDB tables and one S3 bucket. There is no lock and
no server process: every HTTP or MCP request is an invocation of its own, every
repository call is one DynamoDB call, and the only atomicity is that of a
conditional write or of a `TransactWriteItems`. What makes the service correct
is therefore which conditions its writes carry, which reads they rest on, and
the order of the calls of one request. That is what these modules model. All
source paths below are relative to `src/`.

## Inventory

| Component | State it keeps | Operations | Modelled in |
| --- | --- | --- | --- |
| Profile repository (`internal/repository/dynamo/profile.go`) | a profile item per user, a claim item per username | create, update, rename, delete; avatar | `ProfileClaims`; the avatar in `ImageSlots` |
| Build repository (`dynamo/build.go`, `dynamo/build_ref.go`) | build items and, in the same table, a marker item for each reference; an index over the markers | create, update, delete, find by reference; images, delete all | `BuildTable`, `BuildRefs`; images in `ImageSlots`, delete all in `AccountDelete` |
| Cascading deletes (`internal/cascadedelete`) | goroutines of one request | delete a keyboard, switch, keycap set, kit, plate or PCB, in block or cascade mode | `CascadeDelete` |
| Build requests (`internal/handlers/builds.go`, `internal/mcp/builds.go`, `internal/buildrefs`) | none | validate references, then write | `CascadeDelete`; images in `ImageSlots` |
| Image moderation (`internal/moderation`, `functions/moderate`, `cmd/mykeebs-moderation`, `template.yaml`) | the status of each image, S3 tags, the dead-letter queue, a review log | moderate an upload; uphold, approve, reject, pause, resume, redrive; list rejections | `Moderation`, without the reports |
| Image slots (image methods of the `dynamo` repositories, image handlers and tools) | paths and statuses on a record, objects in S3 | set, add, replace, remove, upload, set status; delete with the record | `ImageSlots` |
| Upload limit (`internal/uploadlimit`, `dynamo/upload_counter.go`) | a counter per day | reserve | `ImageSlots` |
| Keyboard, switch and keycap set repositories (`dynamo/keyboard.go`, `switch.go`, `keycap_set.go`) | one item per record, with a map of its plates and PCBs or of its kits and the name of its primary kit | create, update, delete; the same of parts and kits | parts in `ItemParts`, records in `AccountDelete` and `CascadeDelete`, images in `ImageSlots` |
| Account deletion (`internal/accountdelete`, `dynamo/owner_items.go`, `s3/owner_image_store.go`) | none | four tables, all images, the CDN, the profile, a notice | `AccountDelete` |
| Migration tool (`cmd/mykeebs-migrate`) | a dump on disk, the map of ids, in memory and on disk | dump, restore, verify | `Migrate` |
| Pagination | none | pages of a listing | in `Migrate`, as its client reads them |
| Visibility, validation, lookups, REST/MCP front ends, auth, consent | none that lasts | per-request functions | not modelled, but for the calls the handlers make |

How they interact: the front ends (`internal/handlers`, `internal/mcp`) call
repositories and image stores in sequence; cascading deletes and account
deletion call several repositories; the moderation function is called back by
S3 once an upload arrives and writes the status through the same repositories;
the operator's tool writes the same status and the same tags. The migration
tool is a client of the API like any other. Nothing is shared in memory except
between the goroutines of one cascading delete.

What is hard here: a read that is old by the time its write is made (every
retry loop, every validation, every cascade); a read that was old when it was
made (`GetItem` without `ConsistentRead`, and the index, which cannot be read
consistently); a response that is lost after the write; a request killed
between two calls; a cascade that fails half way; events delivered twice, late,
or given up; an operator's command interrupted between its steps; a user whose
other requests go on while the account is deleted; and a migration that is cut
short between the API and the file in which it remembers what it did.
`PROJECT.json` lists these hazards, each at its line, with the properties
about it.

## Modules

| Module | What it is |
| --- | --- |
| `UsernameRegistry` | what the profile repository promises: a registry of names |
| `ProfileClaims` | the two profile tables and the requests that write them; `Registry == INSTANCE UsernameRegistry` |
| `ProfileClaims_proofs` | its theorems |
| `BuildTable` | build items and markers, and what each transaction writes or cannot write |
| `BuildRefs` | the requests that make those transactions |
| `BuildRefs_proofs` | its theorems |
| `CascadeDelete` | extends `BuildRefs` with items, parts, objects, the index, validation, and deletes whose goroutines are processes of `BuildRefs` |
| `CascadeDelete_proofs` | its theorems |
| `Moderation` | one image: function, queue, lifecycle rule, CDN, owner, operator |
| `Moderation_proofs` | its theorems |
| `ImageSlots` | the images of one record of any kind, the requests about them, and the daily limit |
| `ImageSlots_proofs` | its theorems |
| `ItemParts` | the kits of a set with its primary kit, or the parts of a keyboard |
| `ItemParts_proofs` | its theorems |
| `AccountDelete` | the deletion of an account, a page at a time, next to the user's other requests |
| `AccountDelete_proofs` | its theorems |
| `Migrate` | dump, restore and verify, cut short at any step |
| `Migrate_proofs` | its theorems |
| `MC...` | symmetry and small sets for TLC |

### ProfileClaims

`profile` and `claim` are the two tables; `replica` is what a lagging read of a
profile may answer. A process is a request; `pc` names the DynamoDB call it
makes next, so that each action is one call together with everything the code
does up to the next one. A transaction is two actions: `...Commit`, guarded by
all of its conditions, and `...Cancel`, with the classification the code makes
of the cancellation reasons (`mapProfileCreateConflict`,
`classifyProfileRenameConflict`, `profileDeleteShouldRetry`). DynamoDB cancels
with `TransactionConflict` only if another request is at work, which is the
guard `Contended`. A create's item that is held by a conflict fails no
condition, which is why `CreateCancel` may answer that the name is taken while
the profile exists. `Fail` is any other error and a killed invocation;
`ReturnWritten` includes the lost response. `answer` is what the last step
returned, so that properties can speak of it.

- `OneClaimEach`: a user holds exactly one claim if it has a profile, and none
  otherwise. This is the heart of the design and survives every race.
- `ImplementsRegistry`: refinement of `UsernameRegistry` under
  `holder <- claim, member <- {users with a profile}`. No race takes a name
  from its holder. Note what is *not* mapped: the username in the profile item.
- `OnlyLateUpdateParts`: the profile's own username goes out of step with its
  claim in one step only, `updateProfileItem` after a rename overtook it.
- `CreateTakenBySomeoneElse`: a repeated create hears that the profile exists,
  not that its own name is taken, unless another request of the user is at work.
- `UsernamesUnique` is violated: see Findings.

### BuildTable and BuildRefs

A build lists references; `twice` records which of its lists repeat one. The
code derives a marker per list entry, so `Repeated` says when a transaction
would name one key twice, which DynamoDB refuses as a validation error,
whatever the tables hold. An update computes the difference of the markers of
the version it `seen` and the one it wants; a delete deletes the markers of the
version it read; neither is conditioned on that version. The read a successful
update answers with is consistent, so it only ends the request.

- `OnlyStaleDiffDrifts`: markers and build come apart only in a commit that
  works from an outdated version. `GoneStaysGone`: no update revives a build.
- `NoOrphanMarkers` and `StoredCanBeDeleted` are violated: see Findings.

### CascadeDelete

A delete's request goes through `phase`; its goroutines are the pairs
`<<delete, build>>`, which are processes of `BuildRefs`, so a cascade's
`buildRepo.Delete` is the whole retry loop of that module, not one step.
`DeleteBuild` (the handler) is a delete with one goroutine and no item. `index`
lags behind `marker` one marker at a time, and `QueryAnswers` is what the one
`Query` of `queryReferencingBuilds` may answer: all markers of the item, or any
page of at least `FullPage` of them, since `LastEvaluatedKey` is not followed.
Items, parts and kits are created during a run (`ItemCreate`), and their reads
lag (`shown`, `MayFind`, `MayMiss`), so that a delete right behind a create may
take the item for gone (`ItemAbsent`). `object` says which records have an
S3 object left; `BuildImages` and `ItemImages` delete all objects of a record
or fail. Creates and updates of builds pass validation (`Valid`) when they
arrive and write in later steps. `CInit` is any quiet state: some items and some
builds, each build with its markers, index entries and an image.

A plate or PCB is found by another way than an item: there are markers for
keyboards and not for their parts, so a delete of a part queries for the builds
of the keyboard and reads each of them (`PartFetch`, the workers' other use) to
see whether it lists the part; those that do are then deleted or block
(`PartJoin`). A kit has markers of its own, and is deleted like an item; it lies
in its set (`Holds`), goes with it, and a build that lists it needs both
(`Resolves`). What a kit's delete does to `primary_kit_id` is in `ItemParts`.

- `NothingOrphaned`: an object never outlives its record.
- `SuccessIsClean`: a delete of an item or part succeeds only when it, what lies
  in it, its images and every build found are gone; the exception is what a
  lagging read did not find: a build, or the item itself, which then stays.
- `OnlyLateOrMissedDangles`: a reference dangles only through a late write of
  the build, a query or read that lagged (`late`), or a query whose first page
  did not have the build (`beyond`).
- `DeletesOnlyUsers`: a cascade deletes a build that does not list what is
  deleted only if the build was written after the cascade had read it (`late`).

Simplifications, each on the safe side of the properties: a 409 of block mode
changes nothing and is no action; an item is created once, since ids are fresh
UUIDs; validation is one exact step, because one that reads in several steps, or
reads lagging replicas, is one that happened earlier, and its write may come any
time later; a killed Lambda is each goroutine failing and then the join; a build
that lists two kits of a set is in the answer to the set's query twice and gets
one goroutine here. Images are present from the start and not added, and an item
that is created during a run has none; uploads are in `ImageSlots`.

### Moderation

One image from the moment its slot was set (`pending`) and its upload URL handed
out. `status` is the attribute on the record (`gone` when no record holds the
key), `file` the object, `tagged` the tag `moderation=rejected`, `cached` the
CDN's copy. A delivery of the upload's event goes
`unsent -> waiting -> detect -> tag -> set -> done`, failing at any point back
to `waiting` or, out of attempts or too old, to `deadletter`. The function's
verdict is fixed by the image's bytes. The operator's commands are one step per
call, and can be interrupted before every call; one operator works at a time.
The owner deletes the object first and the record second, and may be stopped in
between. `aged` stands for both the lifecycle rule's days and the end of the
retention of events, which is shorter: an image ages only when no delivery is
left at work or queued, so events lost to the queue's 14 days are outside the
model. A copy's own expiry at the CDN is left out, which makes `cached` last
longest. A redrive whose `DeleteMessage` fails is a duplicate delivery.

`late`, `missed` and `review` are history variables, read by no guard: the file
was tagged when its status was no longer pending; an attempt skipped the image
on a read that lagged; a takedown is not on the log yet, and its rerun can tell.

- `OnlyLagLosesImage`: a pending upload always has a delivery in Lambda's hands
  or in the dead-letter queue, with the one exception `missed`.
- `OnlyLateTagExpires`: an approved image is about to lose its file only
  because of a `late` tag, never through an interrupted or repeated command.
- `RejectedIsTagged`: what the order of tag and status writes is for in the
  function. `TakedownIsComplete`: what it is for in a takedown, run or rerun:
  nothing serves the image any more, and the takedown is on the log of reviews
  (`review` says that a rerun still has to put it there), with the named
  exceptions.
- `EventuallyDecided`: see Fairness.

### ImageSlots

One record of a kind chosen at the start. `status` is the map (or the single
path) with the status of each image; `object` the keys that exist in the bucket;
`url` the keys the client may upload to. A request goes `setGet -> reserve ->
deleteOld -> write`, and a map's add starts at `reserve`; a removal goes
`removeGet -> removeObject -> clear`; the deletion of the record `deleteGet ->
deleteObjects -> deleteRecord`. Every write is guarded by its condition
expression, and one that fails is `Fail`. The writes that have no condition on
what they replace (`ClearImagePath`, `SetImagePath`, the record's delete) have
none here. Reads may lag. `Upload` and `Decide` come at any time, also after
everything else has gone. `today` counts the keys that were reserved, against
`count`; `ReserveRepeated` is an increment the SDK repeats, which uses up the
limit and gives nothing.

- `LimitHolds`: never more URLs in a day than the limit, however many requests
  race or are repeated. `WithinCap`: concurrent adds do not overshoot
  `MaxImagesPerItem`.
- `VerdictIsItsOwn`: a decision that arrives late is never applied to the image
  that has taken the place of the one it is about.
- `OnlyRacesOrphan`: an object is left that no record names only through an
  upload to a URL whose name has gone, an upload repeated behind a delete, or a
  write that overtook another. Requests one after the other, each failing
  anywhere, leave none.

The bucket's file types, sizes and transcodings are left out, and so is what a
cascade does to a build's images (`CascadeDelete`).

### ItemParts

One item, a set or a keyboard, its parts and, for a set, `primary`. Each
repository method is one action per DynamoDB call. `Committed` leaves open
whether the response is lost, and the SDK makes the call again, which then
meets its own effect: a repeated add conflicts with itself, a repeated delete
finds nothing and is a success (`DeleteConflict`,
`classifyDeleteKitConflict`). `Clear` is `clearPrimaryIfMatches`, the second
write, on the condition that the set still names the kit; `Fail` at `clear` is
the failure that is only logged. `designated` is what the committed writes, in
their order, make the primary kit; `removed` the parts that were deleted.

- `OnlyUnclearedDangles`: a set keeps naming a kit that is gone only when the
  clearing write failed, or when the response of the delete was lost.
- `OnlyLateClearUndoes`: the name is taken from a kit that a later request
  designated only by a clear of a request that wrote that same kit.
- `OnlyRepeatedAddRevives`: a deleted part comes back only through its own add,
  repeated.

### AccountDelete

A thing of the account is a pair of the stage at which the deletion meets it
and its position there: tables 1 to 4, the prefixes of the bucket 5 to 9, the
profile 10. A call has a `stage` and a `cursor`; a page is what lies ahead up to
some key. `BatchDelete` and `BatchUnprocessed` are `BatchWriteItem` with keys
handed back; `DeleteObjectsErrors` is `DeleteObjects` whose answer lists
errors; the CDN is invalidated once, behind the last prefix, for the prefixes
that had objects (`emptied`). `Store` is what every other request of the user
does: it writes things, and each call that has passed their place counts them
as `unseen`. `Fail` may end a call at any point, and `Retry` starts another
from the beginning.

- `PassedIsClean`: what is left where a call has passed was written behind it.
- `ProfileGoesLast`: the profile is deleted only when all that a call could see
  has gone, so that a call that failed earlier can be made again.
- `GoneStaysGone`: an update under way does not bring an item back.
- `OnlyFailureLeavesCopies`: the edges of the CDN keep a copy of a deleted image
  only when a call failed between the sweep and the invalidation (the next
  call finds the prefix empty and does not invalidate it), or the
  invalidation failed.
- `EventuallyAnswered`: see Fairness.

The username's claim goes with the profile, in `ProfileClaims`; the upload
counter is left to expire, in the code as here.

### Migrate

What a dump holds is a tree, walked in one order (`Walk`); each node stands
for one item, part, kit or image, and `end` for the save behind the images of
an item. `source` is the account that is dumped, by pages, while its owner
changes it; `dir` and `manifest` what is on disk; `live` the account restored
to, by ids that say what was copied and how often; `mem` and `disk` the map of
ids in memory and in `id-map.json`. A step that asks the API for something may
be cut before or after the API did it (`Answered`, `cut`), and a save may leave
`Torn`, half a file. `resume` is what a later run leaves out. A dump makes the
directory of an item before it fetches it, and writes `item.json` in place: one
that stops in between (`dumpItemUnwritten`: the item was deleted since it was
listed, the fetch or the write fails, the process dies) leaves a directory in
`broken`, which the next dump of that item mends, and on which every restore
fails (`itemUnreadable`), because it takes each directory for an item.
A listing shows what is in the account at that moment (`Listed`); the API's own
list query is eventually consistent, so an item created just before the dump may
be missing from it, which is not modelled.

- `DumpIsWhole`: every item that was there from beginning to end is in the dump,
  readable, with all it holds.
- `OneSurplusPerCut`: a crash leaves at most one item the map does not know.
- `OnlyCutImagesMissing`: a restore that answers with success lacks only images
  of builds and single images, and only if a run before it was cut.
- `VerifiedIsWhole`: a restore that verify found right is complete, and has no
  image or keyboard part too many.
- `EventuallyRestored`: restarted, a restore succeeds unless it is `Stuck`: the
  map is torn, a directory of the dump is broken, a build lacks what it refers
  to, a slot or an item's images are taken, or the API refuses it.

## Runs

| Run | Instance | Shows |
| --- | --- | --- |
| `profile_claims` | 2 users, 3 names, 2 requests, 3 attempts, lagging reads | the five properties of `ProfileClaims` hold |
| `profile_unique` | 2 users, 2 names, 2 requests, exact reads | `UsernamesUnique` is violated |
| `build_refs` | 1 build, a keyboard and a repeatable switch, 2 requests, 2 attempts, lagging reads | `OnlyStaleDiffDrifts`, `GoneStaysGone` hold |
| `build_orphans` | 1 build, 2 references, 2 requests, exact reads | `NoOrphanMarkers` is violated |
| `build_repeated` | 1 build, 1 request | `StoredCanBeDeleted` is violated |
| `cascade` | 1 keycap set with 1 kit, 2 builds, pages of 1 marker or more, 1 client, 1 delete, lagging reads | `SuccessIsClean`, `OnlyLateOrMissedDangles` hold |
| `cascade_race` | 1 keyboard with 1 plate, 1 build, 1 client, 2 deletes, lagging reads | `NothingOrphaned`, `DeletesOnlyUsers` hold |
| `moderation` | 2 deliveries, 2 attempts, lagging reads, under `FairSpec` | the six properties of `Moderation` hold |
| `image_slots` | a record of each of the five kinds, 3 uploads, 2 requests, a limit of 2 and a cap of 2, lagging reads | the five properties of `ImageSlots` hold |
| `account_delete` | 2 builds and one of every other thing, 1 call at a time, 2 other writes, 1 retry, under `FairSpec` | the six properties of `AccountDelete` hold |
| `item_parts` | 2 parts, 3 requests, lagging reads, a set and a keyboard | the four properties of `ItemParts` hold |
| `migrate` | one of each kind of item with its contents and a second switch, pages of 1, 2 changes, 2 cut runs, under `FairSpec` | the six properties of `Migrate` hold |

Why these bounds are enough to be interesting:

- Requests. Two requests in flight make every pair of calls race, with any
  number of further requests before and after, since a process is reused; a
  hazard here is one request overtaken between a read and its write. A third
  matters only to what two others leave behind, and they can do so one after
  the other. `ProfileClaims` bounds the requests of one user with `MaxPerUser`.
- Users and names. A race for a name needs two users. A rename whose old claim
  moved while its new name is still free needs three names.
- Attempts. `MaxAttempts` is 3 in the code (`maxProfileMutationAttempts`,
  `maxBuildMutationAttempts`, one try and `MaximumRetryAttempts: 2`). Two are a
  first attempt and a retry with fresh data; a third is a second retry. In the
  cascade runs it is 1: the retries are the subject of `build_refs`, and a loop
  that gives up sooner is one more way to fail there.
- Builds. `build_refs` needs one, since no action touches two; `cascade` needs
  two so that one goroutine can fail and the other succeed, and so that one can
  be on the first page of the index and the other behind it (`FullPage` is 1; the
  code's page is 1 MB). `cascade_race` has one build, because what it asks is
  what two deletes do to the same one. In both, items may be there from the start
  or be created on the way.
- References. One that is a list (`Repeatable`) and one that is not.
- Images. Three uploads are one that is there, one that replaces it and one
  that races; a limit and a cap of 2 are reached with them. The code has
  `MaxImagesPerItem` 10.
- Kits. Two, so that one can be made primary while the other is deleted; three
  requests, since a late clear takes one that clears, one that names again and
  one that deletes.
- Account. Two builds give the first table several pages of builds and markers;
  every other stage has at most one thing, and the stages are treated alike.
  Two writes (`MaxWrites`) are one before and one behind the call, or an update
  and the upload it allowed. A second concurrent call is in the theorems and not
  in the run; it adds only deletes.
- Migration. One item of a kind is enough for the walk; the second switch makes
  a listing of two pages and can be the one a build refers to or not. Two cut
  runs are the one that leaves something and the one that meets it.
  `MaxImagesPerItem` is 3: two images of one keyboard and room for one copy.

The deadlock check is on but in `account_delete` and `migrate`: an account that is
gone, whose user makes no more requests, stays as it is, and so does a dump no
restore of which is wanted; both stop only where the bounds on writes, changes
and cuts are used up. Symmetry is used in runs without liveness,
over sets whose members no definition tells apart.

Mutants of the actions (`RenameGetUnbounded`, `DetectUntagged`, ...) stand next
to the definitions they change. Each is a plausible slip in the code; put in the
definition's place, it breaks the property `PROJECT.json` pairs it with.

## Fairness

`Moderation` assumes one thing: `WF_vars(Deliver(e))`, that an event Lambda
holds is dealt with. It is invoked unless the function is paused; an attempt
that hangs is ended by `Timeout: 30` in `template.yaml` and is one that failed
(`AttemptFails`); and an event that waits, paused or not, is given up after
`MaximumEventAgeInSeconds`, 6 hours (`AgeOut`). Nothing is assumed of people,
of S3's duplicates, of the lifecycle rule or of the index. Under that,
`EventuallyDecided`: an uploaded pending image is decided, deleted, or
dead-lettered, or is the one of `OnlyLagLosesImage`.

`AccountDelete` assumes that the user who was refused asks again (`Retry`; the
code has no retry of its own, and the confirmation only comes with a success),
that a call which is not cut off makes its next request (`Succeed`), and that
calls fail only finitely often. Failing for ever is what a dead backend does,
and there nothing ends. It is not assumed that a page is deleted at once or
that the user writes no more. `EventuallyAnswered` then says that paging,
handed back keys and restarts lead to the end; a loop that sends unprocessed
keys for ever would not.

`Migrate` assumes that a restore which runs goes on and one that ended is
started again by the person running it (`WF_vars(RestoreRun \/ RestoreStep)`);
the number of cut runs is bounded. No fairness is assumed of dumps.

## Findings

1. **A username can be carried by two profiles** (`profile_unique`). A plain
   update chooses `updateProfileItem` on a read; a rename of the same profile
   commits; the update writes the old username back. The claim is with the new
   name, so another user can create a profile with the old one. The profile
   can then not be deleted either: the claim it names is not its own. The
   comment on `ProfileRepository` says writes keep the two tables in step.
2. **A delete can leave a marker of a build that is gone** (`build_orphans`).
   The comment on `Delete` says an update between its read and its transaction
   surfaces as a conflict; it does so only if it is still in flight by then.
   The index then names the gone build whenever its item is deleted: block mode
   answers 409 with its id for ever, cascade mode passes over it.
3. **A build can become impossible to delete** (`build_repeated`). An update from
   one mention of a switch to two adds no marker and commits. Every later
   delete names the marker twice and is refused, and so is every cascade that
   finds the build.

Observations without a run of their own:

- A build can reference an item or part that is gone: by a write that was
  validated before the delete's query, through the lag of the index, or because
  more markers name the item than one page of the index has
  (the exceptions of `OnlyLateOrMissedDangles`). Reading such a build is an
  internal error (`internal/repoapi/build.go`). The last of the three also
  contradicts `internal/repository/build.go:177`, by which the query "returns the
  ids of every build".
- A delete right behind the create of its item may answer success and leave the
  item (`ItemAbsent` in `SuccessIsClean`): `Get` reads without `ConsistentRead`
  (`internal/repository/dynamo/keyboard.go:105`).
- A dump that stops at an item which is then deleted leaves an empty directory.
  The next dump into it succeeds, and no restore of it does (`broken` in `Stuck`).
- An approved image can still expire (the exception of `OnlyLateTagExpires`): a
  second delivery of the event that read the image as pending tags the file
  after the operator removed the tag, and its status write is dropped.
- The comment on `Overrides.Reject` says a rejected image without the tag can
  only be an interrupted takedown; an approval interrupted between its two
  writes leaves one too, and rejecting it then records a review.
- An image skipped on a lagging read stays pending with nothing in the
  dead-letter queue, where `docs/moderation.md` sends the operator to look
  (`missed` in `Moderation`; a read would have to lag longer than the upload
  takes).
- The same comment takes an image that is rejected and tagged for "a rejection
  awaiting review, or a finished takedown". A takedown that stops between the
  tag and the log is a third: its rerun answers that it is done, and the log
  never has it. So is one that stopped before the tag, if the owner deleted
  the file or a late delivery tagged it before the rerun (`TakedownIsComplete`).
- A keycap kit whose delete lost its response is gone and still named by its
  set, although nothing failed (`OnlyUnclearedDangles`).
- `CONTRIBUTING.md:74` says of a restore that a re-run resumes from wherever a
  failure stopped. The images of a build whose run was cut are never tried
  again, since `resume` leaves a mapped build out whole, and neither is a
  single image whose upload failed after its URL was asked for; the rerun
  answers success all the same (`OnlyCutImagesMissing`). Verify reports it.
- Verify goes through the map of ids and not through the dump, and does not
  compare the kits of a set. A dump repeated into a directory with an older
  `manifest.json` looks finished before it is; the model dumps into a directory
  without one. An image that moderation rejected has no URL, and a dump of its
  item fails.

## Proofs

`tlapm` checks every theorem of the eight proof modules, for any users, names,
builds, references, items, parts, uploads, events, dumps, limits, requests and
attempts, with and without lagging reads. They rest on the named assumptions of
the modules, which TLC evaluates on every run:

- The model values are distinct from the sets they are not in (`Distinct`,
  `Absent`, `NotABuild`, `NotAPart`, `NotAKey`, `Marks`), keys are finite
  (`FiniteKeys`), bounds are positive (`Bounds`, `Attempts`, `ConstantsOK`),
  `StaleReads` is Boolean (`Staleness`), `Repeatable` is a set of references
  (`ListsOfRefs`), and what an account starts with is something an account can
  have.
- `CascadeDelete`: a request of a client is not a goroutine of a delete
  (`Processes`); ids of builds, items and parts are different UUIDs, a part
  belongs to one item, and what refers to a kit refers to its set
  (`Ownership`); a page of the index has at least one marker (`Pages`).
- `Migrate`: the walk is what `restore` does with a dump's directory. It meets a
  node once (`Tables`); parts are in keyboards, kits in sets, images in what has
  images, and builds refer to what their API lets them refer to (`Kinds`);
  nothing is nested deeper than the slot of a kit (`Depth`); the loops go
  through one item with all it holds before they take the next (`WholeItems`);
  and an item's images are followed by a save of the map and are no more than the
  API accepts (`ItemImages`: `checkImageLimits`, `precheck.go:18`, refuses to restore
  any other dump).

`ProfileClaims_proofs`:

- `TypeCorrect`. `TypeOK` is not inductive: that a rename's transaction frees
  a *name* and not `NoName` depends on where the request is. `RequestInv` says
  what each call has at hand (a user, a name, the name read) and
  `TypeOK /\ RequestInv` is inductive. `StepOfRequest` reduces a request's step
  to going on or returning, `StepEffect` reduces it to five effects on the tables,
  so that each later proof has five cases and not fifteen.
- `OneClaim`. `OneClaimEach` is inductive relative to those: a claim moves only
  together with the condition that its old name was the caller's.
- `Refinement`. Each effect is a `Register`, `Move`, `Release` or a stutter of
  `UsernameRegistry`; that a release empties the user's claims, and that a
  plain update changes no membership, uses the condition on the item.
- `OnlyLateUpdate`, from the effects and `OneClaim`: a step keeps `InSync` for
  every user but the one whose late update it is.
- `TakenBySomeoneElse`: only a create's cancel answers that the name is taken
  (`TakenIsCancel`), when the condition on the claim failed and the one on the
  profile did not: either there is no profile, and by `OneClaimEach` the claim is
  not the caller's, or the profile is contended.

`BuildRefs_proofs`: `TypeCorrect` along the same lines; `OnlyStaleDiff` (a
commit from the stored version leaves the markers exact: `FreshCommit`, and
builds do not touch each other's markers: `OtherBuild`); `GoneForGood`; and
`SerialExact`, that with one request at a time and reads that do not lag the
markers are always exact, so the drift of finding 2 is due to concurrency and
lag alone.

`ImageSlots_proofs`: the inductive invariant is `TypeOK` with `LimitHolds`,
`WithinCap` and `VerdictIsItsOwn`, and two facts about requests: one that is
about to write has a key (`HasKey`), and one that is about to take names away
has swept what it saw under them (`SeenIsSwept`). Requests are reduced to
`Moves`, the record's statuses to the five ways of `StatusStep`; that an added
name is one more, and a reserved key one more, are facts about cardinalities.
`TypeCorrect`, `LimitKept`, `Cap` and `OwnVerdict` follow at once. For
`OnlyRaces`, no step but a write, a clear or a record's delete takes a name
away (`QuietKeeps`, `OthersKeep`), and `SeenIsSwept` says that such a step had
not seen the object, or that it was swept.

`ItemParts_proofs`: `TypeCorrect` from `TypeOK` and `AddFlags` (an add never
carries a primary of false). Requests are reduced to `Moves` and `Arrives`, so
that the action properties are about the few calls that write. `OnlyUncleared`
then has to show of every step that keeps the name of a kit that is gone that
somebody is at `clear` for it; `OnlyLateClear` and `OnlyRepeatedAdd` compare
`primary` with `designated`, and `parts` with `removed`, call by call.

`AccountDelete_proofs`: the inductive invariant is `TypeOK`, `Placed` (which
stage, cursor and page go with which request) and `PassedIsClean` itself. The
idea is `Landed(p)`: a step of a call only removes things and leaves the call in
a place up to which everything still there is on its page or unseen
(`Accounted`). Any landing keeps the invariant (`LandingKeeps`), so each action
only has to be shown to be a landing: a page read by `ReadLands`, the end of a
stage by `NextStageLands`, an abandoned call by `StopLands`. Other requests
keep it since whatever they store behind a call is in `unseen` (`StoreKeeps`).
`TypeCorrect`, `PassedClean`, `ProfileLast` (only the profile's own stage can
remove it, and everything else lies before that stage) and `GoneForGood` follow.
The theorems are about `Spec`, for any number of concurrent calls; the run is
about one call under `FairSpec`, which implies it. `OnlyFailures` needs
`SweptIsEmptied` beside it: a prefix a call has passed and found things under is
in its `emptied`, so that the invalidation behind the last prefix reaches it.

`CascadeDelete_proofs` extends `BuildRefs_proofs`. `ComposesRepository` says
that a step of the composition is a step of `BuildRefs` or leaves its variables
alone, so that what is proved there of every step (`RequestKeeps` from
`RequestInv`, a deleted build stays deleted) is used and not proved again. The
inductive invariant adds to the types: `Roles`, a goroutine is at work on its own
build only; `Answer`, a delete has a goroutine for each build it found and goes
on only when none has failed; `Targets`, which phase is about an item and which
about a part; `ImagesFirst`, whoever is about to delete a record has deleted its
images, from which `NothingOrphaned` follows; `HolderThere`, a part or kit is
there only with what it lies in; and `UpToDate`, what a delete knows
of a build that nobody wrote since (`late`), that no read missed and that was on
the page of its query (`beyond`, `QueryIsPage`) is true of it (`Known`). `CTypeCorrect` and `NoneOrphaned` are conjuncts of it. `SuccessClean`
follows from `Answer` and `ImagesFirst` at the step that answers, and, where the
item was not there, from `HolderThere` and `NothingOrphaned`: neither a part or
kit nor an image can be left without it. `OnlyUsersDeleted` is `Known` of
the build whose transaction commits. `OnlyLateOrMissed` first shows that only the
delete of an item or part makes a reference dangle when no build is written
(`OnlyDeletesRemove`, `StaysValid`), and then that the step that deletes it had
every up-to-date build that lists it among those it has dealt with.

`Moderation_proofs`: `TypeOK` and `OnlyLagLosesImage` are inductive together with
five facts. `AttemptLeft`: an event Lambda still holds has an attempt left, so
the end of its attempts is the dead-letter queue. `Unseen`: while the status is
pending no lagging read shows a decision, so that with `Untouched`, the part of
`TypeOK` by which there is nothing to act upon before the upload, the operator's
commands are about decided images. `TagFirst`: a delivery that is about to write a rejection has tagged the
file. `Takedown`: a takedown holds the status it set and then the tag, whatever
deliveries do meanwhile. `LateTag`: a tag on an image that is approved, or whose
takedown is still to be logged, was put there by a delivery that was overtaken.
`OnlyLateTag` and `OnlyLag` are in it; `TaggedFirst` and `TakedownComplete` compare
the two sides of the few steps that write a status or answer.

`Migrate_proofs`: the inductive invariant is `TypeOK` with `FunctionsOK` (maps are
functions to ids of copies of their own node), `DumpInv`, `WalkInv`, `MapInv` and
`OneSurplusPerCut`.

- `DumpWhole` rests on `DumpInv`: of an item that was there since the dump began,
  in the collection that is being listed, it is known that it is dumped, listed,
  or behind the cursor (`Accounted`). Dumped means `Written`, in the directory and
  not `broken`; a dump that leaves an item unwritten has stopped. `PageFacts` is about the listing: a page
  has everything up to its last position, and one that is not full is the last.
- `OneSurplus` counts strays, the copies neither map names. `StrayStep` says that
  a step with no new stray, or with one and a cut, keeps the count; `MapInv`,
  that the map in memory is ahead of the one on disk by one created id at most,
  makes each step of a restore one of these.
- `WalkInv` says that what the restore has passed is in its map. Its hard case is
  the build that is left out whole: `TreeIsInterval` derives from `WholeItems`,
  by counting, that what an item holds are the places right behind it, so that
  `resume` lands where the next item begins.
- `OnlyCutMissing` needs a second invariant, `RInv`, inductive relative to the
  first. What a map has for a node is a copy of it, below the copy of its parent,
  with the right references or the right bytes (`Faithful`, for which the API's
  ids must be new: `Numbered`); what the restore has passed is there (`Behind`) but
  for images of builds and the bytes of slots, and these only if a run was cut
  (`SlotsFilled`, `ImagesMapped`). That no image is left out *without* a cut is
  the harder half. The map is on disk before the restore leaves an item's images,
  so that no build in the map of a later run waits for any (`ImagesMapped`,
  `NoneOpen`), and the account has no image that the map does not have
  (`NoSurplusImage`), so that the API has room for the next one (`RoomForImages`,
  by counting, from `ItemImages`) and no restore fails at the limit.
- `VerifiedWhole`: what verify compared still holds (`Compared`), whatever is not
  an item is below a copy of what holds it in the dump (`Placed`), and as many
  copies as nodes, with one for each node, are no others (`AsMany`).

Only model-checked: the liveness properties (`EventuallyDecided`,
`EventuallyAnswered`, `EventuallyRestored`), which are out of the prover's reach. The
findings are counterexamples, which TLC finds. Every invariant and every action
property of the passing runs is a theorem.

## Not modelled, and why

- Visibility, validation, mapping, routing, tokens, the encoding of cursors:
  functions of one request and what it read. A wrong one is found by a unit
  test. What validation decides is an input of the requests that are modelled.
- Of the migration tool: login and impersonation, the upgrade of older dumps,
  the conversion of images. They keep no state that a later step rests on, or
  are pure.
- Of moderation: the labels and the transcoding, which are a verdict; the
  reports that read the log of reviews, and of the log what is not about a
  takedown; queues of more than one image.
- The fields of records other than those above: no property depends on them.
- Storage failures that lose committed data, and DynamoDB answering a
  transaction in part: excluded by the service's contract.
- Consent: a static page.

## Plan

Done: the repositories and their transactions, cascading deletes over builds and
parts, moderation, image slots with the daily limit, account deletion and the
migration tool; the theorems above.

Left: of what the runs check, only liveness has no proof. An abstract
specification of a restore, in which the account becomes the dump but for cut
images, would say in one formula what `OnlyCutMissing` and `OneSurplus` say in two.

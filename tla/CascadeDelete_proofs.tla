------------------------ MODULE CascadeDelete_proofs ------------------------
(***************************************************************************)
(* Proofs about CascadeDelete, for any items, parts and builds, any number *)
(* of deletes and of clients at once, with or without lagging reads.       *)
(***************************************************************************)
EXTENDS CascadeDelete, BuildRefs_proofs, FiniteSetTheorems

(* A client writes builds, and a goroutine deletes the build it is for. *)
Roles ==
    /\ \A p \in Clients : pc[p] \notin {"deleteGet", "deleteTx"}
    /\ \A w \in Workers :
        pc[w] # "idle" => pc[w] \in {"deleteGet", "deleteTx"} /\ target[w] = w[2]

(* A delete has a goroutine for each build it found and for no other, goes *)
(* on from them only when none has failed, and has nothing left when it    *)
(* has ended.                                                              *)
Answer ==
    \A d \in Deletes, b \in Builds :
        /\ b \in found[d] <=> work[<<d, b>>] # "none"
        /\ phase[d] = "idle" => b \notin found[d]
        /\ phase[d] \notin Fetching \cup {"idle", "wait"}
            => work[<<d, b>>] \in {"none", "deleted", "absent"}

(* What each phase is about. *)
Targets ==
    \A d \in Deletes :
        /\ phase[d] \in {"itemGet", "itemImages", "itemDelete"} => item[d] \in Items
        /\ phase[d] \in Fetching \cup {"partDelete"} => item[d] \in Parts

(* A kit or a part lies in an item that is there. *)
HolderThere == \A i \in Items : \A x \in Holds[i] \cap live : i \in live

(* The images go before the record, of a build and of an item. *)
ImagesFirst ==
    /\ \A d \in Deletes :
        phase[d] = "itemDelete" => ({item[d]} \cup Holds[item[d]]) \cap object = {}
    /\ \A d \in Deletes, b \in Builds :
        /\ work[<<d, b>>] \in {"repo", "deleted"} => b \notin object
        /\ work[<<d, b>>] = "deleted" => build[b] = Gone

(* What a delete knows of a build that is as it was when the delete began. *)
Known(d, b) ==
    /\ replica[b] = build[b]
    /\ work[<<d, b>>] = "absent" => ~Stored(b)
    /\ Stored(b) /\ item[d] \in Items =>
        /\ b \in found[d] => Lists(build[b], item[d])
        /\ Lists(build[b], item[d]) => b \in found[d] \cup beyond[d]
    /\ Stored(b) /\ item[d] \in Parts /\ phase[d] \in Fetching =>
        /\ Lists(build[b], Home(item[d])) => b \in found[d] \cup beyond[d]
        /\ work[<<d, b>>] = "kept" => item[d] \in build[b].parts
        /\ work[<<d, b>>] = "skipped" => item[d] \notin build[b].parts
    /\ Stored(b) /\ item[d] \in Parts /\ phase[d] \notin Fetching =>
        IF b \in found[d] THEN item[d] \in build[b].parts
        ELSE Lists(build[b], Home(item[d])) /\ item[d] \in build[b].parts => b \in beyond[d]

UpToDate ==
    \A d \in Deletes, b \in Builds : phase[d] # "idle" /\ b \notin late[d] => Known(d, b)

Inv ==
    /\ CTypeOK /\ RequestInv
    /\ Roles /\ Answer /\ Targets /\ ImagesFirst /\ UpToDate
    /\ HolderThere /\ NothingOrphaned

-----------------------------------------------------------------------------
(* Goroutines *)

LEMMA WorkerIsPair ==
    /\ \A d \in Deletes, b \in Builds :
        /\ <<d, b>> \in Workers
        /\ <<d, b>> \in Procs
        /\ <<d, b>>[1] = d /\ <<d, b>>[2] = b
        /\ <<d, b>> \notin Clients
    /\ \A w \in Workers :
        w \in Procs /\ w[1] \in Deletes /\ w[2] \in Builds /\ w = <<w[1], w[2]>>
BY Processes DEF Workers

-----------------------------------------------------------------------------
(* The calls on the repository *)

LEMMA DeleteUsesNoTable == DeleteNext => UNCHANGED vars
BY DEF DeleteNext, BlockingDelete, CascadingDelete, DeleteBuild, PartQuery, Begin,
   PartJoin, PartDelete, Join, ItemGet, ItemAbsent, ItemImages, ItemDelete, ItemCallFails

LEMMA ClientIsRequest == ClientNext => Next
BY Processes DEF ClientNext, ClientStep, CreateBuild, UpdateBuild, Next, Request

LEMMA WorkerIsRequest ==
    ASSUME NEW w \in Workers,
           \/ PartFetch(w) \/ BuildGet(w) \/ BuildImages(w) \/ BuildCallFails(w)
           \/ BuildRecordDeleted(w) \/ BuildRecordAbsent(w)
           \/ BuildRecordRetried(w) \/ BuildRecordFailed(w)
    PROVE  [Next]_vars
<1>1. CASE PartFetch(w) \/ BuildGet(w) \/ BuildCallFails(w)
  BY <1>1 DEF PartFetch, BuildGet, BuildCallFails
<1>2. CASE BuildImages(w)
  BY <1>2, WorkerIsPair DEF BuildImages, Next, Request
<1>3. CASE BuildRecordDeleted(w) \/ BuildRecordAbsent(w) \/ BuildRecordRetried(w) \/ BuildRecordFailed(w)
  <2>1. Step(w) \/ Fail(w)
    BY <1>3 DEF BuildRecordDeleted, BuildRecordAbsent, BuildRecordRetried, BuildRecordFailed, Step
  <2> QED
    BY <2>1, WorkerIsPair DEF Next
<1> QED
  BY <1>1, <1>2, <1>3

(* Whatever a delete or a client does, the repository sees requests.       *)
LEMMA EveryStepIsRequest == [CNext]_cvars => [Next]_vars
<1>1. UNCHANGED cvars => UNCHANGED vars
  BY DEF cvars
<1>2. ASSUME NEW b \in Builds, CatchUp(b) \/ \E r \in Refs : IndexMarker(b, r)
      PROVE  [Next]_vars
  BY <1>2 DEF CatchUp, IndexMarker, Next
<1>3. WorkerNext => [Next]_vars
  BY WorkerIsRequest DEF WorkerNext
<1>4. (\E x \in Items \cup Parts : ItemCreate(x)) \/ (\E i \in Items : ItemCatchUp(i)) => UNCHANGED vars
  BY DEF ItemCreate, ItemCatchUp
<1> QED
  BY <1>1, <1>2, <1>3, <1>4, ClientIsRequest, DeleteUsesNoTable DEF CNext

(* Cascading deletes add nothing to what the repository does: all that is  *)
(* proved of its steps, for any requests, holds of theirs.                 *)
THEOREM ComposesRepository == CSpec => [][Next]_vars
BY EveryStepIsRequest, PTL DEF CSpec

(* A build that is gone stays gone, and a lagging read that has caught up  *)
(* with a build does not fall behind it again until it changes.            *)
LEMMA TableFacts ==
    ASSUME TypeOK, RequestInv, [Next]_vars, NEW b \in Builds
    PROVE  /\ build[b] = Gone => build'[b] = Gone
           /\ replica[b] = build[b] /\ build'[b] = build[b] => replica'[b] = build'[b]
<1>1. build[b] = Gone => build'[b] = Gone
  <2>1. ASSUME NEW p \in Procs, CreateCommit(p) \/ UpdateCommit(p) \/ DeleteCommit(p)
        PROVE  build[b] = Gone => build'[b] = Gone
    BY <2>1, Absent DEF CreateCommit, UpdateCommit, DeleteCommit, Stored,
       WriteCreate, WriteUpdate, WriteDelete, TypeOK, TablesOK
  <2> QED
    BY <2>1, EveryStep
<1>2. ASSUME replica[b] = build[b], build'[b] = build[b]
      PROVE  replica'[b] = build'[b]
  <2>1. ASSUME NEW p \in Procs, Step(p) \/ Fail(p)
        PROVE  replica'[b] = build'[b]
    <3>1. CASE UNCHANGED tables
      BY <1>2, <3>1 DEF tables
    <3>2. CASE CreateCommit(p) \/ UpdateCommit(p) \/ DeleteCommit(p)
      BY <1>2, <3>2 DEF CreateCommit, UpdateCommit, DeleteCommit, Replicated
    <3> QED
      BY <2>1, <3>1, <3>2, StepOfTables DEF TableStep
  <2>2. CASE \E p \in Procs : Request(p)
    BY <1>2, <2>2 DEF Request, Create, Update, Delete, Receive
  <2>3. CASE \E c \in Builds : Replicate(c)
    BY <1>2, <2>3 DEF Replicate, TypeOK
  <2>4. CASE UNCHANGED vars
    BY <1>2, <2>4 DEF vars
  <2> QED
    BY <2>1, <2>2, <2>3, <2>4 DEF Next
<1> QED
  BY <1>1, <1>2

-----------------------------------------------------------------------------
(* What a delete knows, when something else happens *)

(* A build that is written becomes late, and what is known of the others   *)
(* stays true.                                                             *)
LEMMA KnowledgeKept ==
    ASSUME Inv, [Next]_vars, UNCHANGED <<phase, item, found, work, beyond>>,
           Outdate \/ UNCHANGED <<build, late>>
    PROVE  UpToDate'
<1> SUFFICES ASSUME NEW d \in Deletes, NEW b \in Builds, phase[d] # "idle", b \notin late'[d]
             PROVE  Known(d, b)'
  BY DEF UpToDate
<1>1. b \notin late[d] /\ build'[b] = build[b]
  BY DEF Outdate
<1>2. Known(d, b)
  BY <1>1 DEF Inv, UpToDate
<1>3. replica'[b] = build'[b]
  BY <1>1, <1>2, TableFacts DEF Inv, CTypeOK, Known
<1> QED
  BY <1>1, <1>2, <1>3 DEF Known, Stored, Lists, Fetching

(* What does not touch the records of the items, or the deletes.           *)
LEMMA RequestKeeps ==
    ASSUME Inv, [Next]_vars, UNCHANGED <<phase, item, found, work, beyond, records>>,
           index' \in [Builds -> SUBSET Refs], late' \in [Deletes -> SUBSET Builds],
           Outdate \/ UNCHANGED <<build, late>>,
           Roles', \A w \in Workers : pc'[w] # "idle" => pc[w] # "idle",
           \A b \in Builds : Stored(b) => Stored(b)'
    PROVE  Inv'
<1> USE DEF records
<1>1. TypeOK' /\ RequestInv'
  BY TypeInductive DEF Inv, CTypeOK
<1>2. CTypeOK'
  BY <1>1 DEF Inv, CTypeOK
<1>3. Answer' /\ Targets'
  BY DEF Inv, Answer, Targets
<1>4. ImagesFirst'
  BY TableFacts DEF Inv, CTypeOK, ImagesFirst
<1>5. UpToDate'
  BY KnowledgeKept
<1>6. NothingOrphaned' /\ HolderThere'
  BY DEF Inv, CTypeOK, NothingOrphaned, HolderThere
<1> QED
  BY <1>1, <1>2, <1>3, <1>4, <1>5, <1>6 DEF Inv

(* A client's step moves no goroutine, and does not delete a build.        *)
LEMMA ClientStepKeepsRoles ==
    ASSUME Inv, NEW p \in Clients, Step(p) \/ Fail(p)
    PROVE  /\ Roles'
           /\ \A w \in Workers : pc'[w] = pc[w]
           /\ \A b \in Builds : Stored(b) => Stored(b)'
<1>1. p \in Procs /\ p \notin Workers /\ pc[p] \notin {"deleteGet", "deleteTx"}
  BY Processes DEF Inv, Roles
<1>2. /\ \A q \in Procs \ {p} : pc'[q] = pc[q] /\ target'[q] = target[q]
      /\ pc'[p] \notin {"deleteGet", "deleteTx"}
  BY <1>1 DEF Inv, CTypeOK, TypeOK, Step, Fail, CreateCommit, CreateReject, UpdateGet, Attempt,
     UpdateCommit, UpdateCancel, UpdateReject, UpdateReread, DeleteGet, DeleteCommit,
     DeleteCancel, DeleteReject, GiveUp, Return, Forget, Goto
<1>3. \A b \in Builds : Stored(b) => Stored(b)'
  <2>1. TableStep(p) /\ ~DeleteCommit(p)
    BY <1>1, StepOfTables DEF DeleteCommit
  <2>2. CASE CreateCommit(p) \/ UpdateCommit(p)
    BY <1>1, <2>2 DEF Inv, CTypeOK, TypeOK, TablesOK, RequestInv, CreateCommit, UpdateCommit,
       WriteCreate, WriteUpdate, Stored
  <2> QED
    BY <2>1, <2>2 DEF TableStep, tables, Stored
<1> QED
  BY <1>1, <1>2, <1>3, Processes DEF Inv, Roles

LEMMA ClientKeeps ==
    ASSUME Inv, ClientNext
    PROVE  Inv'
<1>0. [Next]_vars
  BY ClientIsRequest
<1>1. ASSUME NEW p \in Clients, ClientStep(p)
      PROVE  Inv'
  <2>1. Step(p) \/ Fail(p)
    BY <1>1 DEF ClientStep
  <2>2. Outdate /\ UNCHANGED <<records, index, phase, item, found, work, beyond>>
    BY <1>1 DEF ClientStep
  <2>3. late' \in [Deletes -> SUBSET Builds] /\ index' \in [Builds -> SUBSET Refs]
    BY <2>2 DEF Inv, CTypeOK, Outdate
  <2> QED
    BY <1>0, <2>1, <2>2, <2>3, ClientStepKeepsRoles, RequestKeeps
<1>2. ASSUME NEW p \in Clients, NEW b \in Builds, NEW c \in Contents,
             CreateBuild(p, b, c) \/ UpdateBuild(p, b, c)
      PROVE  Inv'
  <2>1. \E call \in {"createTx", "updateGet"} : Receive(p, b, c, call)
    BY <1>2 DEF CreateBuild, UpdateBuild, Create, Update
  <2>2. UNCHANGED <<build, records, index, phase, item, found, work, late, beyond>>
    BY <1>2, <2>1 DEF CreateBuild, UpdateBuild, Receive, deletes
  <2>3. Roles' /\ \A w \in Workers : pc'[w] = pc[w]
    BY <2>1, Processes DEF Inv, CTypeOK, TypeOK, Roles, Receive
  <2>4. late' \in [Deletes -> SUBSET Builds] /\ index' \in [Builds -> SUBSET Refs]
    BY <2>2 DEF Inv, CTypeOK
  <2> QED
    BY <1>0, <2>2, <2>3, <2>4, RequestKeeps DEF Stored
<1> QED
  BY <1>1, <1>2 DEF ClientNext

LEMMA DynamoKeeps ==
    ASSUME Inv, NEW b \in Builds, CatchUp(b) \/ \E r \in Refs : IndexMarker(b, r)
    PROVE  Inv'
<1>1. UNCHANGED <<build, records, phase, item, found, work, late, beyond>>
  BY DEF CatchUp, IndexMarker, Replicate, vars, deletes
<1>2. UNCHANGED <<pc, target>>
  BY DEF CatchUp, IndexMarker, Replicate, vars, locals
<1>3. index' \in [Builds -> SUBSET Refs]
  BY DEF CatchUp, IndexMarker, Inv, CTypeOK
<1>4. [Next]_vars
  BY DEF CatchUp, IndexMarker, Next
<1>5. Roles'
  BY <1>2 DEF Inv, Roles
<1> QED
  BY <1>1, <1>2, <1>3, <1>4, <1>5, RequestKeeps DEF Inv, CTypeOK, Stored

-----------------------------------------------------------------------------
(* The goroutines of a delete *)

(* What a goroutine's new stage must mean for the delete to be right.      *)
StageOK(d, b, stage) ==
    /\ stage \in {"get", "images", "repo"} => phase[d] = "wait"
    /\ stage \in {"fetch", "kept", "skipped"} => phase[d] \in Fetching
    /\ stage \in {"repo", "deleted"} => b \notin object'
    /\ stage = "deleted" => build'[b] = Gone
    /\ b \notin late'[d] =>
        /\ stage = "absent" => ~Stored(b)
        /\ stage = "kept" /\ Stored(b) => Lists(build[b], item[d])
        /\ stage = "skipped" /\ Stored(b) => ~Lists(build[b], item[d])

LEMMA ProgressKeeps ==
    ASSUME Inv, [Next]_vars, NEW d \in Deletes, NEW b \in Builds,
           work[<<d, b>>] \in {"fetch", "get", "images", "repo"},
           NEW stage \in Stages \ {"none"}, Progress(<<d, b>>, stage), StageOK(d, b, stage),
           Outdate \/ UNCHANGED <<build, late>>, object' \subseteq object,
           Roles', \A w \in Workers : pc'[w] # "idle" => work'[w] = "repo",
           \A c \in Builds : c \in object' /\ Stored(c) => Stored(c)'
    PROVE  Inv'
<1> USE WorkerIsPair DEF Progress
<1>0. /\ UNCHANGED <<unborn, live, shown, index, phase, item, found, beyond>>
      /\ phase[d] \in Fetching \cup {"wait"} /\ phase[d] # "idle" /\ b \in found[d]
      /\ work'[<<d, b>>] = stage
      /\ \A e \in Deletes, c \in Builds :
            <<e, c>> # <<d, b>> => work'[<<e, c>>] = work[<<e, c>>]
      /\ \A w \in Workers : w # <<d, b>> => work'[w] = work[w]
  BY DEF Inv, CTypeOK, Answer, Fetching
<1>1. TypeOK' /\ RequestInv'
  BY TypeInductive DEF Inv, CTypeOK
<1>2. CTypeOK'
  <2>1. work' \in [Workers -> Stages]
    BY DEF Inv, CTypeOK
  <2>2. object' \subseteq Items \cup Builds
    BY DEF Inv, CTypeOK
  <2>3. late' \in [Deletes -> SUBSET Builds]
    BY DEF Inv, CTypeOK, Outdate
  <2>4. ASSUME NEW w \in Workers
        PROVE  /\ work'[w] \in {"get", "images", "repo"} => phase'[w[1]] = "wait"
               /\ work'[w] \in {"fetch", "kept", "skipped"} => phase'[w[1]] \in Fetching
               /\ work'[w] # "none" => w[2] \in found'[w[1]]
    BY <1>0 DEF Inv, CTypeOK, StageOK, Fetching
  <2> QED
    BY <1>0, <1>1, <2>1, <2>2, <2>3, <2>4 DEF Inv, CTypeOK
<1>3. Answer'
  <2> SUFFICES ASSUME NEW e \in Deletes, NEW c \in Builds
               PROVE  /\ c \in found'[e] <=> work'[<<e, c>>] # "none"
                      /\ phase'[e] = "idle" => c \notin found'[e]
                      /\ phase'[e] \notin Fetching \cup {"idle", "wait"}
                          => work'[<<e, c>>] \in {"none", "deleted", "absent"}
    BY DEF Answer, Fetching
  <2>1. CASE <<e, c>> = <<d, b>>
    BY <1>0, <2>1 DEF Fetching
  <2>2. CASE <<e, c>> # <<d, b>>
    BY <1>0, <2>2 DEF Inv, Answer, Fetching
  <2> QED
    BY <2>1, <2>2
<1>4. Targets'
  BY <1>0 DEF Inv, Targets
<1>5. ImagesFirst'
  BY <1>0, TableFacts DEF Inv, CTypeOK, ImagesFirst, StageOK
<1>6. UpToDate'
  <2> SUFFICES ASSUME NEW e \in Deletes, NEW c \in Builds, phase[e] # "idle", c \notin late'[e]
               PROVE  Known(e, c)'
    BY <1>0 DEF UpToDate
  <2>1. c \notin late[e] /\ build'[c] = build[c]
    BY DEF Outdate
  <2>2. Known(e, c)
    BY <2>1 DEF Inv, UpToDate
  <2>3. replica'[c] = build'[c]
    BY <2>1, <2>2, TableFacts DEF Inv, CTypeOK, Known
  <2>4. CASE <<e, c>> # <<d, b>>
    <3>1. work'[<<e, c>>] = work[<<e, c>>]
      BY <1>0, <2>4
    <3> QED
      BY <1>0, <2>1, <2>2, <2>3, <3>1 DEF Known, Stored, Lists, Fetching
  <2>5. CASE <<e, c>> = <<d, b>>
    <3>1. e = d /\ c = b
      BY <2>5
    <3> QED
      BY <1>0, <2>1, <2>2, <2>3, <3>1 DEF Known, Stored, Lists, Fetching, StageOK
  <2> QED
    BY <2>4, <2>5
<1>7. NothingOrphaned' /\ HolderThere'
  BY <1>0 DEF Inv, CTypeOK, NothingOrphaned, HolderThere, Stored
<1> QED
  BY <1>1, <1>2, <1>3, <1>4, <1>5, <1>6, <1>7 DEF Inv

(* A read by a goroutine is right about a build that is not late.          *)
LEMMA ReadIsRight ==
    ASSUME Inv, NEW d \in Deletes, NEW b \in Builds, phase[d] # "idle", b \notin late[d],
           NEW c \in Reads(b)
    PROVE  c = build[b]
BY DEF Inv, UpToDate, Known, Reads

LEMMA PartFetchKeeps ==
    ASSUME Inv, NEW d \in Deletes, NEW b \in Builds, PartFetch(<<d, b>>)
    PROVE  Inv'
<1> USE WorkerIsPair
<1>1. /\ work[<<d, b>>] = "fetch" /\ phase[d] \in Fetching /\ phase[d] # "idle"
      /\ UNCHANGED <<vars, object, late>>
  BY DEF PartFetch, Inv, CTypeOK, Fetching
<1>2. PICK c \in Reads(b) :
        Progress(<<d, b>>, IF c \in Contents /\ Lists(c, item[d]) THEN "kept" ELSE "skipped")
  BY DEF PartFetch
<1>3. UNCHANGED <<build, pc, target>>
  BY <1>1 DEF vars
<1>4. Roles' /\ \A w \in Workers : pc'[w] # "idle" => work'[w] = "repo"
  BY <1>1, <1>2, <1>3 DEF Inv, CTypeOK, Roles, Progress
<1>5. c \in Contents /\ Lists(c, item[d]) => StageOK(d, b, "kept")
  BY <1>1, ReadIsRight DEF StageOK
<1>6. ~(c \in Contents /\ Lists(c, item[d])) => StageOK(d, b, "skipped")
  BY <1>1, ReadIsRight DEF StageOK, Stored
<1> QED
  BY <1>1, <1>2, <1>3, <1>4, <1>5, <1>6, ProgressKeeps DEF Stages, Fetched, Stored

LEMMA BuildGetKeeps ==
    ASSUME Inv, NEW d \in Deletes, NEW b \in Builds, BuildGet(<<d, b>>)
    PROVE  Inv'
<1> USE WorkerIsPair
<1>1. /\ work[<<d, b>>] = "get" /\ phase[d] = "wait"
      /\ UNCHANGED <<vars, object, late>>
  BY DEF BuildGet, Inv, CTypeOK
<1>2. PICK c \in Reads(b) : Progress(<<d, b>>, IF c \in Contents THEN "images" ELSE "absent")
  BY DEF BuildGet
<1>3. UNCHANGED <<build, pc, target>>
  BY <1>1 DEF vars
<1>4. Roles' /\ \A w \in Workers : pc'[w] # "idle" => work'[w] = "repo"
  BY <1>1, <1>2, <1>3 DEF Inv, CTypeOK, Roles, Progress
<1>5. c \in Contents => StageOK(d, b, "images")
  BY <1>1 DEF StageOK
<1>6. c \notin Contents => StageOK(d, b, "absent")
  BY <1>1, ReadIsRight DEF StageOK, Stored
<1> QED
  BY <1>1, <1>2, <1>3, <1>4, <1>5, <1>6, ProgressKeeps DEF Stages, Ended, Stored

LEMMA BuildImagesKeeps ==
    ASSUME Inv, NEW d \in Deletes, NEW b \in Builds, BuildImages(<<d, b>>)
    PROVE  Inv'
<1> USE WorkerIsPair
<1>1. /\ work[<<d, b>>] = "images" /\ phase[d] = "wait"
      /\ Progress(<<d, b>>, "repo") /\ object' = object \ {b} /\ UNCHANGED late
      /\ Delete(<<d, b>>, b)
  BY DEF BuildImages, Inv, CTypeOK
<1>2. [Next]_vars
  BY <1>1 DEF Next, Request
<1>3. /\ UNCHANGED build
      /\ pc' = [pc EXCEPT ![<<d, b>>] = "deleteGet"]
      /\ target' = [target EXCEPT ![<<d, b>>] = b]
  BY <1>1 DEF Delete, Receive
<1>4. Roles' /\ \A w \in Workers : pc'[w] # "idle" => work'[w] = "repo"
  BY <1>1, <1>3, Processes DEF Inv, CTypeOK, TypeOK, Roles, Progress
<1>5. StageOK(d, b, "repo")
  BY <1>1 DEF StageOK
<1> QED
  BY <1>1, <1>2, <1>3, <1>4, <1>5, ProgressKeeps DEF Stages, Stored

LEMMA BuildCallFailsKeeps ==
    ASSUME Inv, NEW d \in Deletes, NEW b \in Builds, BuildCallFails(<<d, b>>)
    PROVE  Inv'
<1> USE WorkerIsPair
<1>1. /\ work[<<d, b>>] \in {"fetch", "get", "images"} /\ Progress(<<d, b>>, "failed")
      /\ UNCHANGED <<vars, object, late>>
  BY DEF BuildCallFails
<1>2. UNCHANGED <<build, pc, target>>
  BY <1>1 DEF vars
<1>3. Roles' /\ \A w \in Workers : pc'[w] # "idle" => work'[w] = "repo"
  <2>1. Roles'
    BY <1>2 DEF Inv, Roles
  <2>2. pc[<<d, b>>] = "idle"
    BY <1>1 DEF Inv, CTypeOK
  <2>3. \A w \in Workers : w # <<d, b>> => work'[w] = work[w]
    BY <1>1 DEF Inv, CTypeOK, Progress
  <2> QED
    BY <1>2, <2>1, <2>2, <2>3 DEF Inv, CTypeOK
<1>4. StageOK(d, b, "failed")
  BY DEF StageOK
<1>5. "failed" \in Stages \ {"none"}
  BY DEF Stages, Ended
<1>6. object' \subseteq object /\ \A c \in Builds : c \in object' /\ Stored(c) => Stored(c)'
  BY <1>1, <1>2 DEF Stored
<1>7. [Next]_vars /\ UNCHANGED <<build, late>>
  BY <1>1, <1>2
<1>8. work[<<d, b>>] \in {"fetch", "get", "images", "repo"}
  BY <1>1
<1> QED
  BY <1>1, <1>3, <1>4, <1>5, <1>6, <1>7, <1>8, ProgressKeeps

(* The repository's Delete, called by a goroutine.                         *)
DeleteCall(w) ==
    DeleteGet(w) \/ DeleteCommit(w) \/ DeleteCancel(w) \/ DeleteReject(w) \/ GiveUp(w) \/ Fail(w)

LEMMA DeleteCallFacts ==
    ASSUME Inv, NEW d \in Deletes, NEW b \in Builds, DeleteCall(<<d, b>>)
    PROVE  /\ work[<<d, b>>] = "repo" /\ phase[d] = "wait" /\ target[<<d, b>>] = b
           /\ b \notin object
           /\ \A w \in Workers : w # <<d, b>> => pc'[w] = pc[w]
           /\ Roles' /\ [Next]_vars
<1> USE WorkerIsPair
<1>1. pc[<<d, b>>] # "idle"
  BY DEF DeleteCall, DeleteGet, DeleteCommit, DeleteCancel, DeleteReject, GiveUp, Fail
<1>2. work[<<d, b>>] = "repo" /\ phase[d] = "wait" /\ target[<<d, b>>] = b /\ b \notin object
  BY <1>1 DEF Inv, CTypeOK, Roles, ImagesFirst
<1>3. Step(<<d, b>>) \/ Fail(<<d, b>>)
  BY DEF DeleteCall, Step
<1>4. [Next]_vars
  BY <1>3 DEF Next
<1>5. /\ \A p \in Procs \ {<<d, b>>} : pc'[p] = pc[p] /\ target'[p] = target[p]
      /\ pc'[<<d, b>>] \in {"idle", "deleteGet", "deleteTx"}
      /\ pc'[<<d, b>>] # "idle" => target'[<<d, b>>] = b
  <2>1. Return(<<d, b>>) \/ \E call \in {"deleteGet", "deleteTx"} : Goto(<<d, b>>, call)
    BY DEF DeleteCall, DeleteGet, Attempt, DeleteCommit, DeleteCancel, DeleteReject, GiveUp,
       Fail, Forget
  <2>2. CASE Return(<<d, b>>)
    BY <2>2 DEF Inv, CTypeOK, TypeOK, Return
  <2>3. ASSUME NEW call \in {"deleteGet", "deleteTx"}, Goto(<<d, b>>, call)
        PROVE  <1>5
    BY <1>2, <2>3 DEF Inv, CTypeOK, TypeOK, Goto
  <2> QED
    BY <2>1, <2>2, <2>3
<1>6. Roles'
  BY <1>5, Processes DEF Inv, Roles
<1> QED
  BY <1>2, <1>4, <1>5, <1>6

LEMMA BuildRecordDeletedKeeps ==
    ASSUME Inv, NEW d \in Deletes, NEW b \in Builds, BuildRecordDeleted(<<d, b>>)
    PROVE  Inv'
<1> USE WorkerIsPair
<1>1. DeleteCommit(<<d, b>>) /\ DeleteCall(<<d, b>>) /\ Outdate /\ UNCHANGED object
  BY DEF BuildRecordDeleted, DeleteCall
<1>2. PICK stage \in {"deleted", "failed"} : Progress(<<d, b>>, stage)
  BY DEF BuildRecordDeleted
<1>3. build' = [build EXCEPT ![b] = Gone] /\ pc'[<<d, b>>] = "idle"
  BY <1>1, DeleteCallFacts DEF DeleteCommit, WriteDelete, Return, Inv, CTypeOK, TypeOK
<1>4. \A w \in Workers : pc'[w] # "idle" => work'[w] = "repo"
  <2>1. \A w \in Workers : w # <<d, b>> => work'[w] = work[w] /\ pc'[w] = pc[w]
    BY <1>1, <1>2, DeleteCallFacts DEF Inv, CTypeOK, Progress
  <2> QED
    BY <1>3, <2>1 DEF Inv, CTypeOK
<1>5. StageOK(d, b, stage)
  BY <1>1, <1>3, DeleteCallFacts DEF StageOK, Inv, CTypeOK, TypeOK, TablesOK
<1>6. \A c \in Builds : c \in object' /\ Stored(c) => Stored(c)'
  BY <1>1, <1>3, DeleteCallFacts DEF Inv, CTypeOK, TypeOK, TablesOK, Stored
<1>7. stage \in Stages \ {"none"}
  BY DEF Stages, Ended
<1> QED
  BY <1>1, <1>2, <1>4, <1>5, <1>6, <1>7, DeleteCallFacts, ProgressKeeps

LEMMA BuildRecordAbsentKeeps ==
    ASSUME Inv, NEW d \in Deletes, NEW b \in Builds, BuildRecordAbsent(<<d, b>>)
    PROVE  Inv'
<1> USE WorkerIsPair
<1>1. /\ DeleteGet(<<d, b>>) /\ DeleteCall(<<d, b>>)
      /\ pc'[<<d, b>>] = "idle" /\ Progress(<<d, b>>, "absent") /\ UNCHANGED <<object, late>>
  BY DEF BuildRecordAbsent, DeleteCall
<1>2. UNCHANGED build
  BY <1>1 DEF DeleteGet, tables
<1>3. PICK c \in Reads(b) : c \notin Contents
  <2>1. ASSUME NEW c \in Reads(b), Attempt(<<d, b>>, c, "deleteTx")
        PROVE  FALSE
    BY <1>1, <2>1 DEF Attempt, Goto, Inv, CTypeOK, TypeOK
  <2> QED
    BY <1>1, <2>1, DeleteCallFacts DEF DeleteGet
<1>4. StageOK(d, b, "absent")
  BY <1>3, DeleteCallFacts, ReadIsRight, <1>1 DEF StageOK, Stored
<1>5. \A w \in Workers : pc'[w] # "idle" => work'[w] = "repo"
  <2>1. \A w \in Workers : w # <<d, b>> => work'[w] = work[w] /\ pc'[w] = pc[w]
    BY <1>1, DeleteCallFacts DEF Inv, CTypeOK, Progress
  <2> QED
    BY <1>1, <2>1 DEF Inv, CTypeOK
<1>6. \A e \in Builds : e \in object' /\ Stored(e) => Stored(e)'
  BY <1>2 DEF Stored
<1>7. "absent" \in Stages \ {"none"}
  BY DEF Stages, Ended
<1> QED
  BY <1>1, <1>2, <1>4, <1>5, <1>6, <1>7, DeleteCallFacts, ProgressKeeps

LEMMA BuildRecordFailedKeeps ==
    ASSUME Inv, NEW d \in Deletes, NEW b \in Builds, BuildRecordFailed(<<d, b>>)
    PROVE  Inv'
<1> USE WorkerIsPair
<1>1. /\ DeleteCall(<<d, b>>) /\ Return(<<d, b>>) /\ UNCHANGED tables
      /\ Progress(<<d, b>>, "failed") /\ UNCHANGED <<object, late>>
  BY DEF BuildRecordFailed, DeleteCall, GiveUp, DeleteReject, Fail
<1>2. UNCHANGED build /\ pc'[<<d, b>>] = "idle"
  BY <1>1 DEF tables, Return, Inv, CTypeOK, TypeOK
<1>3. StageOK(d, b, "failed")
  BY DEF StageOK
<1>4. \A w \in Workers : pc'[w] # "idle" => work'[w] = "repo"
  <2>1. \A w \in Workers : w # <<d, b>> => work'[w] = work[w] /\ pc'[w] = pc[w]
    BY <1>1, <1>2, DeleteCallFacts DEF Inv, CTypeOK, Progress
  <2> QED
    BY <1>2, <2>1 DEF Inv, CTypeOK
<1>5. \A e \in Builds : e \in object' /\ Stored(e) => Stored(e)'
  BY <1>2 DEF Stored
<1>6. "failed" \in Stages \ {"none"}
  BY DEF Stages, Ended
<1> QED
  BY <1>1, <1>2, <1>3, <1>4, <1>5, <1>6, DeleteCallFacts, ProgressKeeps

LEMMA BuildRecordRetriedKeeps ==
    ASSUME Inv, NEW d \in Deletes, NEW b \in Builds, BuildRecordRetried(<<d, b>>)
    PROVE  Inv'
<1> USE WorkerIsPair
<1>1. DeleteCall(<<d, b>>) /\ UNCHANGED <<records, index, phase, item, found, work, late, beyond>>
  BY DEF BuildRecordRetried, DeleteCall, deletes
<1>2. UNCHANGED build
  BY DEF BuildRecordRetried, DeleteGet, DeleteCancel, tables
<1>3. \A w \in Workers : pc'[w] # "idle" => pc[w] # "idle"
  <2>1. pc[<<d, b>>] # "idle"
    BY <1>1 DEF DeleteCall, DeleteGet, DeleteCommit, DeleteCancel, DeleteReject, GiveUp, Fail
  <2> QED
    BY <1>1, <2>1, DeleteCallFacts
<1> QED
  BY <1>1, <1>2, <1>3, DeleteCallFacts, RequestKeeps DEF Inv, CTypeOK, Stored

LEMMA WorkerKeeps ==
    ASSUME Inv, WorkerNext
    PROVE  Inv'
BY WorkerIsPair, PartFetchKeeps, BuildGetKeeps, BuildImagesKeeps, BuildCallFailsKeeps,
   BuildRecordDeletedKeeps, BuildRecordAbsentKeeps, BuildRecordRetriedKeeps,
   BuildRecordFailedKeeps DEF WorkerNext

-----------------------------------------------------------------------------
(* The deletes *)

(* A delete makes no call on the repository itself.                        *)
LEMMA OwnStepKeeps ==
    ASSUME Inv, UNCHANGED vars
    PROVE  /\ TypeOK' /\ RequestInv' /\ Roles'
           /\ UNCHANGED <<build, replica, pc>>
           /\ \A b \in Builds : Stored(b)' = Stored(b)
<1>1. TypeOK' /\ RequestInv'
  BY TypeInductive DEF Inv, CTypeOK
<1> QED
  BY <1>1 DEF Inv, Roles, vars, Stored

(* A delete that ends leaves nothing behind, its goroutines having ended.  *)
LEMMA FinishKeeps ==
    ASSUME Inv, NEW d \in Deletes, UNCHANGED <<vars, unborn, shown, object, index>>, Finish(d),
           \A b \in Builds : work[<<d, b>>] # "repo",
           HolderThere', live' \subseteq live, object \cap live \subseteq live' \cup {b \in Builds : Stored(b)}
    PROVE  Inv'
<1> USE WorkerIsPair
<1>1. /\ phase'[d] = "idle" /\ found'[d] = {}
      /\ \A b \in Builds : work'[<<d, b>>] = "none"
      /\ \A e \in Deletes \ {d} :
            /\ phase'[e] = phase[e] /\ item'[e] = item[e] /\ found'[e] = found[e]
            /\ late'[e] = late[e] /\ beyond'[e] = beyond[e]
            /\ \A b \in Builds : work'[<<e, b>>] = work[<<e, b>>]
  BY DEF Finish, Inv, CTypeOK
<1>2. CTypeOK'
  <2>1. /\ phase' \in [Deletes -> Phases] /\ item' \in [Deletes -> Items \cup Parts \cup {NoItem}]
        /\ found' \in [Deletes -> SUBSET Builds] /\ late' \in [Deletes -> SUBSET Builds]
        /\ beyond' \in [Deletes -> SUBSET Builds]
    BY DEF Finish, Inv, CTypeOK, Phases
  <2>2. work' \in [Workers -> Stages]
    BY DEF Finish, Inv, CTypeOK, Stages, Fetched
  <2>3. ASSUME NEW e \in Deletes, NEW b \in Builds
        PROVE  /\ work'[<<e, b>>] \in {"get", "images", "repo"} => phase'[e] = "wait"
               /\ work'[<<e, b>>] \in {"fetch", "kept", "skipped"} => phase'[e] \in Fetching
               /\ pc[<<e, b>>] # "idle" => work'[<<e, b>>] = "repo"
               /\ work'[<<e, b>>] # "none" => b \in found'[e]
    <3>1. CASE e = d
      BY <1>1, <3>1 DEF Inv, CTypeOK
    <3>2. CASE e # d
      BY <1>1, <3>2 DEF Inv, CTypeOK
    <3> QED
      BY <3>1, <3>2
  <2>4. /\ unborn' \subseteq Items \cup Parts /\ live' \subseteq (Items \cup Parts) \ unborn'
        /\ shown' \subseteq Items /\ object' \subseteq Items \cup Builds
        /\ index' \in [Builds -> SUBSET Refs]
    BY DEF Inv, CTypeOK
  <2> QED
    BY <2>1, <2>2, <2>3, <2>4, OwnStepKeeps DEF CTypeOK
<1>3. Answer'
  <2> SUFFICES ASSUME NEW e \in Deletes, NEW b \in Builds
               PROVE  /\ b \in found'[e] <=> work'[<<e, b>>] # "none"
                      /\ phase'[e] = "idle" => b \notin found'[e]
                      /\ phase'[e] \notin Fetching \cup {"idle", "wait"}
                          => work'[<<e, b>>] \in {"none", "deleted", "absent"}
    BY DEF Answer, Fetching
  <2>1. CASE e = d
    BY <1>1, <2>1 DEF Inv, Answer
  <2>2. CASE e # d
    BY <1>1, <2>2 DEF Inv, Answer
  <2> QED
    BY <2>1, <2>2
<1>4. Targets'
  BY <1>1 DEF Inv, Targets, Fetching
<1>5. ImagesFirst'
  BY <1>1, OwnStepKeeps DEF Inv, ImagesFirst
<1>6. UpToDate'
  <2> SUFFICES ASSUME NEW e \in Deletes, NEW b \in Builds, phase'[e] # "idle", b \notin late'[e]
               PROVE  Known(e, b)'
    BY DEF UpToDate
  <2>1. e # d
    BY <1>1
  <2>2. Known(e, b)
    BY <1>1, <2>1 DEF Inv, UpToDate
  <2> QED
    BY <1>1, <2>1, <2>2, OwnStepKeeps DEF Known, Lists, Fetching
<1>7. NothingOrphaned'
  BY OwnStepKeeps DEF Inv, NothingOrphaned
<1> QED
  BY <1>2, <1>3, <1>4, <1>5, <1>6, <1>7, OwnStepKeeps DEF Inv

(* A delete that goes on to its item, after its goroutines have ended.     *)
LEMMA ContinueKeeps ==
    ASSUME Inv, NEW d \in Deletes, UNCHANGED <<vars, unborn, live, shown, index>>, NEW ph, Continue(d, ph),
           phase[d] \notin Fetching \cup {"idle"},
           \A b \in Builds : work[<<d, b>>] \in {"none", "deleted", "absent"},
           \/ ph = "partDelete" /\ item[d] \in Parts
           \/ ph \in {"itemGet", "itemImages", "itemDelete"} /\ item[d] \in Items,
           object' \subseteq object, object \ object' \subseteq Items,
           ph = "itemDelete" => ({item[d]} \cup Holds[item[d]]) \cap object' = {}
    PROVE  Inv'
<1> USE WorkerIsPair
<1>1. /\ phase'[d] = ph /\ UNCHANGED <<item, found, work, late, beyond>>
      /\ \A e \in Deletes \ {d} : phase'[e] = phase[e]
      /\ ph \notin Fetching \cup {"idle", "wait"}
  BY DEF Continue, Inv, CTypeOK, Fetching
<1>2. CTypeOK'
  <2>1. phase' \in [Deletes -> Phases]
    BY DEF Continue, Inv, CTypeOK, Phases
  <2>2. ASSUME NEW e \in Deletes, NEW b \in Builds
        PROVE  /\ work[<<e, b>>] \in {"get", "images", "repo"} => phase'[e] = "wait"
               /\ work[<<e, b>>] \in {"fetch", "kept", "skipped"} => phase'[e] \in Fetching
    <3>1. CASE e = d
      BY <3>1
    <3>2. CASE e # d
      BY <1>1, <3>2 DEF Inv, CTypeOK
    <3> QED
      BY <3>1, <3>2
  <2> QED
    BY <1>1, <2>1, <2>2, OwnStepKeeps DEF Inv, CTypeOK
<1>3. Answer'
  <2> SUFFICES ASSUME NEW e \in Deletes, NEW b \in Builds
               PROVE  /\ b \in found'[e] <=> work'[<<e, b>>] # "none"
                      /\ phase'[e] = "idle" => b \notin found'[e]
                      /\ phase'[e] \notin Fetching \cup {"idle", "wait"}
                          => work'[<<e, b>>] \in {"none", "deleted", "absent"}
    BY DEF Answer, Fetching
  <2>1. CASE e = d
    BY <1>1, <2>1 DEF Inv, Answer
  <2>2. CASE e # d
    BY <1>1, <2>2 DEF Inv, Answer
  <2> QED
    BY <2>1, <2>2
<1>4. Targets'
  BY <1>1 DEF Inv, Targets, Fetching
<1>5. ImagesFirst'
  BY <1>1, OwnStepKeeps DEF Inv, ImagesFirst
<1>6. UpToDate'
  <2> SUFFICES ASSUME NEW e \in Deletes, NEW b \in Builds, phase'[e] # "idle", b \notin late[e]
               PROVE  Known(e, b)'
    BY <1>1 DEF UpToDate
  <2>1. Known(e, b) /\ (phase'[e] \in Fetching <=> phase[e] \in Fetching)
    BY <1>1 DEF Inv, UpToDate
  <2> QED
    BY <1>1, <2>1, OwnStepKeeps DEF Known, Lists
<1>7. NothingOrphaned' /\ HolderThere'
  BY OwnStepKeeps DEF Inv, NothingOrphaned, HolderThere
<1> QED
  BY <1>2, <1>3, <1>4, <1>5, <1>6, <1>7, OwnStepKeeps DEF Inv

LEMMA HomeIsItem ==
    ASSUME NEW q \in Parts
    PROVE  Home(q) \in Items /\ \A j \in Items : q \in Holds[j] <=> j = Home(q)
<1>1. \E i \in Items : q \in Holds[i]
  BY Ownership
<1>2. Home(q) \in Items /\ q \in Holds[Home(q)]
  BY <1>1 DEF Home
<1> QED
  BY <1>2, Ownership

(* A delete that begins knows what its query and its reads can see.        *)
LEMMA BeginKeeps ==
    ASSUME Inv, NEW d \in Deletes, phase[d] = "idle",
           NEW i, NEW bs \in SUBSET Builds, NEW rest \in SUBSET Builds, NEW ph, NEW stage,
           Begin(d, i, bs, rest, ph), StartWork(d, bs, stage),
           \/ ph = "itemGet" /\ bs = {} /\ i \in Items
           \/ ph = "wait" /\ stage = "get" /\ i \in Items \cup {NoItem}
           \/ ph \in Fetching /\ stage = "fetch" /\ i \in Parts,
           i \in Items => bs \subseteq Referencing(i) /\ Referencing(i) \subseteq bs \cup rest,
           i \in Parts => Referencing(Home(i)) \subseteq bs \cup rest
    PROVE  Inv'
<1> USE WorkerIsPair
<1>0. UNCHANGED <<vars, unborn, live, shown, object, index>>
  BY DEF Begin, records
<1>1. /\ phase'[d] = ph /\ item'[d] = i /\ found'[d] = bs
      /\ late'[d] = {b \in Builds : Lagging(b)} /\ beyond'[d] = rest
      /\ \A e \in Deletes \ {d} : /\ phase'[e] = phase[e] /\ item'[e] = item[e]
                                  /\ found'[e] = found[e] /\ late'[e] = late[e]
                                  /\ beyond'[e] = beyond[e]
  BY DEF Begin, Inv, CTypeOK
<1>2. \A e \in Deletes, b \in Builds :
        work'[<<e, b>>] = IF e = d /\ b \in bs THEN stage ELSE work[<<e, b>>]
  BY DEF StartWork
<1>3. \A b \in Builds : work[<<d, b>>] = "none"
  BY DEF Inv, Answer
<1>4. CTypeOK'
  <2>1. /\ phase' \in [Deletes -> Phases] /\ item' \in [Deletes -> Items \cup Parts \cup {NoItem}]
        /\ found' \in [Deletes -> SUBSET Builds] /\ late' \in [Deletes -> SUBSET Builds]
        /\ beyond' \in [Deletes -> SUBSET Builds]
    BY DEF Begin, Inv, CTypeOK, Phases
  <2>2. work' \in [Workers -> Stages]
    BY DEF StartWork, Inv, CTypeOK, Stages
  <2>3. ASSUME NEW e \in Deletes, NEW b \in Builds
        PROVE  /\ work'[<<e, b>>] \in {"get", "images", "repo"} => phase'[e] = "wait"
               /\ work'[<<e, b>>] \in {"fetch", "kept", "skipped"} => phase'[e] \in Fetching
               /\ pc[<<e, b>>] # "idle" => work'[<<e, b>>] = "repo"
               /\ work'[<<e, b>>] # "none" => b \in found'[e]
    <3>1. CASE e = d
      BY <1>1, <1>2, <1>3, <3>1 DEF Inv, CTypeOK
    <3>2. CASE e # d
      BY <1>1, <1>2, <3>2 DEF Inv, CTypeOK
    <3> QED
      BY <3>1, <3>2
  <2>4. /\ unborn' \subseteq Items \cup Parts /\ live' \subseteq (Items \cup Parts) \ unborn'
        /\ shown' \subseteq Items /\ object' \subseteq Items \cup Builds
        /\ index' \in [Builds -> SUBSET Refs]
    BY <1>0 DEF Inv, CTypeOK
  <2> QED
    BY <1>0, <2>1, <2>2, <2>3, <2>4, OwnStepKeeps DEF CTypeOK
<1>5. Answer'
  <2> SUFFICES ASSUME NEW e \in Deletes, NEW b \in Builds
               PROVE  /\ b \in found'[e] <=> work'[<<e, b>>] # "none"
                      /\ phase'[e] = "idle" => b \notin found'[e]
                      /\ phase'[e] \notin Fetching \cup {"idle", "wait"}
                          => work'[<<e, b>>] \in {"none", "deleted", "absent"}
    BY DEF Answer, Fetching
  <2>1. CASE e = d
    BY <1>1, <1>2, <1>3, <2>1 DEF Fetching
  <2>2. CASE e # d
    BY <1>1, <1>2, <2>2 DEF Inv, Answer
  <2> QED
    BY <2>1, <2>2
<1>6. Targets'
  BY <1>1 DEF Inv, Targets, Fetching
<1>7. ImagesFirst'
  <2>1. \A e \in Deletes :
          phase'[e] = "itemDelete" => ({item'[e]} \cup Holds[item'[e]]) \cap object' = {}
    BY <1>0, <1>1 DEF Inv, ImagesFirst, Fetching
  <2>2. ASSUME NEW e \in Deletes, NEW b \in Builds
        PROVE  /\ work'[<<e, b>>] \in {"repo", "deleted"} => b \notin object'
               /\ work'[<<e, b>>] = "deleted" => build'[b] = Gone
    BY <1>0, <1>2, <1>3, OwnStepKeeps DEF Inv, ImagesFirst, Fetching
  <2> QED
    BY <2>1, <2>2 DEF ImagesFirst
<1>8. UpToDate'
  <2> SUFFICES ASSUME NEW e \in Deletes, NEW b \in Builds, phase'[e] # "idle", b \notin late'[e]
               PROVE  Known(e, b)'
    BY DEF UpToDate
  <2>1. CASE e # d
    <3>1. Known(e, b)
      BY <1>1, <2>1 DEF Inv, UpToDate
    <3>2. UNCHANGED <<work[<<e, b>>], phase[e], item[e], found[e]>>
      BY <1>1, <1>2, <2>1
    <3>3. beyond'[e] = beyond[e]
      BY <1>1, <2>1
    <3> QED
      BY <3>1, <3>2, <3>3, <1>0, OwnStepKeeps DEF Known, Lists
  <2>2. CASE e = d
    <3>1. replica[b] = build[b] /\ index[b] = IF Stored(b) THEN build[b].refs ELSE {}
      BY <1>1, <2>2 DEF Lagging
    <3>2. work'[<<d, b>>] \in {"none", "get", "fetch"}
      BY <1>2, <1>3
    <3>3. Stored(b) /\ i \in Items =>
            /\ b \in bs => Lists(build[b], i)
            /\ Lists(build[b], i) => b \in bs \cup rest
      BY <3>1, Ownership DEF Lists, Referencing
    <3>4. Stored(b) /\ i \in Parts /\ Lists(build[b], Home(i)) => b \in bs \cup rest
      BY <3>1, Ownership, HomeIsItem DEF Lists, Referencing
    <3>5. i \in Parts => ph \in Fetching
      BY Ownership
    <3> QED
      <4>1. /\ item'[d] = i /\ found'[d] = bs /\ phase'[d] = ph /\ beyond'[d] = rest
            /\ build'[b] = build[b] /\ replica'[b] = build[b] /\ Stored(b)' = Stored(b)
        BY <1>0, <1>1, <3>1, OwnStepKeeps
      <4>2. work'[<<d, b>>] \notin {"absent", "kept", "skipped"}
        BY <3>2
      <4> QED
        BY <2>2, <3>3, <3>4, <3>5, <4>1, <4>2 DEF Known
  <2> QED
    BY <2>1, <2>2
<1>9. NothingOrphaned' /\ HolderThere'
  BY <1>0, OwnStepKeeps DEF Inv, NothingOrphaned, HolderThere
<1> QED
  BY <1>0, <1>4, <1>5, <1>6, <1>7, <1>8, <1>9, OwnStepKeeps DEF Inv

(* The delete of a part that goes on to the builds that name it.           *)
LEMMA PartJoinKeeps ==
    ASSUME Inv, NEW d \in Deletes, PartJoin(d)
    PROVE  Inv'
<1> USE WorkerIsPair
<1>0. /\ UNCHANGED <<vars, unborn, live, shown, object, index>> /\ phase[d] \in Fetching
      /\ \A b \in Builds : work[<<d, b>>] \in Fetched
  BY DEF PartJoin, records
<1>1. CASE Finish(d)
  <2>1. \A b \in Builds : work[<<d, b>>] # "repo"
    BY <1>0 DEF Fetched
  <2> QED
    BY <1>0, <1>1, <2>1, FinishKeeps DEF Inv, HolderThere
<1>2. CASE ~Finish(d)
  <2>1. /\ phase' = [phase EXCEPT ![d] = "wait"]
        /\ found' = [found EXCEPT ![d] = Kept(d)]
        /\ work' = [w \in Workers |-> IF w[1] = d
                                        THEN IF w[2] \in Kept(d) THEN "images" ELSE "none"
                                        ELSE work[w]]
        /\ UNCHANGED <<item, late, beyond>> /\ ~AnyFailed(d)
    BY <1>2 DEF PartJoin
  <2>2. /\ phase'[d] = "wait" /\ found'[d] = Kept(d)
        /\ \A b \in Builds : work'[<<d, b>>] = IF b \in Kept(d) THEN "images" ELSE "none"
        /\ \A e \in Deletes \ {d} : /\ phase'[e] = phase[e] /\ found'[e] = found[e]
                                    /\ \A b \in Builds : work'[<<e, b>>] = work[<<e, b>>]
    BY <2>1 DEF Inv, CTypeOK
  <2>3. CTypeOK'
    <3>1. phase' \in [Deletes -> Phases] /\ found' \in [Deletes -> SUBSET Builds]
      BY <2>1 DEF Inv, CTypeOK, Phases, Kept
    <3>2. work' \in [Workers -> Stages]
      BY <2>1 DEF Inv, CTypeOK, Stages, Fetched
    <3>3. ASSUME NEW e \in Deletes, NEW b \in Builds
          PROVE  /\ work'[<<e, b>>] \in {"get", "images", "repo"} => phase'[e] = "wait"
                 /\ work'[<<e, b>>] \in {"fetch", "kept", "skipped"} => phase'[e] \in Fetching
                 /\ pc[<<e, b>>] # "idle" => work'[<<e, b>>] = "repo"
                 /\ work'[<<e, b>>] # "none" => b \in found'[e]
      <4>1. CASE e = d
        BY <1>0, <2>2, <4>1 DEF Inv, CTypeOK, Fetched
      <4>2. CASE e # d
        BY <2>2, <4>2 DEF Inv, CTypeOK
      <4> QED
        BY <4>1, <4>2
    <3>4. /\ item' \in [Deletes -> Items \cup Parts \cup {NoItem}]
          /\ late' \in [Deletes -> SUBSET Builds] /\ beyond' \in [Deletes -> SUBSET Builds]
          /\ unborn' \subseteq Items \cup Parts /\ live' \subseteq (Items \cup Parts) \ unborn'
          /\ shown' \subseteq Items /\ object' \subseteq Items \cup Builds
          /\ index' \in [Builds -> SUBSET Refs]
      BY <1>0, <2>1 DEF Inv, CTypeOK
    <3> QED
      BY <1>0, <3>1, <3>2, <3>3, <3>4, OwnStepKeeps DEF CTypeOK
  <2>4. Answer'
    <3> SUFFICES ASSUME NEW e \in Deletes, NEW b \in Builds
                 PROVE  /\ b \in found'[e] <=> work'[<<e, b>>] # "none"
                        /\ phase'[e] = "idle" => b \notin found'[e]
                        /\ phase'[e] \notin Fetching \cup {"idle", "wait"}
                            => work'[<<e, b>>] \in {"none", "deleted", "absent"}
      BY DEF Answer, Fetching
    <3>1. CASE e = d
      BY <2>2, <3>1
    <3>2. CASE e # d
      BY <2>2, <3>2 DEF Inv, Answer
    <3> QED
      BY <3>1, <3>2
  <2>5. Targets'
    BY <2>1, <2>2 DEF Inv, Targets, Fetching
  <2>6. ImagesFirst'
    <3>1. \A e \in Deletes :
            phase'[e] = "itemDelete" => ({item'[e]} \cup Holds[item'[e]]) \cap object' = {}
      BY <1>0, <2>1, <2>2 DEF Inv, ImagesFirst
    <3>2. ASSUME NEW e \in Deletes, NEW b \in Builds
          PROVE  /\ work'[<<e, b>>] \in {"repo", "deleted"} => b \notin object'
                 /\ work'[<<e, b>>] = "deleted" => build'[b] = Gone
      BY <1>0, <2>2, OwnStepKeeps DEF Inv, ImagesFirst
    <3> QED
      BY <3>1, <3>2 DEF ImagesFirst
  <2>7. UpToDate'
    <3> SUFFICES ASSUME NEW e \in Deletes, NEW b \in Builds, phase'[e] # "idle", b \notin late[e]
                 PROVE  Known(e, b)'
      BY <2>1 DEF UpToDate
    <3>1. Known(e, b)
      BY <1>0, <2>2 DEF Inv, UpToDate, Fetching
    <3>2. CASE e # d
      BY <1>0, <2>1, <2>2, <3>1, <3>2, OwnStepKeeps DEF Known, Lists
    <3>3. CASE e = d
      <4>1. item[d] \in Parts /\ item[d] \notin Items
        BY <1>0, Ownership DEF Inv, Targets
      <4>2. Stored(b) =>
              IF b \in Kept(d) THEN item[d] \in build[b].parts
              ELSE Lists(build[b], Home(item[d])) /\ item[d] \in build[b].parts => b \in beyond[d]
        BY <1>0, <2>1, <3>1, <3>3, <4>1 DEF Known, Kept, AnyFailed, Fetched, Inv, Answer
      <4> QED
        BY <1>0, <2>1, <2>2, <3>1, <3>3, <4>1, <4>2, OwnStepKeeps DEF Known, Fetching
    <3> QED
      BY <3>2, <3>3
  <2>8. NothingOrphaned' /\ HolderThere'
    BY <1>0, OwnStepKeeps DEF Inv, NothingOrphaned, HolderThere
  <2> QED
    BY <1>0, <2>3, <2>4, <2>5, <2>6, <2>7, <2>8, OwnStepKeeps DEF Inv
<1> QED
  BY <1>1, <1>2

LEMMA JoinKeeps ==
    ASSUME Inv, NEW d \in Deletes, Join(d)
    PROVE  Inv'
<1>1. /\ phase[d] = "wait" /\ UNCHANGED <<vars, unborn, live, shown, object, index>>
      /\ \A b \in Builds : work[<<d, b>>] \in Ended
  BY DEF Join, records, AllEnded
<1>2. CASE Finish(d)
  BY <1>1, <1>2, FinishKeeps DEF Ended, Inv, HolderThere
<1>3. CASE ~Finish(d)
  <2>1. Continue(d, Target(d)) /\ item[d] # NoItem /\ ~AnyFailed(d)
    BY <1>3 DEF Join
  <2>2. item[d] \in Items \cup Parts
    BY <2>1 DEF Inv, CTypeOK
  <2>3. \/ Target(d) = "partDelete" /\ item[d] \in Parts
        \/ Target(d) = "itemGet" /\ item[d] \in Items
    BY <2>2 DEF Target
  <2>4. \A b \in Builds : work[<<d, b>>] \in {"none", "deleted", "absent"}
    BY <1>1, <2>1 DEF Ended, AnyFailed
  <2> QED
    BY <1>1, <2>1, <2>3, <2>4, ContinueKeeps DEF Fetching
<1> QED
  BY <1>2, <1>3

(* The delete's own calls on its item or part.                             *)
LEMMA ItemCallKeeps ==
    ASSUME Inv, NEW d \in Deletes,
           \/ PartDelete(d) \/ ItemGet(d) \/ ItemAbsent(d)
           \/ ItemImages(d) \/ ItemDelete(d) \/ ItemCallFails(d)
    PROVE  Inv'
<1>1. /\ phase[d] \in {"itemGet", "itemImages", "itemDelete", "partDelete"}
      /\ UNCHANGED <<vars, unborn, shown, index>>
  BY DEF PartDelete, ItemGet, ItemAbsent, ItemImages, ItemDelete, ItemCallFails, records
<1>2. \A b \in Builds : work[<<d, b>>] \in {"none", "deleted", "absent"}
  BY <1>1 DEF Inv, Answer, Fetching
<1>3. CASE PartDelete(d)
  <2>1. item[d] \in Parts /\ item[d] \notin Items /\ item[d] \notin Builds
    BY <1>3, Ownership DEF PartDelete, Inv, Targets
  <2>2. object \cap live \subseteq live'
    BY <1>3, <2>1 DEF PartDelete, Inv, CTypeOK
  <2>3. live' = live \ {item[d]} /\ UNCHANGED object /\ Finish(d)
    BY <1>3 DEF PartDelete
  <2>4. HolderThere'
    BY <2>1, <2>3, Ownership DEF Inv, HolderThere
  <2> QED
    BY <1>1, <1>2, <2>2, <2>3, <2>4, FinishKeeps
<1>4. CASE ItemGet(d)
  <2>1. /\ UNCHANGED <<live, object>> /\ phase[d] = "itemGet" /\ item[d] \in Items
        /\ Continue(d, "itemImages")
    BY <1>4 DEF ItemGet, records, Inv, Targets
  <2> QED
    BY <1>1, <1>2, <2>1, ContinueKeeps DEF Fetching
<1>5. CASE ItemImages(d)
  <2>1. /\ UNCHANGED live /\ object' = object \ ({item[d]} \cup Holds[item[d]])
        /\ phase[d] = "itemImages" /\ item[d] \in Items /\ Continue(d, "itemDelete")
    BY <1>5 DEF ItemImages, Inv, Targets
  <2>2. object \ object' \subseteq Items
    BY <2>1, Ownership DEF Inv, CTypeOK
  <2> QED
    BY <1>1, <1>2, <2>1, <2>2, ContinueKeeps DEF Fetching
<1>6. CASE ItemDelete(d)
  <2>1. /\ phase[d] = "itemDelete" /\ live' = live \ ({item[d]} \cup Holds[item[d]])
        /\ UNCHANGED object /\ Finish(d) /\ item[d] \in Items
        /\ ({item[d]} \cup Holds[item[d]]) \cap object = {}
    BY <1>6 DEF ItemDelete, Inv, Targets, ImagesFirst
  <2>2. object \cap live \subseteq live'
    BY <2>1
  <2>3. HolderThere'
    <3> SUFFICES ASSUME NEW i \in Items, NEW x \in Holds[i], x \in live'
                 PROVE  i \in live'
      BY DEF HolderThere
    <3>1. i \in live /\ i # item[d]
      BY <2>1 DEF Inv, HolderThere
    <3>2. i \notin Holds[item[d]]
      BY <2>1, Ownership
    <3> QED
      BY <2>1, <3>1, <3>2
  <2> QED
    BY <1>1, <1>2, <2>1, <2>2, <2>3, FinishKeeps
<1>7. CASE ItemAbsent(d) \/ ItemCallFails(d)
  <2>1. UNCHANGED <<live, object>> /\ Finish(d)
    BY <1>7 DEF ItemAbsent, ItemCallFails, records
  <2> QED
    BY <1>1, <1>2, <2>1, FinishKeeps DEF Inv, HolderThere
<1> QED
  BY <1>3, <1>4, <1>5, <1>6, <1>7

(* A query answers with builds of the index, and with no marker left out   *)
(* when the page has none.                                                 *)
LEMMA QueryIsPage ==
    ASSUME NEW i \in Items
    PROVE  /\ \A bs \in QueryAnswers(i) : bs \subseteq Referencing(i)
           /\ Referencing(i) \subseteq Builds
           /\ {} \in QueryAnswers(i) => Referencing(i) = {}
<1>1. \A bs \in QueryAnswers(i) : bs \subseteq Referencing(i)
  BY DEF QueryAnswers, Markers, Referencing
<1>2. ASSUME {} \in QueryAnswers(i)
      PROVE  Referencing(i) = {}
  <2>1. PICK page \in SUBSET Markers(i) :
          /\ {m[1] : m \in page} = {}
          /\ page = Markers(i) \/ Cardinality(page) >= FullPage
    BY <1>2 DEF QueryAnswers
  <2>2. page = {}
    BY <2>1
  <2>3. Cardinality(page) = 0
    BY <2>2, FS_EmptySet
  <2>4. Markers(i) = {}
    BY <2>1, <2>2, <2>3, Pages
  <2>5. ASSUME NEW b \in Builds, NEW r \in Refs, r \in index[b] \cap Owns[i]
        PROVE  FALSE
    <3>1. <<b, r>> \in Markers(i)
      BY <2>5 DEF Markers
    <3> QED
      BY <2>4, <3>1
  <2> QED
    BY <2>5, Ownership DEF Referencing
<1> QED
  BY <1>1, <1>2 DEF Referencing

LEMMA DeleteKeeps ==
    ASSUME Inv, DeleteNext
    PROVE  Inv'
<1>1. ASSUME NEW d \in Deletes, NEW i \in Items, BlockingDelete(d, i)
      PROVE  Inv'
  <2>1. StartWork(d, {}, "get")
    BY <1>1 DEF BlockingDelete, StartWork, Inv, CTypeOK
  <2>2. /\ i \notin Parts /\ Begin(d, i, {}, {}, "itemGet") /\ phase[d] = "idle"
        /\ Referencing(i) = {}
    BY <1>1, Ownership, QueryIsPage DEF BlockingDelete
  <2> QED
    BY <2>1, <2>2, BeginKeeps
<1>2. ASSUME NEW d \in Deletes, NEW i \in Items, CascadingDelete(d, i)
      PROVE  Inv'
  <2>1. PICK bs \in QueryAnswers(i) :
          Begin(d, i, bs, Referencing(i) \ bs, "wait") /\ StartWork(d, bs, "get")
    BY <1>2 DEF CascadingDelete
  <2>2. i \notin Parts /\ bs \subseteq Referencing(i) /\ Referencing(i) \subseteq Builds
    BY Ownership, QueryIsPage
  <2>3. bs \in SUBSET Builds /\ Referencing(i) \ bs \in SUBSET Builds
    BY <2>2
  <2> QED
    BY <1>2, <2>1, <2>2, <2>3, BeginKeeps DEF CascadingDelete
<1>3. ASSUME NEW d \in Deletes, NEW b \in Builds, DeleteBuild(d, b)
      PROVE  Inv'
  <2>1. NoItem \notin Items /\ NoItem \notin Parts
    BY Ownership
  <2> QED
    BY <1>3, <2>1, BeginKeeps DEF DeleteBuild
<1>4. ASSUME NEW d \in Deletes, NEW q \in Parts, PartQuery(d, q)
      PROVE  Inv'
  <2>1. PICK mode \in Fetching, bs \in QueryAnswers(Home(q)) :
          /\ Begin(d, q, bs, Referencing(Home(q)) \ bs, mode)
          /\ StartWork(d, bs, "fetch")
    BY <1>4 DEF PartQuery
  <2>2. /\ q \notin Items /\ bs \subseteq Referencing(Home(q))
        /\ Referencing(Home(q)) \subseteq Builds /\ phase[d] = "idle"
    BY <1>4, Ownership, HomeIsItem, QueryIsPage DEF PartQuery
  <2>3. bs \in SUBSET Builds /\ Referencing(Home(q)) \ bs \in SUBSET Builds
    BY <2>2
  <2> QED
    BY <2>1, <2>2, <2>3, BeginKeeps
<1> QED
  BY <1>1, <1>2, <1>3, <1>4, PartJoinKeeps, JoinKeeps, ItemCallKeeps DEF DeleteNext

-----------------------------------------------------------------------------
(* The items *)

(* An item that is created, or that lagging reads come to see or to miss,  *)
(* is of no delete's answer.                                               *)
LEMMA ItemsKeep ==
    ASSUME Inv, \/ \E x \in Items \cup Parts : ItemCreate(x)
                \/ \E i \in Items : ItemCatchUp(i)
    PROVE  Inv'
<1>1. UNCHANGED <<vars, object, index, phase, item, found, work, late, beyond>>
  BY DEF ItemCreate, ItemCatchUp, deletes
<1>2. /\ unborn' \subseteq Items \cup Parts /\ live' \subseteq (Items \cup Parts) \ unborn'
      /\ shown' \subseteq Items /\ live \subseteq live'
  BY DEF ItemCreate, ItemCatchUp, Inv, CTypeOK
<1>3. HolderThere'
  BY DEF ItemCreate, ItemCatchUp, Inv, HolderThere
<1>4. CTypeOK'
  BY <1>1, <1>2, OwnStepKeeps DEF Inv, CTypeOK
<1>5. Answer' /\ Targets' /\ ImagesFirst'
  BY <1>1, OwnStepKeeps DEF Inv, Answer, Targets, ImagesFirst
<1>6. UpToDate'
  BY <1>1, OwnStepKeeps DEF Inv, UpToDate, Known, Lists
<1>7. NothingOrphaned'
  BY <1>1, <1>2, OwnStepKeeps DEF Inv, NothingOrphaned
<1> QED
  BY <1>1, <1>3, <1>4, <1>5, <1>6, <1>7, OwnStepKeeps DEF Inv

-----------------------------------------------------------------------------
(* The inductive invariant *)

LEMMA CInitial == CInit => Inv
<1> SUFFICES ASSUME CInit
             PROVE  Inv
  OBVIOUS
<1> USE WorkerIsPair
<1>1. TypeOK /\ RequestInv
  <2>1. TablesOK /\ replica \in [Builds -> Contents \cup {Unborn, Gone}]
    BY DEF CInit, TablesOK, Stored, Contents
  <2> QED
    BY <2>1, Attempts DEF CInit, NoRequests, TypeOK, RequestInv
<1>2. CTypeOK
  <2>1. index \in [Builds -> SUBSET Refs]
    BY <1>1 DEF CInit, TypeOK, TablesOK
  <2>2. /\ phase \in [Deletes -> Phases] /\ item \in [Deletes -> Items \cup Parts \cup {NoItem}]
        /\ found \in [Deletes -> SUBSET Builds] /\ late \in [Deletes -> SUBSET Builds]
        /\ beyond \in [Deletes -> SUBSET Builds]
        /\ work \in [Workers -> Stages]
    BY DEF CInit, Phases, Stages, Fetched
  <2>3. \A w \in Workers : work[w] = "none" /\ pc[w] = "idle"
    BY DEF CInit, NoRequests
  <2> QED
    BY <1>1, <2>1, <2>2, <2>3 DEF CInit, CTypeOK
<1>3. Roles
  BY Processes DEF CInit, NoRequests, Roles
<1>4. Answer /\ Targets /\ ImagesFirst /\ UpToDate
  BY DEF CInit, Answer, Targets, ImagesFirst, UpToDate, Fetching
<1>5. NothingOrphaned /\ HolderThere
  BY Ownership DEF CInit, NothingOrphaned, HolderThere
<1> QED
  BY <1>1, <1>2, <1>3, <1>4, <1>5 DEF Inv

LEMMA Inductive == Inv /\ [CNext]_cvars => Inv'
<1>1. ASSUME Inv, UNCHANGED cvars
      PROVE  Inv'
  BY <1>1, OwnStepKeeps DEF cvars, Inv, CTypeOK, Answer, Targets, ImagesFirst, UpToDate, Known,
     Lists, Fetching, NothingOrphaned, HolderThere, records, deletes
<1> QED
  BY <1>1, ClientKeeps, WorkerKeeps, DeleteKeeps, DynamoKeeps, ItemsKeep DEF CNext

THEOREM CInvariant == CSpec => []Inv
BY CInitial, Inductive, PTL DEF CSpec

-----------------------------------------------------------------------------
(* What the runs check *)

(* Every variable keeps its type, and every goroutine is where its delete  *)
(* can wait for it.                                                        *)
THEOREM CTypeCorrect == CSpec => []CTypeOK
<1>1. Inv => CTypeOK
  BY DEF Inv
<1> QED
  BY <1>1, CInvariant, PTL

(* deleteBuildImages and deleteImages come before the records: no object   *)
(* outlives the record that names it, whatever fails half way.             *)
THEOREM NoneOrphaned == CSpec => []NothingOrphaned
<1>1. Inv => NothingOrphaned
  BY DEF Inv
<1> QED
  BY <1>1, CInvariant, PTL

(* The join of the goroutines' errors: a delete that answers with success  *)
(* has removed its item, with what lies in it, and every build that it     *)
(* answers for, but for what a lagging read of the item or a build missed. *)
THEOREM SuccessClean == CSpec => SuccessIsClean
<1> DEFINE Clean(d) ==
      /\ \/ ({item[d]} \cup Holdings(item[d])) \cap (live' \cup object') = {}
         \/ ItemAbsent(d) /\ item[d] \in live \ shown
      /\ \A b \in found[d] :
          \/ work[<<d, b>>] = "absent"
          \/ build'[b] = Gone /\ b \notin object'
<1>1. ASSUME Inv, NEW d \in Deletes, Succeeds(d)
      PROVE  Clean(d)
  <2>1. phase[d] \in {"itemGet", "itemDelete", "partDelete"} /\ UNCHANGED <<build, object>>
    BY <1>1 DEF Succeeds, ItemDelete, ItemAbsent, PartDelete, records, vars
  <2>2. item[d] \in Items \cup Parts /\ item[d] \notin Builds
    BY <1>1, <2>1, Ownership DEF Inv, Targets
  <2>3. ASSUME NEW b \in found[d], work[<<d, b>>] # "absent"
        PROVE  build[b] = Gone /\ b \notin object
    BY <1>1, <2>1, <2>3 DEF Inv, CTypeOK, Answer, ImagesFirst, Fetching
  <2>4. CASE ItemDelete(d)
    <3>1. /\ phase[d] = "itemDelete" /\ live' = live \ ({item[d]} \cup Holds[item[d]])
          /\ Holdings(item[d]) = Holds[item[d]]
      BY <1>1, <2>4 DEF ItemDelete, Inv, Targets, Holdings
    <3>2. ({item[d]} \cup Holds[item[d]]) \cap object = {}
      BY <1>1, <3>1 DEF Inv, ImagesFirst
    <3> QED
      BY <2>1, <2>3, <3>1, <3>2
  <2>5. CASE ItemAbsent(d)
    <3>1. /\ item[d] \in Items /\ Holdings(item[d]) = Holds[item[d]]
          /\ Holds[item[d]] \cap Builds = {} /\ live' = live
      BY <1>1, <2>5, Ownership DEF ItemAbsent, Inv, Targets, Holdings, records
    <3>2. item[d] \in live \ shown \/ item[d] \notin live
      BY <2>5 DEF ItemAbsent, MayMiss
    <3>3. ASSUME item[d] \notin live
          PROVE  ({item[d]} \cup Holds[item[d]]) \cap (live \cup object) = {}
      <4>1. Holds[item[d]] \cap live = {}
        BY <1>1, <3>1, <3>3 DEF Inv, HolderThere
      <4> QED
        BY <1>1, <2>2, <3>1, <3>3, <4>1 DEF Inv, NothingOrphaned
    <3> QED
      BY <2>1, <2>3, <2>5, <3>1, <3>2, <3>3
  <2>6. CASE PartDelete(d)
    <3>1. item[d] \in Parts /\ item[d] \notin Items /\ live' = live \ {item[d]}
      BY <1>1, <2>6, Ownership DEF PartDelete, Inv, Targets
    <3>2. item[d] \notin object /\ Holdings(item[d]) = {}
      BY <1>1, <2>2, <3>1 DEF Inv, CTypeOK, Holdings
    <3> QED
      BY <2>1, <2>3, <3>1, <3>2
  <2> QED
    BY <1>1, <2>4, <2>5, <2>6 DEF Succeeds
<1>2. Inv /\ [CNext]_cvars => [\A d \in Deletes : Succeeds(d) => Clean(d)]_cvars
  BY <1>1
<1> QED
  BY <1>2, CInvariant, PTL DEF CSpec, SuccessIsClean

(* A cascade deletes the builds that name what it deletes, and no other    *)
(* but those that were written behind its reads.                           *)
THEOREM OnlyUsersDeleted == CSpec => DeletesOnlyUsers
<1>1. ASSUME Inv, NEW d \in Deletes, NEW b \in Builds,
             BuildRecordDeleted(<<d, b>>), item[d] # NoItem, Stored(b), b \notin late[d]
      PROVE  Lists(build[b], item[d])
  <2>1. DeleteCall(<<d, b>>)
    BY <1>1 DEF BuildRecordDeleted, DeleteCall
  <2>2. phase[d] = "wait" /\ b \in found[d]
    BY <1>1, <2>1, DeleteCallFacts DEF Inv, Answer
  <2>3. Known(d, b) /\ item[d] \in Items \cup Parts
    BY <1>1, <2>2 DEF Inv, CTypeOK, UpToDate
  <2> QED
    BY <1>1, <2>2, <2>3 DEF Known, Lists, Fetching
<1>2. Inv => [\A d \in Deletes, b \in Builds :
                BuildRecordDeleted(<<d, b>>) /\ item[d] # NoItem /\ Stored(b)
                    => Lists(build[b], item[d]) \/ b \in late[d]]_cvars
  BY <1>1
<1> QED
  BY <1>2, CInvariant, PTL DEF DeletesOnlyUsers

(* A step that takes items or parts away is the end of a delete. *)
LEMMA OnlyDeletesRemove ==
    ASSUME [CNext]_cvars
    PROVE  \/ live \subseteq live'
           \/ \E d \in Deletes : (ItemDelete(d) \/ PartDelete(d)) /\ UNCHANGED vars
<1>1. CASE UNCHANGED cvars
  BY <1>1 DEF cvars, records
<1>2. CASE ClientNext
  BY <1>2 DEF ClientNext, ClientStep, CreateBuild, UpdateBuild, records
<1>3. CASE WorkerNext
  BY <1>3 DEF WorkerNext, PartFetch, BuildGet, BuildImages, BuildCallFails, BuildRecordDeleted,
     BuildRecordAbsent, BuildRecordRetried, BuildRecordFailed, Progress, records
<1>4. CASE DeleteNext
  BY <1>4, DeleteUsesNoTable DEF DeleteNext, BlockingDelete, CascadingDelete, DeleteBuild,
     PartQuery, Begin, PartJoin, Join, ItemGet, ItemAbsent, ItemImages, ItemCallFails, records
<1>5. CASE \E b \in Builds : CatchUp(b) \/ \E r \in Refs : IndexMarker(b, r)
  BY <1>5 DEF CatchUp, IndexMarker, records
<1>6. CASE (\E x \in Items \cup Parts : ItemCreate(x)) \/ \E i \in Items : ItemCatchUp(i)
  BY <1>6 DEF ItemCreate, ItemCatchUp
<1> QED
  BY <1>1, <1>2, <1>3, <1>4, <1>5, <1>6 DEF CNext

(* A content that names nothing of what is deleted stays valid.            *)
LEMMA StaysValid ==
    ASSUME Inv, NEW d \in Deletes, NEW b \in Builds, Stored(b), Valid(build[b]),
           b \notin late[d] \cup beyond[d], b \in found[d] => work[<<d, b>>] = "absent",
           ItemDelete(d) \/ PartDelete(d), UNCHANGED build
    PROVE  Valid(build[b])'
<1> DEFINE c == build[b]
<1>1. /\ phase[d] # "idle" /\ phase[d] \notin Fetching /\ c \in Contents
      /\ c.refs \subseteq Refs /\ c.parts \subseteq Parts
  BY DEF ItemDelete, PartDelete, Fetching, Stored, Contents
<1>2. Known(d, b) /\ b \notin found[d]
  BY <1>1 DEF Inv, UpToDate, Known
<1>3. \A q \in c.parts : q \in live /\ c.refs \cap Owns[Home(q)] # {} /\ Home(q) \in Items
  BY <1>1, HomeIsItem, Ownership DEF Valid, Lists
<1>4. CASE ItemDelete(d)
  <2>1. /\ item[d] \in Items /\ live' = live \ ({item[d]} \cup Holds[item[d]])
        /\ Holds[item[d]] \subseteq Items \cup Parts
    BY <1>4, Ownership DEF ItemDelete, Inv, Targets
  <2>2. c.refs \cap Owns[item[d]] = {}
    BY <1>1, <1>2, <2>1, Ownership DEF Known, Lists
  <2>3. ASSUME NEW r \in c.refs, NEW i \in Items, r \in Owns[i], i \in live
        PROVE  i \in live'
    <3>1. i # item[d]
      BY <2>2, <2>3
    <3>2. i \notin Holds[item[d]]
      BY <2>1, <2>2, <2>3, Ownership
    <3> QED
      BY <2>1, <2>3, <3>1, <3>2
  <2>4. \A r \in c.refs : Resolves(r)'
    BY <2>3 DEF Valid, Resolves
  <2>5. ASSUME NEW q \in c.parts
        PROVE  q \in live' /\ Lists(c, Home(q))
    <3>1. q \notin Holds[item[d]]
      BY <1>1, <1>3, <2>1, <2>2, HomeIsItem
    <3> QED
      BY <1>1, <1>3, <2>1, <3>1, Ownership DEF Lists
  <2> QED
    BY <2>4, <2>5 DEF Valid, Lists
<1>5. CASE PartDelete(d)
  <2>1. item[d] \in Parts /\ item[d] \notin Items /\ live' = live \ {item[d]}
    BY <1>5, Ownership DEF PartDelete, Inv, Targets
  <2>2. item[d] \notin c.parts
    <3>1. ~(Lists(c, Home(item[d])) /\ item[d] \in c.parts)
      BY <1>1, <1>2, <2>1 DEF Known
    <3>2. item[d] \in c.parts => Lists(c, Home(item[d]))
      BY DEF Valid
    <3> QED
      BY <3>1, <3>2
  <2>3. \A r \in c.refs : Resolves(r)'
    BY <2>1 DEF Valid, Resolves
  <2>4. \A q \in c.parts : q \in live' /\ Lists(c, Home(q))
    BY <2>1, <2>2 DEF Valid
  <2> QED
    BY <2>3, <2>4 DEF Valid, Lists
<1> QED
  BY <1>4, <1>5

(* Block and cascade: a reference comes to dangle by a late write of the   *)
(* build, or by a delete that read a version of it that was out of date,   *)
(* or whose query left it behind its first page.                           *)
THEOREM OnlyLateOrMissed == CSpec => OnlyLateOrMissedDangles
<1> DEFINE Missed(d, b) == /\ ItemDelete(d) \/ PartDelete(d)
                           /\ b \notin found[d] \/ work[<<d, b>>] = "absent"
                           /\ b \in late[d] \cup beyond[d]
<1>1. ASSUME Inv, [CNext]_cvars, NEW b \in Builds, ~Dangling(b), Dangling(b)', build'[b] = build[b]
      PROVE  \E d \in Deletes : Missed(d, b)
  <2>1. Stored(b) /\ Valid(build[b]) /\ ~Valid(build[b])'
    BY <1>1 DEF Dangling, Stored
  <2>2. ~(live \subseteq live')
    <3>1. ASSUME live \subseteq live'
          PROVE  Valid(build[b])'
      <4>1. \A r \in build[b].refs : Resolves(r)'
        BY <2>1, <3>1 DEF Valid, Resolves
      <4> QED
        BY <1>1, <2>1, <3>1, <4>1 DEF Valid, Lists
    <3> QED
      BY <2>1, <3>1
  <2>3. PICK d \in Deletes : (ItemDelete(d) \/ PartDelete(d)) /\ UNCHANGED vars
    BY <1>1, <2>2, OnlyDeletesRemove
  <2>4. UNCHANGED build /\ phase[d] \in {"itemDelete", "partDelete"}
    BY <2>3 DEF vars, ItemDelete, PartDelete
  <2>5. b \notin found[d] \/ work[<<d, b>>] = "absent"
    BY <1>1, <2>1, <2>4, Absent DEF Inv, Answer, ImagesFirst, Fetching, Stored
  <2>6. b \in late[d] \cup beyond[d]
    BY <1>1, <2>1, <2>3, <2>4, <2>5, StaysValid
  <2> QED
    BY <2>3, <2>5, <2>6
<1>2. Inv /\ [CNext]_cvars
        => [\A b \in Builds : ~Dangling(b) /\ Dangling(b)' =>
              \/ build'[b] # build[b]
              \/ \E d \in Deletes : Missed(d, b)]_cvars
  BY <1>1
<1> QED
  BY <1>2, CInvariant, PTL DEF CSpec, OnlyLateOrMissedDangles
=============================================================================

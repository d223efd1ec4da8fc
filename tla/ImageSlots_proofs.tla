-------------------------- MODULE ImageSlots_proofs --------------------------
(***************************************************************************)
(* Proofs about ImageSlots, for any uploads, any number of requests, any   *)
(* limit and any cap, with or without lagging reads.                       *)
(***************************************************************************)
EXTENDS ImageSlots, FiniteSetTheorems, TLAPS

-----------------------------------------------------------------------------
(* The inductive invariant, by what it is about.                           *)

(* A request that is about to write has a key of its own. *)
HasKey == \A p \in Procs : pc[p] \in {"deleteOld", "write"} => key[p] \in Keys

(* One that takes names away has deleted the objects it saw under them. *)
SeenIsSwept ==
    \A p \in Procs : pc[p] \in {"write", "clear", "deleteRecord"} => seen[p] \subseteq swept

RequestsOK ==
    /\ pc \in [Procs -> Calls] /\ seen \in [Procs -> SUBSET Keys]
    /\ key \in [Procs -> Keys \cup {NoKey}]
    /\ HasKey /\ SeenIsSwept

RecordOK ==
    /\ kind \in Kinds /\ live \in BOOLEAN /\ status \in [Keys -> Statuses]
    /\ WithinCap /\ VerdictIsItsOwn

StoreOK ==
    /\ replica \in Answers
    /\ object \subseteq Keys /\ url \subseteq Keys /\ uploaded \subseteq Keys /\ swept \subseteq Keys

UploadsOK == count \in 0..Limit /\ today \subseteq Keys /\ LimitHolds

Inv == RequestsOK /\ RecordOK /\ StoreOK /\ UploadsOK

LEMMA InvImplies ==
    Inv => TypeOK /\ LimitHolds /\ WithinCap /\ VerdictIsItsOwn /\ SeenIsSwept
BY DEF Inv, RequestsOK, RecordOK, StoreOK, UploadsOK, TypeOK

-----------------------------------------------------------------------------
(* What a step does to the requests                                        *)

(* p goes on to the call c, with s in sight and k as its key. *)
Moves(p, c, s, k) ==
    /\ pc' = [pc EXCEPT ![p] = c]
    /\ seen' = [seen EXCEPT ![p] = s]
    /\ key' = [key EXCEPT ![p] = k]
    /\ c \in {"deleteOld", "write"} => k \in Keys
    /\ c \in {"write", "clear", "deleteRecord"} => s \subseteq swept'

LEMMA MovesKeep ==
    ASSUME RequestsOK, NEW p \in Procs, NEW c \in Calls, NEW s \in SUBSET Keys,
           NEW k \in Keys \cup {NoKey}, Moves(p, c, s, k), swept \subseteq swept'
    PROVE  RequestsOK'
<1>1. /\ pc' \in [Procs -> Calls] /\ seen' \in [Procs -> SUBSET Keys]
      /\ key' \in [Procs -> Keys \cup {NoKey}]
  BY DEF Moves, RequestsOK
<1>2. /\ pc'[p] = c /\ seen'[p] = s /\ key'[p] = k
      /\ \A q \in Procs \ {p} : pc'[q] = pc[q] /\ seen'[q] = seen[q] /\ key'[q] = key[q]
  BY DEF Moves, RequestsOK
<1>3. HasKey'
  BY <1>2 DEF Moves, RequestsOK, HasKey
<1>4. SeenIsSwept'
  BY <1>2 DEF Moves, RequestsOK, SeenIsSwept
<1> QED
  BY <1>1, <1>3, <1>4 DEF RequestsOK

LEMMA RestKeeps ==
    ASSUME RequestsOK, UNCHANGED request, swept \subseteq swept'
    PROVE  RequestsOK'
BY DEF RequestsOK, request, HasKey, SeenIsSwept

LEMMA ReturnKeeps ==
    ASSUME RequestsOK, NEW p \in Procs, Return(p), swept \subseteq swept'
    PROVE  RequestsOK'
<1>1. Moves(p, "idle", {}, NoKey)
  BY DEF Return, Goto, Moves
<1> QED
  BY <1>1, MovesKeep DEF Calls

-----------------------------------------------------------------------------
(* What a step does to the record                                          *)

(* The five ways in which statuses change. *)
Names(k) == kind \in Single /\ k \in Keys /\ NamesOnly(k)
Adds(k) == /\ kind \in Maps /\ k \in Keys /\ Room /\ status[k] = "none"
           /\ status' = [status EXCEPT ![k] = "pending"]
Judged(k) == /\ k \in uploaded /\ status[k] = "pending"
             /\ \E verdict \in {"approved", "rejected"} : status' = [status EXCEPT ![k] = verdict]

StatusStep ==
    \/ UNCHANGED status
    \/ \E ks \in SUBSET Keys : Unnamed(ks)
    \/ \E k \in Keys : Names(k) \/ Adds(k) \/ Judged(k)

LEMMA NamedFinite ==
    /\ IsFiniteSet(Named) /\ Cardinality(Named) \in Nat
    /\ \A ks \in SUBSET Named : Cardinality(ks) \in Nat /\ Cardinality(ks) <= Cardinality(Named)
<1>1. Named \subseteq Keys
  BY DEF Named
<1>2. IsFiniteSet(Named)
  BY <1>1, FiniteKeys, FS_Subset
<1>3. \A ks \in SUBSET Named : IsFiniteSet(ks) /\ Cardinality(ks) <= Cardinality(Named)
  BY <1>2, FS_Subset
<1> QED
  BY <1>2, <1>3, FS_CardinalityType

(* Fewer names than before are within the cap. *)
LEMMA FewerWithinCap ==
    ASSUME WithinCap, UNCHANGED kind, Named' \subseteq Named
    PROVE  WithinCap'
<1>1. Cardinality(Named') \in Nat /\ Cardinality(Named') <= Cardinality(Named)
  BY NamedFinite
<1>2. Cardinality(Named) \in Nat
  BY NamedFinite
<1> QED
  BY <1>1, <1>2, Bounds DEF WithinCap

LEMMA StatusKeeps ==
    ASSUME RecordOK, StatusStep, UNCHANGED kind, live' \in BOOLEAN, uploaded \subseteq uploaded'
    PROVE  RecordOK'
<1> USE DEF RecordOK, Statuses
<1>1. CASE UNCHANGED status
  <2>1. Named' = Named
    BY <1>1 DEF Named
  <2> QED
    BY <1>1, <2>1 DEF WithinCap, VerdictIsItsOwn
<1>2. ASSUME NEW ks \in SUBSET Keys, Unnamed(ks)
      PROVE  RecordOK'
  <2>1. Named' \subseteq Named
    BY <1>2 DEF Unnamed, Named
  <2>2. WithinCap'
    BY <2>1, FewerWithinCap
  <2>3. status' \in [Keys -> Statuses] /\ VerdictIsItsOwn'
    BY <1>2 DEF Unnamed, VerdictIsItsOwn
  <2> QED
    BY <2>2, <2>3
<1>3. ASSUME NEW k \in Keys, Names(k)
      PROVE  RecordOK'
  <2>1. Named' = {k}
    BY <1>3 DEF Names, NamesOnly, Named
  <2>2. WithinCap'
    BY <1>3, <2>1, FS_Singleton, Bounds DEF WithinCap, Names, Single, Maps
  <2>3. status' \in [Keys -> Statuses] /\ VerdictIsItsOwn'
    BY <1>3 DEF Names, NamesOnly, VerdictIsItsOwn
  <2> QED
    BY <2>2, <2>3
<1>4. ASSUME NEW k \in Keys, Adds(k)
      PROVE  RecordOK'
  <2>1. Named' = Named \cup {k} /\ k \notin Named
    BY <1>4 DEF Adds, Named
  <2>2. Cardinality(Named') = Cardinality(Named) + 1
    BY <2>1, NamedFinite, FS_AddElement
  <2>3. WithinCap'
    BY <1>4, <2>2, NamedFinite, Bounds DEF WithinCap, Adds, Room
  <2>4. status' \in [Keys -> Statuses] /\ VerdictIsItsOwn'
    BY <1>4 DEF Adds, VerdictIsItsOwn
  <2> QED
    BY <2>3, <2>4
<1>5. ASSUME NEW k \in Keys, Judged(k)
      PROVE  RecordOK'
  <2>1. Named' = Named
    BY <1>5 DEF Judged, Named
  <2>2. status' \in [Keys -> Statuses] /\ VerdictIsItsOwn'
    BY <1>5 DEF Judged, VerdictIsItsOwn
  <2> QED
    BY <2>1, <2>2 DEF WithinCap
<1> QED
  BY <1>1, <1>2, <1>3, <1>4, <1>5 DEF StatusStep

-----------------------------------------------------------------------------
(* The steps                                                               *)

(* Arrivals and reads: the request alone goes on, and not to a write. *)
Quiet(p) ==
    /\ UNCHANGED <<kind, record, replica, store, uploads>>
    /\ \E c \in Calls \ {"deleteOld", "write", "clear", "deleteRecord"},
          s \in SUBSET Keys, k \in Keys \cup {NoKey} : Moves(p, c, s, k)

LEMMA ArriveIsQuiet ==
    ASSUME RequestsOK, NEW p \in Procs, NEW k \in Keys \cup {NoKey},
           NEW c \in {"setGet", "reserve", "removeGet", "deleteGet"}, Arrive(p, c, k)
    PROVE  Quiet(p)
<1>1. seen[p] \in SUBSET Keys /\ seen' = [seen EXCEPT ![p] = seen[p]]
  BY DEF Arrive, RequestsOK
<1>2. Moves(p, c, seen[p], k)
  BY <1>1 DEF Arrive, Moves
<1>3. c \in Calls \ {"deleteOld", "write", "clear", "deleteRecord"}
  BY DEF Calls
<1> QED
  BY <1>1, <1>2, <1>3 DEF Arrive, Quiet

LEMMA ReceiveIsQuiet ==
    ASSUME RequestsOK, NEW p \in Procs, Receive(p) \/ ReceiveTool(p)
    PROVE  Quiet(p)
<1> DEFINE Arrives == \E k \in Keys \cup {NoKey} :
               \E c \in {"setGet", "reserve", "removeGet", "deleteGet"} : Arrive(p, c, k)
<1>1. Receive(p) => Arrives
  BY DEF Receive, SetSwitchImage, SetKeycapKitImage, SetProfileImage, AddKeyboardImage,
         AddBuildImage, DeleteSwitchImage, DeleteKeycapKitImage, DeleteProfileImage,
         DeleteKeyboardImage, DeleteBuildImage, DeleteRecord
<1>2. ReceiveTool(p) => Receive(p)
  BY DEF ReceiveTool, Receive, handleSetSwitchImage, handleSetKeycapKitImage,
         handleSetProfileImage, handleAddKeyboardImage, handleAddBuildImage,
         handleDeleteSwitchImage, handleDeleteKeycapKitImage, handleDeleteProfileImage,
         handleDeleteKeyboardImage, handleDeleteBuildImage
<1> QED
  BY <1>1, <1>2, ArriveIsQuiet

LEMMA GetIsQuiet ==
    ASSUME Inv, NEW p \in Procs, SetGet(p) \/ RemoveGet(p) \/ DeleteGet(p)
    PROVE  Quiet(p)
<1>1. PICK c \in {"setGet", "removeGet", "deleteGet"},
           n \in {"reserve", "removeObject", "deleteObjects"} : Get(p, c, n)
  BY DEF SetGet, RemoveGet, DeleteGet
<1>2. PICK r \in Reads :
        LET wanted == IF key[p] = NoKey THEN r.keys ELSE r.keys \cap {key[p]}
        IN  IF ~r.found \/ (c = "removeGet" /\ wanted = {})
            THEN Return(p)
            ELSE /\ Goto(p, n)
                 /\ seen' = [seen EXCEPT ![p] = wanted]
                 /\ UNCHANGED key
  BY <1>1 DEF Get
<1>3. r.keys \subseteq Keys
  BY DEF Reads, Current, Named, Inv, StoreOK, Answers
<1>4. CASE Return(p)
  <2>1. Moves(p, "idle", {}, NoKey)
    BY <1>4 DEF Return, Goto, Moves
  <2> QED
    BY <1>1, <2>1 DEF Get, Quiet, Calls
<1>5. ASSUME NEW s \in SUBSET Keys, Goto(p, n), seen' = [seen EXCEPT ![p] = s], UNCHANGED key
      PROVE  Quiet(p)
  <2>1. key[p] \in Keys \cup {NoKey} /\ key' = [key EXCEPT ![p] = key[p]]
    BY <1>5 DEF Inv, RequestsOK
  <2>2. Moves(p, n, s, key[p])
    BY <1>5, <2>1 DEF Goto, Moves
  <2> QED
    BY <1>1, <2>1, <2>2 DEF Get, Quiet, Calls
<1> QED
  BY <1>2, <1>3, <1>4, <1>5

LEMMA QuietKeeps ==
    ASSUME Inv, NEW p \in Procs, Quiet(p)
    PROVE  Inv' /\ UNCHANGED <<object, status, swept>>
<1>1. RequestsOK'
  BY MovesKeep DEF Inv, Quiet, store
<1>2. RecordOK'
  BY StatusKeeps DEF Inv, Quiet, record, store, StatusStep, RecordOK
<1>3. StoreOK' /\ UploadsOK'
  BY DEF Inv, Quiet, store, uploads, StoreOK, UploadsOK, LimitHolds
<1> QED
  BY <1>1, <1>2, <1>3 DEF Inv, Quiet, store, record

(* A step that leaves the counter and the keys of the day as they are. *)
LEMMA StoreStepKeeps ==
    ASSUME Inv, UNCHANGED <<kind, uploads>>, StatusStep, live' \in BOOLEAN,
           uploaded \subseteq uploaded', RequestsOK', StoreOK'
    PROVE  Inv'
<1>1. RecordOK'
  BY StatusKeeps DEF Inv
<1>2. UploadsOK'
  BY DEF Inv, uploads, UploadsOK, LimitHolds
<1> QED
  BY <1>1, <1>2 DEF Inv

LEMMA ReserveKeeps ==
    ASSUME Inv, NEW p \in Procs, Reserve(p) \/ ReserveRepeated(p)
    PROVE  Inv'
<1> USE Bounds DEF UploadsOK
<1>1. IsFiniteSet(today) /\ Cardinality(today) \in Nat
  BY FiniteKeys, FS_Subset, FS_CardinalityType DEF Inv
<1>2. StoreOK' /\ RecordOK'
  <2>1. UNCHANGED <<kind, record, replica, store>>
    BY DEF Reserve, ReserveRepeated
  <2>2. StoreOK'
    BY <2>1 DEF Inv, StoreOK, store
  <2>3. RecordOK'
    BY <2>1, StatusKeeps DEF Inv, record, store, StatusStep, RecordOK
  <2> QED
    BY <2>2, <2>3
<1>3. count' = count + 1 /\ count' \in 0..Limit
  BY DEF Reserve, ReserveRepeated, Increment, Inv
<1>4. CASE Reserve(p)
  <2>1. PICK k \in Fresh : today' = today \cup {k} /\ key' = [key EXCEPT ![p] = k]
    BY <1>4 DEF Reserve
  <2>2. k \in Keys /\ k \notin today
    BY DEF Fresh
  <2>3. Cardinality(today') = Cardinality(today) + 1
    BY <1>1, <2>1, <2>2, FS_AddElement
  <2>4. UploadsOK'
    BY <1>1, <1>3, <2>1, <2>2, <2>3 DEF Inv, LimitHolds
  <2>5. seen[p] \in SUBSET Keys /\ seen' = [seen EXCEPT ![p] = seen[p]]
    BY <1>4 DEF Reserve, Inv, RequestsOK
  <2>6. PICK c \in {"write", "deleteOld"} :
          pc' = [pc EXCEPT ![p] = c] /\ (c = "write" => seen[p] = {})
    BY <1>4 DEF Reserve, Goto
  <2>7. Moves(p, c, seen[p], k)
    BY <2>1, <2>2, <2>5, <2>6 DEF Moves
  <2>8. RequestsOK'
    BY <1>4, <2>2, <2>5, <2>6, <2>7, MovesKeep DEF Inv, Reserve, store, Calls
  <2> QED
    BY <1>2, <2>4, <2>8 DEF Inv
<1>5. CASE ReserveRepeated(p)
  <2>1. UploadsOK'
    BY <1>1, <1>3, <1>5 DEF ReserveRepeated, Inv, LimitHolds
  <2>2. RequestsOK'
    BY <1>5, RestKeeps DEF ReserveRepeated, Inv, store
  <2> QED
    BY <1>2, <2>1, <2>2 DEF Inv
<1> QED
  BY <1>4, <1>5

LEMMA DeleteKeeps ==
    ASSUME Inv, NEW p \in Procs, DeleteOld(p) \/ RemoveObject(p) \/ DeleteObjects(p)
    PROVE  Inv'
<1>1. PICK c \in {"deleteOld", "removeObject", "deleteObjects"},
           n \in {"write", "clear", "deleteRecord"} :
             DeleteStep(p, c, n) /\ (n = "write" => c = "deleteOld")
  BY DEF DeleteOld, RemoveObject, DeleteObjects
<1>2. seen[p] \in SUBSET Keys /\ seen' = [seen EXCEPT ![p] = seen[p]]
  BY <1>1 DEF DeleteStep, Inv, RequestsOK
<1>3. key[p] \in Keys \cup {NoKey} /\ key' = [key EXCEPT ![p] = key[p]]
  BY <1>1 DEF DeleteStep, Inv, RequestsOK
<1>4. swept' = swept \cup seen[p] /\ pc[p] = c
  BY <1>1 DEF DeleteStep, Delete
<1>5. Moves(p, n, seen[p], key[p])
  BY <1>1, <1>2, <1>3, <1>4 DEF DeleteStep, Goto, Moves, Inv, RequestsOK, HasKey
<1>6. RequestsOK'
  BY <1>2, <1>3, <1>4, <1>5, MovesKeep DEF Inv, Calls
<1>7. StoreOK'
  BY <1>1, <1>2 DEF DeleteStep, Delete, Inv, StoreOK
<1> QED
  BY <1>1, <1>6, <1>7, StoreStepKeeps
     DEF DeleteStep, Delete, record, StatusStep, Inv, RecordOK

LEMMA WriteKeeps ==
    ASSUME Inv, NEW p \in Procs, Write(p)
    PROVE  Inv' /\ StatusStep
<1>1. key[p] \in Keys
  BY DEF Write, Inv, RequestsOK, HasKey
<1>2. StatusStep
  <2>1. Names(key[p]) \/ Adds(key[p])
    BY <1>1 DEF Write, SetImagePath, SetKitImagePath, SetAvatarPath, KeyboardAddImage,
                BuildAddImage, Names, Adds, Single, Maps
  <2> QED
    BY <1>1, <2>1 DEF StatusStep
<1>3. RequestsOK'
  BY ReturnKeeps DEF Inv, Write
<1>4. StoreOK'
  BY <1>1 DEF Write, Inv, StoreOK
<1> QED
  BY <1>2, <1>3, <1>4, StoreStepKeeps DEF Write, Inv, RecordOK

LEMMA ClearKeeps ==
    ASSUME Inv, NEW p \in Procs, Clear(p) \/ RecordDelete(p)
    PROVE  Inv'
<1>1. StatusStep
  <2>1. Unnamed(Keys) \/ Unnamed({key[p]})
    BY DEF Clear, RecordDelete, ClearImagePath, ClearKitImagePath, ClearAvatarPath,
           KeyboardDeleteImage, BuildDeleteImage
  <2>2. CASE key[p] \in Keys
    BY <2>1, <2>2 DEF StatusStep
  <2>3. CASE key[p] = NoKey
    <3>1. Unnamed({NoKey}) => UNCHANGED status
      BY NotAKey DEF Unnamed, Inv, RecordOK
    <3> QED
      BY <2>1, <2>3, <3>1 DEF StatusStep
  <2> QED
    BY <2>2, <2>3 DEF Inv, RequestsOK
<1>2. RequestsOK'
  BY ReturnKeeps DEF Inv, Clear, RecordDelete, store
<1>3. StoreOK'
  BY DEF Clear, RecordDelete, Inv, StoreOK, store
<1>4. live' \in BOOLEAN
  BY DEF Clear, RecordDelete, Inv, RecordOK
<1> QED
  BY <1>1, <1>2, <1>3, <1>4, StoreStepKeeps DEF Clear, RecordDelete, store

LEMMA FailKeeps ==
    ASSUME Inv, NEW p \in Procs, Fail(p)
    PROVE  Inv'
<1>1. StoreOK' /\ uploaded' = uploaded /\ swept \subseteq swept'
  <2>1. CASE UNCHANGED store
    BY <2>1 DEF Fail, Inv, StoreOK, store
  <2>2. CASE \E ks \in SUBSET seen[p] : Delete(ks)
    <3>1. seen[p] \subseteq Keys
      BY DEF Inv, RequestsOK
    <3> QED
      BY <2>2, <3>1 DEF Fail, Delete, Inv, StoreOK
  <2> QED
    BY <2>1, <2>2 DEF Fail
<1>2. RequestsOK'
  BY <1>1, ReturnKeeps DEF Inv, Fail
<1> QED
  BY <1>1, <1>2, StoreStepKeeps DEF Fail, record, StatusStep, Inv, RecordOK

LEMMA OthersKeep ==
    ASSUME Inv, Replicate \/ \E k \in Keys : Upload(k) \/ Decide(k)
    PROVE  Inv' /\ Named' = Named
<1>1. CASE Replicate
  <2>1. Current \in Answers
    BY DEF Current, Answers, Named, Inv, RecordOK
  <2>2. StoreOK' /\ RequestsOK'
    BY <1>1, <2>1, RestKeeps DEF Replicate, Inv, StoreOK, store
  <2> QED
    BY <1>1, <2>2, StoreStepKeeps
       DEF Replicate, record, store, StatusStep, Inv, RecordOK, Named
<1>2. ASSUME NEW k \in Keys, Upload(k)
      PROVE  Inv' /\ Named' = Named
  <2>1. StoreOK' /\ RequestsOK'
    BY <1>2, RestKeeps DEF Upload, Inv, StoreOK
  <2> QED
    BY <1>2, <2>1, StoreStepKeeps DEF Upload, record, StatusStep, Inv, RecordOK, Named
<1>3. ASSUME NEW k \in Keys, Decide(k)
      PROVE  Inv' /\ Named' = Named
  <2>1. Judged(k)
    BY <1>3 DEF Decide, SetImageStatus, SetKitImageStatus, SetAvatarStatus,
                KeyboardSetImageStatus, BuildSetImageStatus, Judge, Judged
  <2>2. StoreOK' /\ RequestsOK'
    BY <1>3, RestKeeps DEF Decide, Inv, StoreOK, store
  <2>3. Inv'
    BY <1>3, <2>1, <2>2, StoreStepKeeps DEF Decide, store, StatusStep, Inv, RecordOK
  <2>4. Named' = Named
    BY <2>1 DEF Judged, Named, Inv, RecordOK
  <2> QED
    BY <2>3, <2>4
<1> QED
  BY <1>1, <1>2, <1>3

-----------------------------------------------------------------------------
(* The invariant                                                           *)

LEMMA InvInitially == Init => Inv
<1> SUFFICES ASSUME Init PROVE Inv
  OBVIOUS
<1> USE DEF Init
<1>1. PICK ks \in SUBSET Keys :
        /\ Cardinality(ks) <= IF kind \in Maps THEN MaxImages ELSE 1
        /\ status = [k \in Keys |-> IF k \in ks THEN "approved" ELSE "none"]
        /\ replica = [found |-> TRUE, keys |-> ks]
        /\ object = ks /\ uploaded = ks
  OBVIOUS
<1>2. Named = ks
  BY <1>1 DEF Named
<1>3. RecordOK
  BY <1>1, <1>2 DEF RecordOK, Statuses, WithinCap, VerdictIsItsOwn
<1>4. RequestsOK
  BY DEF RequestsOK, Calls, HasKey, SeenIsSwept
<1>5. StoreOK
  BY <1>1 DEF StoreOK, Answers
<1>6. UploadsOK
  BY Bounds, FS_EmptySet DEF UploadsOK, LimitHolds
<1> QED
  BY <1>3, <1>4, <1>5, <1>6 DEF Inv

LEMMA InvInductive == Inv /\ [Next]_vars => Inv'
<1> SUFFICES ASSUME Inv, [Next]_vars PROVE Inv'
  OBVIOUS
<1>1. ASSUME NEW p \in Procs, Receive(p) \/ ReceiveTool(p) PROVE Inv'
  BY <1>1, ReceiveIsQuiet, QuietKeeps DEF Inv
<1>2. ASSUME NEW p \in Procs, Step(p) PROVE Inv'
  BY <1>2, GetIsQuiet, QuietKeeps, ReserveKeeps, DeleteKeeps, WriteKeeps, ClearKeeps, FailKeeps
     DEF Step
<1>3. CASE Replicate \/ \E k \in Keys : Upload(k) \/ Decide(k)
  BY <1>3, OthersKeep
<1>4. CASE UNCHANGED vars
  <2>1. RequestsOK' /\ StoreOK'
    BY <1>4, RestKeeps DEF vars, Inv, StoreOK, store
  <2> QED
    BY <1>4, <2>1, StoreStepKeeps DEF vars, record, store, StatusStep, Inv, RecordOK
<1> QED
  BY <1>1, <1>2, <1>3, <1>4 DEF Next

LEMMA Invariant == Spec => []Inv
BY InvInitially, InvInductive, PTL DEF Spec

-----------------------------------------------------------------------------
(* Every variable keeps its type, the counter of the day included.         *)
THEOREM TypeCorrect == Spec => []TypeOK
BY Invariant, InvImplies, PTL

(* UploadCounter.Increment is one conditional ADD before the URL is        *)
(* signed: no more URLs than the limit, for any number of requests.        *)
THEOREM LimitKept == Spec => []LimitHolds
BY Invariant, InvImplies, PTL

(* AddImage of keyboards and builds is conditioned on the size of the map, *)
(* and SetImagePath replaces: the cap holds for any number of requests.    *)
THEOREM Cap == Spec => []WithinCap
BY Invariant, InvImplies, PTL

(* SetImageStatus is conditioned on the path: no image has the verdict on  *)
(* another upload.                                                         *)
THEOREM OwnVerdict == Spec => []VerdictIsItsOwn
BY Invariant, InvImplies, PTL

(* A request deletes what it saw before it writes the record: one that     *)
(* takes the name of an object away had not seen it, or it was swept.      *)
THEOREM OnlyRaces == Spec => OnlyRacesOrphan
<1>1. ASSUME Inv, [Next]_vars, NEW k \in Orphans' \ Orphans, k \in object, k \notin swept
      PROVE  \E p \in Procs : /\ pc[p] \in {"write", "clear", "deleteRecord"}
                              /\ pc'[p] = "idle"
                              /\ k \notin seen[p]
  <2>1. k \in Named /\ k \notin Named'
    BY <1>1 DEF Orphans
  <2>2. status' # status
    BY <2>1 DEF Named
  <2>3. ~(Replicate \/ \E j \in Keys : Upload(j) \/ Decide(j))
    BY <1>1, <2>1, OthersKeep
  <2>4. ~UNCHANGED vars
    BY <2>2 DEF vars, record
  <2>5. \A p \in Procs : ~(Receive(p) \/ ReceiveTool(p))
    BY <1>1, <2>2, ReceiveIsQuiet, QuietKeeps DEF Inv
  <2>6. PICK p \in Procs : Step(p)
    BY <1>1, <2>3, <2>4, <2>5 DEF Next
  <2>7. ~(SetGet(p) \/ RemoveGet(p) \/ DeleteGet(p))
    BY <1>1, <2>2, GetIsQuiet, QuietKeeps
  <2>8. ~(Reserve(p) \/ ReserveRepeated(p) \/ DeleteOld(p) \/ RemoveObject(p)
          \/ DeleteObjects(p) \/ Fail(p))
    BY <2>2 DEF Reserve, ReserveRepeated, DeleteOld, RemoveObject, DeleteObjects,
                DeleteStep, Fail, record
  <2>9. Write(p) \/ Clear(p) \/ RecordDelete(p)
    BY <2>6, <2>7, <2>8 DEF Step
  <2>10. pc[p] \in {"write", "clear", "deleteRecord"} /\ Return(p)
    BY <2>9 DEF Write, Clear, RecordDelete
  <2>11. pc'[p] = "idle"
    BY <1>1, <2>10 DEF Return, Goto, Inv, RequestsOK
  <2>12. k \notin seen[p]
    BY <1>1, <2>10 DEF Inv, RequestsOK, SeenIsSwept
  <2> QED
    BY <2>10, <2>11, <2>12
<1>2. Inv /\ [Next]_vars =>
        [\A k \in Orphans' \ Orphans :
            \/ k \notin object
            \/ k \in swept
            \/ \E p \in Procs :
                /\ pc[p] \in {"write", "clear", "deleteRecord"}
                /\ pc'[p] = "idle"
                /\ k \notin seen[p]]_vars
  BY <1>1
<1> QED
  BY <1>2, Invariant, PTL DEF Spec, OnlyRacesOrphan
=============================================================================

----------------------------- MODULE ImageSlots -----------------------------
(***************************************************************************)
(* The images of one record, and the requests that add, replace and remove *)
(* them.                                                                   *)
(*                                                                         *)
(* A switch, a keycap kit and a profile hold one image; keyboards and      *)
(* builds hold a map of them.  The record names S3 keys; the objects lie   *)
(* in a bucket that no transaction covers.  Every upload has a key of its  *)
(* own.  A request reserves one upload of the day, signs a URL for the     *)
(* key, deletes the object it is going to replace and only then writes the *)
(* record; the client uploads to the URL whenever it likes.  Removing an   *)
(* image, and deleting the record, delete objects first and write the      *)
(* record last.  The moderation function's decision on an upload arrives   *)
(* at any later time.                                                      *)
(*                                                                         *)
(* A request is a process; pc names the call it makes next.                *)
(***************************************************************************)
EXTENDS Naturals, FiniteSets

CONSTANTS
    Kinds,       \* the kinds of record the model starts with
    Keys,        \* S3 keys, one for each upload
    Procs,       \* requests in flight at the same time
    Limit,       \* uploads allowed in the day
    MaxImages,   \* repository.MaxImagesPerItem
    NoKey,       \* a request that has no key
    StaleReads   \* TRUE if GetItem may answer with an outdated record

Single == {"switch", "kit", "profile"}
Maps == {"keyboard", "build"}

ASSUME KindsOK == Kinds \subseteq Single \cup Maps
ASSUME FiniteKeys == IsFiniteSet(Keys)
ASSUME NotAKey == NoKey \notin Keys
ASSUME Bounds == Limit \in Nat /\ MaxImages \in Nat \ {0} /\ StaleReads \in BOOLEAN

VARIABLES
    kind,      \* which kind of record this is
    live,      \* it exists
    status,    \* of each key: "none" if the record does not name it
    replica,   \* what a lagging read may find
    object,    \* the keys that have an object in S3
    url,       \* the keys the client was given an upload URL for
    uploaded,  \* history: the keys ever uploaded
    swept,     \* history: the keys whose object a request deleted
    count,     \* the upload counter of the day
    today,     \* history: the keys reserved on that day
    pc, seen, key   \* of each request: its next call, the keys it read, its own key

record == <<live, status>>
store == <<object, url, uploaded, swept>>
uploads == <<count, today>>
request == <<pc, seen, key>>
vars == <<kind, record, replica, store, uploads, request>>

(* What a read of the record answers. *)
Answers == [found : BOOLEAN, keys : SUBSET Keys]

Statuses == {"none", "pending", "approved", "rejected"}
Calls == {"idle", "setGet", "reserve", "deleteOld", "write",
          "removeGet", "removeObject", "clear",
          "deleteGet", "deleteObjects", "deleteRecord"}

TypeOK ==
    /\ kind \in Kinds
    /\ live \in BOOLEAN
    /\ status \in [Keys -> Statuses]
    /\ replica \in Answers
    /\ object \subseteq Keys /\ url \subseteq Keys
    /\ uploaded \subseteq Keys /\ swept \subseteq Keys /\ today \subseteq Keys
    /\ count \in 0..Limit
    /\ pc \in [Procs -> Calls]
    /\ seen \in [Procs -> SUBSET Keys]
    /\ key \in [Procs -> Keys \cup {NoKey}]

Named == {k \in Keys : status[k] # "none"}
Current == [found |-> live, keys |-> Named]
Reads == {Current} \cup (IF StaleReads THEN {replica} ELSE {})

(* Before the day: a record with images that were all approved. *)
Init ==
    /\ kind \in Kinds
    /\ live = TRUE
    /\ \E ks \in SUBSET Keys :
        /\ Cardinality(ks) <= IF kind \in Maps THEN MaxImages ELSE 1
        /\ status = [k \in Keys |-> IF k \in ks THEN "approved" ELSE "none"]
        /\ replica = [found |-> TRUE, keys |-> ks]
        /\ object = ks /\ uploaded = ks
    /\ url = {} /\ swept = {}
    /\ count = 0 /\ today = {}
    /\ pc = [p \in Procs |-> "idle"]
    /\ seen = [p \in Procs |-> {}]
    /\ key = [p \in Procs |-> NoKey]

-----------------------------------------------------------------------------
(* What the repositories write, each in one conditional UpdateItem *)

NamesOnly(k) == status' = [j \in Keys |-> IF j = k THEN "pending" ELSE "none"]
Unnamed(ks) == status' = [j \in Keys |-> IF j \in ks THEN "none" ELSE status[j]]

SetImagePath(k) == kind = "switch" /\ live /\ NamesOnly(k)
SetKitImagePath(k) == kind = "kit" /\ live /\ NamesOnly(k)
SetAvatarPath(k) == kind = "profile" /\ live /\ NamesOnly(k)

(* Mutation of Room: the map may already hold the maximum. *)
RoomForOneMore == Cardinality(Named) <= MaxImages

(* The condition on the size of the map. *)
Room == Cardinality(Named) < MaxImages

KeyboardAddImage(k) ==
    /\ kind = "keyboard" /\ live /\ status[k] = "none" /\ Room
    /\ status' = [status EXCEPT ![k] = "pending"]

BuildAddImage(k) ==
    /\ kind = "build" /\ live /\ status[k] = "none" /\ Room
    /\ status' = [status EXCEPT ![k] = "pending"]

(* A clear of the path is not conditioned on what the path is. *)
ClearImagePath == kind = "switch" /\ live /\ Unnamed(Keys)
ClearKitImagePath == kind = "kit" /\ live /\ Unnamed(Keys)
ClearAvatarPath == kind = "profile" /\ live /\ Unnamed(Keys)

KeyboardDeleteImage(k) == kind = "keyboard" /\ live /\ Unnamed({k})
BuildDeleteImage(k) == kind = "build" /\ live /\ Unnamed({k})

(* Mutation of Judge: the decision is not tied to the path it is about. *)
JudgeAnyPath(k, verdict) ==
    \E j \in Keys :
        /\ status[j] = "pending"
        /\ status' = [status EXCEPT ![j] = verdict]

(* Conditioned on the path, and on the status still being pending. *)
Judge(k, verdict) ==
    /\ status[k] = "pending"
    /\ status' = [status EXCEPT ![k] = verdict]

SetImageStatus(k, verdict) == kind = "switch" /\ Judge(k, verdict)
SetKitImageStatus(k, verdict) == kind = "kit" /\ Judge(k, verdict)
SetAvatarStatus(k, verdict) == kind = "profile" /\ Judge(k, verdict)
KeyboardSetImageStatus(k, verdict) == kind = "keyboard" /\ Judge(k, verdict)
BuildSetImageStatus(k, verdict) == kind = "build" /\ Judge(k, verdict)

-----------------------------------------------------------------------------
(* Requests arrive *)

Arrive(p, call, k) ==
    /\ pc[p] = "idle"
    /\ pc' = [pc EXCEPT ![p] = call]
    /\ key' = [key EXCEPT ![p] = k]
    /\ UNCHANGED <<kind, record, replica, store, uploads, seen>>

(* A single image is set after reading the one it replaces; an image is    *)
(* added to a map without reading the map.                                 *)
SetSwitchImage(p) == kind = "switch" /\ Arrive(p, "setGet", NoKey)
SetKeycapKitImage(p) == kind = "kit" /\ Arrive(p, "setGet", NoKey)
SetProfileImage(p) == kind = "profile" /\ Arrive(p, "setGet", NoKey)
AddKeyboardImage(p) == kind = "keyboard" /\ Arrive(p, "reserve", NoKey)
AddBuildImage(p) == kind = "build" /\ Arrive(p, "reserve", NoKey)

DeleteSwitchImage(p) == kind = "switch" /\ Arrive(p, "removeGet", NoKey)
DeleteKeycapKitImage(p) == kind = "kit" /\ Arrive(p, "removeGet", NoKey)
DeleteProfileImage(p) == kind = "profile" /\ Arrive(p, "removeGet", NoKey)
DeleteKeyboardImage(p, k) == kind = "keyboard" /\ Arrive(p, "removeGet", k)
DeleteBuildImage(p, k) == kind = "build" /\ Arrive(p, "removeGet", k)

(* The record is deleted, here without the builds that may reference it. A *)
(* profile is deleted with the account.                                    *)
DeleteRecord(p) == kind # "profile" /\ Arrive(p, "deleteGet", NoKey)

(* The MCP tools, which find the owner and check the size of the upload in *)
(* other ways and then make the same calls.                                *)
handleSetSwitchImage(p) == SetSwitchImage(p)
handleSetKeycapKitImage(p) == SetKeycapKitImage(p)
handleSetProfileImage(p) == SetProfileImage(p)
handleAddKeyboardImage(p) == AddKeyboardImage(p)
handleAddBuildImage(p) == AddBuildImage(p)
handleDeleteSwitchImage(p) == DeleteSwitchImage(p)
handleDeleteKeycapKitImage(p) == DeleteKeycapKitImage(p)
handleDeleteProfileImage(p) == DeleteProfileImage(p)
handleDeleteKeyboardImage(p, k) == DeleteKeyboardImage(p, k)
handleDeleteBuildImage(p, k) == DeleteBuildImage(p, k)

-----------------------------------------------------------------------------
(* Steps of a request *)

Goto(p, call) == pc' = [pc EXCEPT ![p] = call]

(* The request answers, and is forgotten. *)
Return(p) ==
    /\ Goto(p, "idle")
    /\ seen' = [seen EXCEPT ![p] = {}]
    /\ key' = [key EXCEPT ![p] = NoKey]

Delete(ks) ==
    /\ object' = object \ ks
    /\ swept' = swept \cup ks
    /\ UNCHANGED <<url, uploaded>>

(* The read of the record, and what the request goes on with. *)
Get(p, call, nextCall) ==
    /\ pc[p] = call
    /\ \E r \in Reads :
        LET wanted == IF key[p] = NoKey THEN r.keys ELSE r.keys \cap {key[p]}
        IN  IF ~r.found \/ (call = "removeGet" /\ wanted = {})
            THEN Return(p)
            ELSE /\ Goto(p, nextCall)
                 /\ seen' = [seen EXCEPT ![p] = wanted]
                 /\ UNCHANGED key
    /\ UNCHANGED <<kind, record, replica, store, uploads>>

SetGet(p) == Get(p, "setGet", "reserve")
RemoveGet(p) == Get(p, "removeGet", "removeObject")
DeleteGet(p) == Get(p, "deleteGet", "deleteObjects")

(* Mutation of Increment: the count may pass the limit by one. *)
IncrementOnce == count <= Limit /\ count' = count + 1

(* UploadCounter.Increment: an ADD, on the condition that there is room. *)
Increment == count < Limit /\ count' = count + 1

(* A fresh UUID is a key that no request has had. *)
Fresh == Keys \ (today \cup uploaded)

(* Mutation of Reserve: a URL is signed though the counter is unavailable. *)
ReserveUncounted(p) ==
    /\ pc[p] = "reserve"
    /\ Increment \/ UNCHANGED count
    /\ \E k \in Fresh :
        /\ today' = today \cup {k}
        /\ key' = [key EXCEPT ![p] = k]
    /\ Goto(p, IF seen[p] = {} THEN "write" ELSE "deleteOld")
    /\ UNCHANGED <<kind, record, replica, store, seen>>

(* Mutation of Reserve: the object to be replaced is not deleted. *)
ReserveKeepingOld(p) ==
    /\ pc[p] = "reserve"
    /\ Increment
    /\ \E k \in Fresh :
        /\ today' = today \cup {k}
        /\ key' = [key EXCEPT ![p] = k]
    /\ Goto(p, "write")
    /\ UNCHANGED <<kind, record, replica, store, seen>>

(* reserveUpload, the key, and the URL, whose signing calls nobody. *)
Reserve(p) ==
    /\ pc[p] = "reserve"
    /\ Increment
    /\ \E k \in Fresh :
        /\ today' = today \cup {k}
        /\ key' = [key EXCEPT ![p] = k]
    /\ Goto(p, IF seen[p] = {} THEN "write" ELSE "deleteOld")
    /\ UNCHANGED <<kind, record, replica, store, seen>>

(* An increment whose response is lost is sent again by the SDK. *)
ReserveRepeated(p) ==
    /\ pc[p] = "reserve"
    /\ Increment
    /\ UNCHANGED <<kind, record, replica, store, today, request>>

DeleteStep(p, call, nextCall) ==
    /\ pc[p] = call
    /\ Delete(seen[p])
    /\ Goto(p, nextCall)
    /\ UNCHANGED <<kind, record, replica, uploads, seen, key>>

DeleteOld(p) == DeleteStep(p, "deleteOld", "write")
RemoveObject(p) == DeleteStep(p, "removeObject", "clear")
DeleteObjects(p) == DeleteStep(p, "deleteObjects", "deleteRecord")

(* The pointer moves and the client has its URL, unless the answer is lost. *)
Write(p) ==
    /\ pc[p] = "write"
    /\ LET k == key[p]
       IN  /\ \/ SetImagePath(k) \/ SetKitImagePath(k) \/ SetAvatarPath(k)
              \/ KeyboardAddImage(k) \/ BuildAddImage(k)
           /\ url' \in {url, url \cup {k}}
    /\ Return(p)
    /\ UNCHANGED <<kind, live, replica, object, uploaded, swept, uploads>>

Clear(p) ==
    /\ pc[p] = "clear"
    /\ \/ ClearImagePath \/ ClearKitImagePath \/ ClearAvatarPath
       \/ KeyboardDeleteImage(key[p]) \/ BuildDeleteImage(key[p])
    /\ Return(p)
    /\ UNCHANGED <<kind, live, replica, store, uploads>>

(* The record goes without a condition. *)
RecordDelete(p) ==
    /\ pc[p] = "deleteRecord"
    /\ live' = FALSE
    /\ Unnamed(Keys)
    /\ Return(p)
    /\ UNCHANGED <<kind, replica, store, uploads>>

(* A call fails, a condition does, or the invocation is killed.  Of several *)
(* objects to delete any may be gone.                                      *)
Fail(p) ==
    /\ pc[p] # "idle"
    /\ \/ UNCHANGED store
       \/ pc[p] \in {"deleteOld", "removeObject", "deleteObjects"}
          /\ \E ks \in SUBSET seen[p] : Delete(ks)
    /\ Return(p)
    /\ UNCHANGED <<kind, record, replica, uploads>>

-----------------------------------------------------------------------------
(* The client, moderation and DynamoDB *)

(* If-None-Match: a URL does not write over an object.  A URL that expires  *)
(* is one the client makes no use of any more.                             *)
Upload(k) ==
    /\ k \in url \ object
    /\ object' = object \cup {k}
    /\ uploaded' = uploaded \cup {k}
    /\ UNCHANGED <<kind, record, replica, url, swept, uploads, request>>

(* The decision on an upload, which may come when all has changed. *)
Decide(k) ==
    /\ k \in uploaded
    /\ \E verdict \in {"approved", "rejected"} :
        \/ SetImageStatus(k, verdict) \/ SetKitImageStatus(k, verdict)
        \/ SetAvatarStatus(k, verdict)
        \/ KeyboardSetImageStatus(k, verdict) \/ BuildSetImageStatus(k, verdict)
    /\ UNCHANGED <<kind, live, replica, store, uploads, request>>

Replicate ==
    /\ replica # Current
    /\ replica' = Current
    /\ UNCHANGED <<kind, record, store, uploads, request>>

Receive(p) ==
    \/ SetSwitchImage(p) \/ SetKeycapKitImage(p) \/ SetProfileImage(p)
    \/ AddKeyboardImage(p) \/ AddBuildImage(p)
    \/ DeleteSwitchImage(p) \/ DeleteKeycapKitImage(p) \/ DeleteProfileImage(p)
    \/ \E k \in Keys : DeleteKeyboardImage(p, k) \/ DeleteBuildImage(p, k)
    \/ DeleteRecord(p)

ReceiveTool(p) ==
    \/ handleSetSwitchImage(p) \/ handleSetKeycapKitImage(p) \/ handleSetProfileImage(p)
    \/ handleAddKeyboardImage(p) \/ handleAddBuildImage(p)
    \/ handleDeleteSwitchImage(p) \/ handleDeleteKeycapKitImage(p)
    \/ handleDeleteProfileImage(p)
    \/ \E k \in Keys : handleDeleteKeyboardImage(p, k) \/ handleDeleteBuildImage(p, k)

Step(p) ==
    \/ SetGet(p) \/ Reserve(p) \/ ReserveRepeated(p) \/ DeleteOld(p) \/ Write(p)
    \/ RemoveGet(p) \/ RemoveObject(p) \/ Clear(p)
    \/ DeleteGet(p) \/ DeleteObjects(p) \/ RecordDelete(p)
    \/ Fail(p)

Next ==
    \/ \E p \in Procs : Receive(p) \/ ReceiveTool(p) \/ Step(p)
    \/ \E k \in Keys : Upload(k) \/ Decide(k)
    \/ Replicate

Spec == Init /\ [][Next]_vars

-----------------------------------------------------------------------------
(* Properties *)

(* However many requests reserve at once, and however often one is sent    *)
(* again, no more URLs are signed in a day than the limit allows: every    *)
(* key of the day is paid for in the counter, and the counter is bounded.  *)
LimitHolds == Cardinality(today) <= count /\ count <= Limit

(* Concurrent adds do not overshoot the cap, and a single image is single. *)
WithinCap == Cardinality(Named) <= IF kind \in Maps THEN MaxImages ELSE 1

(* An image has the verdict on its own upload: one that replaced another   *)
(* while that was being decided does not inherit the decision, and is not  *)
(* shown before somebody has looked at it.                                 *)
VerdictIsItsOwn == \A k \in Keys : status[k] \in {"approved", "rejected"} => k \in uploaded

(* An object no record names. *)
Orphans == object \ Named

(* An object loses its record, or never has one, in three ways only: it is *)
(* uploaded to a URL that outlived the name; it was uploaded again after a *)
(* request had deleted it; or the write that took its name away is of a    *)
(* request that did not see it, being overtaken by another or by its read. *)
(* One request after another, failing at any point, orphans nothing.       *)
OnlyRacesOrphan ==
    [][\A k \in Orphans' \ Orphans :
        \/ k \notin object
        \/ k \in swept
        \/ \E p \in Procs :
            /\ pc[p] \in {"write", "clear", "deleteRecord"}
            /\ pc'[p] = "idle"
            /\ k \notin seen[p]]_vars
=============================================================================

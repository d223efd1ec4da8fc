------------------------------ MODULE ItemParts ------------------------------
(***************************************************************************)
(* The parts that lie in the map of one item: the kits of a keycap set, or *)
(* the plates and PCBs of a keyboard.                                      *)
(*                                                                         *)
(* Every write is one UpdateItem, conditioned on the part being there or   *)
(* not.  A set names one of its kits as its primary kit.  Naming it is     *)
(* part of the write of the kit; taking the name away again is a second    *)
(* write, made after the first, of which nobody hears whether it failed.   *)
(*                                                                         *)
(* The AWS SDK repeats a call the response of which was lost, and a call   *)
(* that has committed can thus be made again.                              *)
(***************************************************************************)
CONSTANTS
    Parts,      \* the ids of kits, plates or PCBs
    Procs,      \* API requests in flight at the same time
    NoPart,     \* no primary kit; the part of a request not in flight
    StaleReads  \* whether a GetItem without ConsistentRead may lag behind

ASSUME NotAPart == NoPart \notin Parts
ASSUME Staleness == StaleReads \in BOOLEAN

VARIABLES
    kind,        \* what the item is: a keycap set or a keyboard
    stored,      \* the item has not been deleted
    parts,       \* the parts in its map
    primary,     \* primary_kit_id
    replica,     \* the parts and the item a lagging read answers from
    created,     \* the part ids that creates have made up
    pc,          \* the DynamoDB call the request makes next
    part,        \* its part
    flag,        \* its "primary": absent, true or false
    designated,  \* history: the kit that the writes so far make the primary
    removed      \* history: the parts that were deleted

item == <<kind, stored, parts, primary, replica, designated, removed>>
locals == <<pc, part, flag>>
vars == <<kind, stored, parts, primary, replica, created, pc, part, flag, designated, removed>>

Flags == {"absent", "true", "false"}
Calls == {"add", "classifyAdd", "update", "get", "delete", "classifyDelete", "clear", "drop"}

Copies == [stored : BOOLEAN, parts : SUBSET Parts]

TypeOK ==
    /\ kind \in {"set", "keyboard"}
    /\ stored \in BOOLEAN
    /\ parts \subseteq created /\ created \subseteq Parts
    /\ primary \in created \cup {NoPart}
    /\ ~stored => parts = {} /\ primary = NoPart
    /\ replica \in Copies
    /\ pc \in [Procs -> Calls \cup {"idle"}]
    /\ part \in [Procs -> created \cup {NoPart}]
    /\ flag \in [Procs -> Flags]
    /\ \A p \in Procs : part[p] = NoPart <=> pc[p] \in {"idle", "drop"}
    /\ kind = "keyboard" => primary = NoPart /\ \A p \in Procs : flag[p] = "absent"
    /\ designated \in created \cup {NoPart}
    /\ removed \subseteq created

(* The repositories' Create stores an empty map, which adding a part needs. *)
Init ==
    /\ kind \in {"set", "keyboard"}
    /\ stored = TRUE
    /\ parts = {}
    /\ primary = NoPart
    /\ replica = [stored |-> TRUE, parts |-> {}]
    /\ created = {}
    /\ pc = [p \in Procs |-> "idle"]
    /\ part = [p \in Procs |-> NoPart]
    /\ flag = [p \in Procs |-> "absent"]
    /\ designated = NoPart
    /\ removed = {}

-----------------------------------------------------------------------------
(* DynamoDB *)

Reads ==
    {[stored |-> stored, parts |-> parts]} \cup (IF StaleReads THEN {replica} ELSE {})

Replicate ==
    /\ replica # [stored |-> stored, parts |-> parts]
    /\ replica' = [stored |-> stored, parts |-> parts]
    /\ UNCHANGED <<kind, stored, parts, primary, created, locals, designated, removed>>

-----------------------------------------------------------------------------
(* Requests *)

Receive(p, k, f, call) ==
    /\ pc[p] = "idle"
    /\ pc' = [pc EXCEPT ![p] = call]
    /\ part' = [part EXCEPT ![p] = k]
    /\ flag' = [flag EXCEPT ![p] = f]
    /\ UNCHANGED item

Goto(p, call) == pc' = [pc EXCEPT ![p] = call] /\ UNCHANGED <<part, flag>>

(* The request ends, whatever it answers. *)
Return(p) ==
    /\ pc' = [pc EXCEPT ![p] = "idle"]
    /\ part' = [part EXCEPT ![p] = NoPart]
    /\ flag' = [flag EXCEPT ![p] = "absent"]

(* The handler makes up an id for every part it adds. *)
Create(p, k, f) ==
    /\ k \notin created
    /\ created' = created \cup {k}
    /\ Receive(p, k, f, "add")

Update(p, k, f) == k \in created /\ Receive(p, k, f, "update") /\ UNCHANGED created

Delete(p, k, call) == k \in created /\ Receive(p, k, "absent", call) /\ UNCHANGED created

(* A primary of false means nothing for a kit that is new. *)
CreateKeycapKit(p, k, f) == kind = "set" /\ f # "false" /\ Create(p, k, f)
UpdateKeycapKit(p, k, f) == kind = "set" /\ Update(p, k, f)

CreateKeyboardPlate(p, k) == kind = "keyboard" /\ Create(p, k, "absent")
CreateKeyboardPCB(p, k) == CreateKeyboardPlate(p, k)
UpdateKeyboardPlate(p, k) == kind = "keyboard" /\ Update(p, k, "absent")
UpdateKeyboardPCB(p, k) == UpdateKeyboardPlate(p, k)

(* Builds that use the part have blocked its delete, or were deleted,      *)
(* before this.  A kit is read for its image first; a plate or PCB has     *)
(* none.                                                                   *)
DeleteKeycapKit(p, k) == kind = "set" /\ Delete(p, k, "get")
DeleteKeyboardPlate(p, k) == kind = "keyboard" /\ Delete(p, k, "delete")
DeleteKeyboardPCB(p, k) == DeleteKeyboardPlate(p, k)

DeleteItem(p) == Receive(p, NoPart, "absent", "drop") /\ UNCHANGED created

(* The MCP tools make the same calls. *)
handleCreateKeycapKit(p, k, f) == CreateKeycapKit(p, k, f)
handleUpdateKeycapKit(p, k, f) == UpdateKeycapKit(p, k, f)
handleDeleteKeycapKit(p, k) == DeleteKeycapKit(p, k)
handleCreateKeyboardPlate(p, k) == CreateKeyboardPlate(p, k)
handleCreateKeyboardPCB(p, k) == CreateKeyboardPCB(p, k)
handleUpdateKeyboardPlate(p, k) == UpdateKeyboardPlate(p, k)
handleUpdateKeyboardPCB(p, k) == UpdateKeyboardPCB(p, k)
handleDeleteKeyboardPlate(p, k) == DeleteKeyboardPlate(p, k)
handleDeleteKeyboardPCB(p, k) == DeleteKeyboardPCB(p, k)

(* A call that committed returns, or its response is lost and it is made   *)
(* again.                                                                  *)
Committed(p, next) ==
    /\ \/ IF next = "idle" THEN Return(p) ELSE Goto(p, next)
       \/ UNCHANGED locals
    /\ UNCHANGED <<kind, stored, replica, created>>

Designate(p) ==
    IF flag[p] = "true"
    THEN primary' = part[p] /\ designated' = part[p]
    ELSE /\ UNCHANGED primary
         /\ designated' = IF flag[p] = "false" /\ designated = part[p]
                          THEN NoPart ELSE designated

(* Mutation of AddCommit: the condition names only the part, so that the   *)
(* write goes to an item that is gone.                                     *)
AddCommitToGone(p) ==
    /\ pc[p] = "add"
    /\ part[p] \notin parts
    /\ parts' = parts \cup {part[p]}
    /\ Designate(p)
    /\ Committed(p, "idle")
    /\ UNCHANGED removed

(* The item is there and the part is not. *)
AddCommit(p) ==
    /\ pc[p] = "add"
    /\ stored /\ part[p] \notin parts
    /\ parts' = parts \cup {part[p]}
    /\ Designate(p)
    /\ Committed(p, "idle")
    /\ UNCHANGED removed

AddConflict(p) ==
    /\ pc[p] = "add"
    /\ ~stored \/ part[p] \in parts
    /\ Goto(p, "classifyAdd")
    /\ UNCHANGED <<item, created>>

AddKit(p) == kind = "set" /\ (AddCommit(p) \/ AddConflict(p))
addPart(p) == kind = "keyboard" /\ (AddCommit(p) \/ AddConflict(p))

(* A consistent read tells a missing item from a duplicate id. *)
classifyAddKitConflict(p) ==
    /\ pc[p] = "classifyAdd"
    /\ Return(p)
    /\ UNCHANGED <<item, created>>

(* Mutation of UpdateCommit: the entry is written on no condition. *)
UpdateCommitAnyway(p) ==
    /\ pc[p] = "update"
    /\ stored
    /\ parts' = parts \cup {part[p]}
    /\ Designate(p)
    /\ Committed(p, IF flag[p] = "false" THEN "clear" ELSE "idle")
    /\ UNCHANGED removed

(* The part is there, and with it its item. *)
UpdateCommit(p) ==
    /\ pc[p] = "update"
    /\ part[p] \in parts
    /\ Designate(p)
    /\ Committed(p, IF flag[p] = "false" THEN "clear" ELSE "idle")
    /\ UNCHANGED <<parts, removed>>

UpdateReject(p) ==
    /\ pc[p] = "update"
    /\ part[p] \notin parts
    /\ Return(p)
    /\ UNCHANGED <<item, created>>

UpdateKit(p) == kind = "set" /\ (UpdateCommit(p) \/ UpdateReject(p))
updatePart(p) == kind = "keyboard" /\ (UpdateCommit(p) \/ UpdateReject(p))

(* A kit that is not there is a success, a set that is not there an error. *)
DeleteGet(p) ==
    /\ pc[p] = "get"
    /\ \E c \in Reads : IF part[p] \in c.parts THEN Goto(p, "delete") ELSE Return(p)
    /\ UNCHANGED <<item, created>>

(* Mutation of DeleteCommit: the set keeps naming the kit. *)
DeleteCommitOnly(p) ==
    /\ pc[p] = "delete"
    /\ part[p] \in parts
    /\ parts' = parts \ {part[p]}
    /\ removed' = removed \cup {part[p]}
    /\ designated' = IF designated = part[p] THEN NoPart ELSE designated
    /\ Committed(p, "idle")
    /\ UNCHANGED primary

(* The part is there.  A kit may be the primary one. *)
DeleteCommit(p) ==
    /\ pc[p] = "delete"
    /\ part[p] \in parts
    /\ parts' = parts \ {part[p]}
    /\ removed' = removed \cup {part[p]}
    /\ designated' = IF designated = part[p] THEN NoPart ELSE designated
    /\ Committed(p, IF kind = "set" THEN "clear" ELSE "idle")
    /\ UNCHANGED primary

DeleteConflict(p) ==
    /\ pc[p] = "delete"
    /\ part[p] \notin parts
    /\ Goto(p, "classifyDelete")
    /\ UNCHANGED <<item, created>>

DeleteKit(p) == kind = "set" /\ (DeleteCommit(p) \/ DeleteConflict(p))
deletePart(p) == kind = "keyboard" /\ (DeleteCommit(p) \/ DeleteConflict(p))

(* A consistent read tells a missing item from a part that is gone. *)
classifyDeleteKitConflict(p) ==
    /\ pc[p] = "classifyDelete"
    /\ Return(p)
    /\ UNCHANGED <<item, created>>

(* Mutation of Clear: REMOVE primary_kit_id, whatever it names. *)
ClearWhatever(p) ==
    /\ pc[p] = "clear"
    /\ primary' = NoPart
    /\ Return(p)
    /\ UNCHANGED <<kind, stored, parts, replica, created, designated, removed>>

(* clearPrimaryIfMatches. *)
Clear(p) ==
    /\ pc[p] = "clear"
    /\ primary' = IF primary = part[p] THEN NoPart ELSE primary
    /\ Return(p)
    /\ UNCHANGED <<kind, stored, parts, replica, created, designated, removed>>

(* The delete of the whole set or keyboard. *)
Drop(p) ==
    /\ pc[p] = "drop"
    /\ stored' = FALSE
    /\ parts' = {}
    /\ primary' = NoPart
    /\ designated' = NoPart
    /\ removed' = removed \cup parts
    /\ Return(p)
    /\ UNCHANGED <<kind, replica, created>>

(* A call fails, or the Lambda is killed before it.  A failed clear is     *)
(* only logged.                                                            *)
Fail(p) ==
    /\ pc[p] # "idle"
    /\ Return(p)
    /\ UNCHANGED <<item, created>>

Request(p) ==
    \/ \E k \in Parts, f \in Flags : CreateKeycapKit(p, k, f) \/ UpdateKeycapKit(p, k, f)
    \/ \E k \in Parts :
        \/ CreateKeyboardPlate(p, k) \/ CreateKeyboardPCB(p, k)
        \/ UpdateKeyboardPlate(p, k) \/ UpdateKeyboardPCB(p, k)
        \/ DeleteKeycapKit(p, k) \/ DeleteKeyboardPlate(p, k) \/ DeleteKeyboardPCB(p, k)
    \/ DeleteItem(p)

Tool(p) ==
    \/ \E k \in Parts, f \in Flags :
        handleCreateKeycapKit(p, k, f) \/ handleUpdateKeycapKit(p, k, f)
    \/ \E k \in Parts :
        \/ handleCreateKeyboardPlate(p, k) \/ handleCreateKeyboardPCB(p, k)
        \/ handleUpdateKeyboardPlate(p, k) \/ handleUpdateKeyboardPCB(p, k)
        \/ handleDeleteKeycapKit(p, k)
        \/ handleDeleteKeyboardPlate(p, k) \/ handleDeleteKeyboardPCB(p, k)

Step(p) ==
    \/ AddKit(p) \/ addPart(p) \/ classifyAddKitConflict(p)
    \/ UpdateKit(p) \/ updatePart(p)
    \/ DeleteGet(p) \/ DeleteKit(p) \/ deletePart(p) \/ classifyDeleteKitConflict(p)
    \/ Clear(p) \/ Drop(p)

Next == Replicate \/ \E p \in Procs : Request(p) \/ Tool(p) \/ Step(p) \/ Fail(p)

Spec == Init /\ [][Next]_vars

-----------------------------------------------------------------------------
(* Properties *)

(* The primary kit is one of the set's, or a request is about to clear it. *)
Sound ==
    \/ primary \in parts \cup {NoPart}
    \/ \E p \in Procs : pc[p] = "clear" /\ part[p] = primary

(* A set is left naming a kit that is gone in two ways only: the clearing  *)
(* write failed, or the response to the delete was lost: its repetition    *)
(* finds no kit, answers with a success, and clears nothing.               *)
OnlyUnclearedDangles ==
    [][Sound /\ ~Sound' =>
        \E p \in Procs :
            \/ pc[p] = "clear" /\ Fail(p)
            \/ DeleteCommit(p) /\ pc'[p] = "delete"]_vars

(* The set names the kit that the writes in the order they committed make  *)
(* its primary, until a clear is due; and a clear takes the name away from *)
(* a kit that a later write has named only when it is late: the request    *)
(* that clears wrote that same kit before.                                 *)
OnlyLateClearUndoes ==
    [][primary = designated /\ primary' # designated' =>
        \E p \in Procs :
            \/ UpdateCommit(p) /\ flag[p] = "false"
            \/ DeleteCommit(p)
            \/ Clear(p) /\ part[p] = designated]_vars

(* A deleted part comes back in one way only: its own add, committed, is   *)
(* repeated after the delete.                                              *)
OnlyRepeatedAddRevives ==
    [][\A k \in removed : k \in parts' \ parts =>
        \E p \in Procs : AddCommit(p) /\ part[p] = k]_vars
=============================================================================

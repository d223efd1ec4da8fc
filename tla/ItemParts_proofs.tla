-------------------------- MODULE ItemParts_proofs --------------------------
(***************************************************************************)
(* Proofs about ItemParts, for any parts and any number of requests, with  *)
(* or without lagging reads.                                               *)
(***************************************************************************)
EXTENDS ItemParts, TLAPS

-----------------------------------------------------------------------------
(* The inductive invariant: the types, and that no request adds a part     *)
(* with a primary of false, which the handlers take for absent.            *)

AddFlags == \A p \in Procs : pc[p] = "add" => flag[p] # "false"
Inv == TypeOK /\ AddFlags

LocalsOK ==
    /\ pc \in [Procs -> Calls \cup {"idle"}]
    /\ part \in [Procs -> created \cup {NoPart}]
    /\ flag \in [Procs -> Flags]
    /\ \A p \in Procs : part[p] = NoPart <=> pc[p] \in {"idle", "drop"}
    /\ kind = "keyboard" => \A p \in Procs : flag[p] = "absent"
    /\ AddFlags

ItemOK ==
    /\ kind \in {"set", "keyboard"}
    /\ stored \in BOOLEAN
    /\ parts \subseteq created /\ created \subseteq Parts
    /\ primary \in created \cup {NoPart}
    /\ ~stored => parts = {} /\ primary = NoPart
    /\ replica \in Copies
    /\ kind = "keyboard" => primary = NoPart
    /\ designated \in created \cup {NoPart}
    /\ removed \subseteq created

LEMMA InvParts == Inv <=> LocalsOK /\ ItemOK
BY DEF Inv, TypeOK, LocalsOK, ItemOK

LEMMA InvPartsNext == Inv' <=> LocalsOK' /\ ItemOK'
BY DEF Inv, TypeOK, LocalsOK, ItemOK, AddFlags

-----------------------------------------------------------------------------
(* What the steps do to the requests                                       *)

(* A step of p leaves it where it is, ends it, or moves it on. *)
Moves(p) ==
    /\ UNCHANGED <<kind, created>>
    /\ \/ UNCHANGED locals
       \/ Return(p)
       \/ /\ pc[p] \notin {"idle", "drop"}
          /\ \E c \in Calls \ {"add", "drop"} : Goto(p, c)

(* A request arrives: to add a new part, or for one that there was. *)
Arrives(p) ==
    /\ UNCHANGED item
    /\ \E k \in Parts \cup {NoPart}, f \in Flags, c \in Calls :
        /\ Receive(p, k, f, c)
        /\ created' = created \/ created' = created \cup {k}
        /\ IF c = "drop" THEN k = NoPart /\ UNCHANGED created ELSE k \in created' \ {NoPart}
        /\ created' \subseteq Parts
        /\ kind = "keyboard" => f = "absent"
        /\ c = "add" => f # "false"

LEMMA RequestArrives ==
    ASSUME Inv, NEW p \in Procs, Request(p) \/ Tool(p)
    PROVE  Arrives(p)
<1> USE NotAPart DEF Flags, Calls, Inv, TypeOK
<1>1. ASSUME NEW k \in Parts, NEW f \in Flags, f # "false", kind = "keyboard" => f = "absent",
             Create(p, k, f)
      PROVE  Arrives(p)
  BY <1>1 DEF Create, Receive, Arrives
<1>2. ASSUME NEW k \in Parts, NEW f \in Flags, kind = "keyboard" => f = "absent",
             Update(p, k, f)
      PROVE  Arrives(p)
  BY <1>2 DEF Update, Receive, Arrives
<1>3. ASSUME NEW k \in Parts, Delete(p, k, "get") \/ Delete(p, k, "delete")
      PROVE  Arrives(p)
  BY <1>3 DEF Delete, Receive, Arrives
<1>4. CASE DeleteItem(p)
  BY <1>4 DEF DeleteItem, Receive, Arrives
<1>5. ASSUME NEW k \in Parts, NEW f \in Flags, CreateKeycapKit(p, k, f)
      PROVE  Arrives(p)
  BY <1>1, <1>5 DEF CreateKeycapKit
<1>6. ASSUME NEW k \in Parts, NEW f \in Flags, UpdateKeycapKit(p, k, f)
      PROVE  Arrives(p)
  BY <1>2, <1>6 DEF UpdateKeycapKit
<1>7. ASSUME NEW k \in Parts, CreateKeyboardPlate(p, k) \/ UpdateKeyboardPlate(p, k)
      PROVE  Arrives(p)
  BY <1>1, <1>2, <1>7 DEF CreateKeyboardPlate, UpdateKeyboardPlate
<1>8. ASSUME NEW k \in Parts, DeleteKeycapKit(p, k) \/ DeleteKeyboardPlate(p, k)
      PROVE  Arrives(p)
  BY <1>3, <1>8 DEF DeleteKeycapKit, DeleteKeyboardPlate
<1> HIDE DEF Flags, Calls, Inv, TypeOK
<1>9. CASE Request(p)
  BY <1>4, <1>5, <1>6, <1>7, <1>8, <1>9
  DEF Request, CreateKeyboardPCB, UpdateKeyboardPCB, DeleteKeyboardPCB
<1>10. CASE Tool(p)
  BY <1>5, <1>6, <1>7, <1>8, <1>10
  DEF Tool, handleCreateKeycapKit, handleUpdateKeycapKit, handleDeleteKeycapKit,
      handleCreateKeyboardPlate, handleUpdateKeyboardPlate, handleDeleteKeyboardPlate,
      handleCreateKeyboardPCB, handleUpdateKeyboardPCB, handleDeleteKeyboardPCB,
      CreateKeyboardPCB, UpdateKeyboardPCB, DeleteKeyboardPCB
<1> QED
  BY <1>9, <1>10

(* The steps that write the item, and those that do not. *)
Writes(p) == AddCommit(p) \/ UpdateCommit(p) \/ DeleteCommit(p) \/ Clear(p) \/ Drop(p)

LEMMA StepCases ==
    ASSUME NEW p \in Procs, Step(p) \/ Fail(p)
    PROVE  Writes(p) \/ UNCHANGED item
BY DEF Step, Writes, AddKit, addPart, UpdateKit, updatePart, DeleteKit, deletePart,
       AddConflict, classifyAddKitConflict, UpdateReject, DeleteGet, DeleteConflict,
       classifyDeleteKitConflict, Fail, item

LEMMA StepMoves ==
    ASSUME NEW p \in Procs, Step(p) \/ Fail(p)
    PROVE  Moves(p)
<1> USE DEF Moves, Calls, item
<1>1. CASE AddCommit(p) \/ UpdateCommit(p) \/ DeleteCommit(p)
  BY <1>1 DEF AddCommit, UpdateCommit, DeleteCommit, Committed
<1>2. CASE AddConflict(p) \/ DeleteConflict(p) \/ DeleteGet(p)
  BY <1>2 DEF AddConflict, DeleteConflict, DeleteGet
<1>3. CASE UpdateReject(p) \/ classifyAddKitConflict(p) \/ classifyDeleteKitConflict(p)
           \/ Clear(p) \/ Drop(p) \/ Fail(p)
  BY <1>3 DEF UpdateReject, classifyAddKitConflict, classifyDeleteKitConflict, Clear, Drop, Fail
<1> QED
  BY <1>1, <1>2, <1>3 DEF Step, AddKit, addPart, UpdateKit, updatePart, DeleteKit, deletePart

LEMMA LocalsKept ==
    ASSUME LocalsOK, NEW p \in Procs, Moves(p)
    PROVE  LocalsOK'
<1>1. CASE UNCHANGED locals
  BY <1>1 DEF LocalsOK, Moves, locals, AddFlags
<1>2. CASE Return(p)
  BY <1>2 DEF LocalsOK, Moves, Return, AddFlags, Flags
<1>3. ASSUME NEW c \in Calls \ {"add", "drop"}, Goto(p, c), pc[p] \notin {"idle", "drop"}
      PROVE  LocalsOK'
  BY <1>3 DEF LocalsOK, Moves, Goto, AddFlags, Calls
<1> QED
  BY <1>1, <1>2, <1>3 DEF Moves

LEMMA ArrivalKeeps ==
    ASSUME Inv, NEW p \in Procs, Arrives(p)
    PROVE  Inv'
<1>1. PICK k \in Parts \cup {NoPart}, f \in Flags, c \in Calls :
        /\ Receive(p, k, f, c)
        /\ created' = created \/ created' = created \cup {k}
        /\ IF c = "drop" THEN k = NoPart /\ UNCHANGED created ELSE k \in created' \ {NoPart}
        /\ created' \subseteq Parts
        /\ kind = "keyboard" => f = "absent"
        /\ c = "add" => f # "false"
  BY DEF Arrives
<1>2. LocalsOK /\ ItemOK
  BY InvParts
<1>3. UNCHANGED <<kind, stored, parts, primary, replica, designated, removed>>
  BY DEF Arrives, item
<1>4. created \subseteq created'
  BY <1>1
<1>5. ItemOK'
  BY <1>1, <1>2, <1>3, <1>4 DEF ItemOK
<1>6. LocalsOK'
  <2>1. /\ pc' = [pc EXCEPT ![p] = c]
        /\ part' = [part EXCEPT ![p] = k]
        /\ flag' = [flag EXCEPT ![p] = f]
    BY <1>1 DEF Receive
  <2>2. part' \in [Procs -> created' \cup {NoPart}]
    BY <1>1, <1>2, <1>4, <2>1 DEF LocalsOK
  <2>3. c # "idle"
    BY DEF Calls
  <2> QED
    BY <1>1, <1>2, <1>3, <2>1, <2>2, <2>3 DEF LocalsOK, AddFlags
<1> QED
  BY <1>5, <1>6, InvPartsNext

LEMMA ItemKept ==
    ASSUME Inv, NEW p \in Procs, Writes(p)
    PROVE  ItemOK'
<1> USE NotAPart DEF Inv, TypeOK, ItemOK
<1>1. CASE AddCommit(p)
  <2>1. part[p] \in created
    BY <1>1 DEF AddCommit
  <2> QED
    BY <1>1, <2>1 DEF AddCommit, Committed, Designate
<1>2. CASE UpdateCommit(p)
  BY <1>2 DEF UpdateCommit, Committed, Designate
<1>3. CASE DeleteCommit(p)
  BY <1>3 DEF DeleteCommit, Committed
<1>4. CASE Clear(p)
  BY <1>4 DEF Clear
<1>5. CASE Drop(p)
  BY <1>5 DEF Drop
<1> QED
  BY <1>1, <1>2, <1>3, <1>4, <1>5 DEF Writes

LEMMA InvInductive == Inv /\ [Next]_vars => Inv'
<1> SUFFICES ASSUME Inv, [Next]_vars
             PROVE  Inv'
  OBVIOUS
<1>0. LocalsOK /\ ItemOK
  BY InvParts
<1>1. CASE Replicate
  <2>1. UNCHANGED <<kind, stored, parts, primary, created, pc, part, flag, designated, removed>>
    BY <1>1 DEF Replicate, locals
  <2>2. replica' \in Copies
    BY <1>0, <1>1 DEF Replicate, ItemOK, Copies
  <2> QED
    BY <1>0, <2>1, <2>2, InvPartsNext DEF ItemOK, LocalsOK, AddFlags
<1>2. ASSUME NEW p \in Procs, Request(p) \/ Tool(p)
      PROVE  Inv'
  BY <1>2, RequestArrives, ArrivalKeeps
<1>3. ASSUME NEW p \in Procs, Step(p) \/ Fail(p)
      PROVE  Inv'
  <2>1. Moves(p)
    BY <1>3, StepMoves
  <2>2. LocalsOK'
    BY <1>0, <2>1, LocalsKept
  <2>3. CASE Writes(p)
    BY <2>2, <2>3, ItemKept, InvPartsNext
  <2>4. CASE UNCHANGED item
    BY <1>0, <2>1, <2>2, <2>4, InvPartsNext DEF item, Moves, ItemOK
  <2> QED
    BY <1>3, <2>3, <2>4, StepCases
<1>4. CASE UNCHANGED vars
  BY <1>0, <1>4, InvPartsNext DEF vars, ItemOK, LocalsOK, AddFlags
<1> QED
  BY <1>1, <1>2, <1>3, <1>4 DEF Next

LEMMA InvInvariant == Spec => []Inv
<1>1. Init => Inv
  BY NotAPart DEF Init, Inv, TypeOK, AddFlags, Copies, Calls, Flags
<1> QED
  BY <1>1, InvInductive, PTL DEF Spec

(* Every variable of the map of parts keeps its type: no request is ever   *)
(* without its part, and a keyboard never has a primary one.               *)
THEOREM TypeCorrect == Spec => []TypeOK
<1>1. Inv => TypeOK
  BY DEF Inv
<1> QED
  BY <1>1, InvInvariant, PTL

-----------------------------------------------------------------------------
(* A name that dangles                                                     *)

(* What p left to be cleared stays so through every step but p's own. *)
LEMMA OthersStay ==
    ASSUME Inv, NEW p \in Procs, NEW q \in Procs, p # q, Moves(p) \/ Arrives(p)
    PROVE  pc'[q] = pc[q] /\ part'[q] = part[q]
<1> USE DEF Inv, TypeOK
<1>1. CASE UNCHANGED locals
  BY <1>1 DEF locals
<1>2. CASE Return(p) \/ \E c \in Calls : Goto(p, c)
  BY <1>2 DEF Return, Goto
<1>3. CASE Arrives(p)
  BY <1>3 DEF Arrives, Receive
<1> QED
  BY <1>1, <1>2, <1>3 DEF Moves

(* A step that goes on from a due clear is the clear, or its failure. *)
LEMMA OnlyClears ==
    ASSUME NEW p \in Procs, pc[p] = "clear", Step(p) \/ Request(p) \/ Tool(p)
    PROVE  Clear(p)
<1>1. ~(Request(p) \/ Tool(p))
  BY DEF Request, Tool, CreateKeycapKit, UpdateKeycapKit, CreateKeyboardPlate,
         CreateKeyboardPCB, UpdateKeyboardPlate, UpdateKeyboardPCB, DeleteKeycapKit,
         DeleteKeyboardPlate, DeleteKeyboardPCB, DeleteItem, Create, Update, Delete, Receive,
         handleCreateKeycapKit, handleUpdateKeycapKit, handleDeleteKeycapKit,
         handleCreateKeyboardPlate, handleUpdateKeyboardPlate, handleDeleteKeyboardPlate,
         handleCreateKeyboardPCB, handleUpdateKeyboardPCB, handleDeleteKeyboardPCB
<1>2. CASE Step(p)
  BY <1>2 DEF Step, AddKit, addPart, UpdateKit, updatePart, DeleteKit, deletePart,
       AddCommit, UpdateCommit, DeleteCommit, AddConflict, classifyAddKitConflict,
       UpdateReject, DeleteGet, DeleteConflict, classifyDeleteKitConflict, Drop
<1> QED
  BY <1>1, <1>2

Uncleared(p) ==
    \/ pc[p] = "clear" /\ Fail(p)
    \/ DeleteCommit(p) /\ pc'[p] = "delete"

(* A step that writes the item keeps a name that is one of its parts, but  *)
(* for a delete, which goes on to clear it.                                *)
LEMMA WriteStaysSound ==
    ASSUME Inv, NEW p \in Procs, Writes(p), primary \in parts \cup {NoPart}
    PROVE  Sound' \/ Uncleared(p)
<1> USE DEF Inv, TypeOK, Sound
<1>1. CASE AddCommit(p) \/ UpdateCommit(p)
  BY <1>1 DEF AddCommit, UpdateCommit, Designate
<1>2. CASE DeleteCommit(p)
  <2>1. CASE primary # part[p]
    BY <1>2, <2>1 DEF DeleteCommit
  <2>2. CASE primary = part[p]
    <3>1. kind = "set" /\ primary' = part[p]
      BY <1>2, <2>2, NotAPart DEF DeleteCommit
    <3>2. CASE UNCHANGED locals
      BY <1>2, <3>2 DEF DeleteCommit, locals, Uncleared
    <3>3. CASE Goto(p, "clear")
      BY <3>1, <3>3 DEF Goto
    <3> QED
      BY <1>2, <3>1, <3>2, <3>3 DEF DeleteCommit, Committed
  <2> QED
    BY <2>1, <2>2
<1>3. CASE Clear(p)
  BY <1>3 DEF Clear
<1>4. CASE Drop(p)
  BY <1>4 DEF Drop
<1> QED
  BY <1>1, <1>2, <1>3, <1>4 DEF Writes

(* So does every step where a clear of another request is due. *)
LEMMA WriteKeepsDue ==
    ASSUME Inv, NEW p \in Procs, NEW q \in Procs, p # q, Writes(p), Moves(p),
           pc[q] = "clear", part[q] = primary
    PROVE  Sound'
<1>1. pc'[q] = "clear" /\ part'[q] = part[q]
  BY OthersStay
<1> USE DEF Inv, TypeOK, Sound
<1>2. CASE AddCommit(p) \/ UpdateCommit(p)
  BY <1>1, <1>2 DEF AddCommit, UpdateCommit, Designate
<1>3. CASE DeleteCommit(p) \/ Clear(p) \/ Drop(p)
  BY <1>1, <1>3 DEF DeleteCommit, Clear, Drop
<1> QED
  BY <1>2, <1>3 DEF Writes

LEMMA DanglesOnlyUncleared ==
    Inv /\ [Next]_vars => (Sound /\ ~Sound' => \E p \in Procs : Uncleared(p))
<1> SUFFICES ASSUME Inv, [Next]_vars, Sound, ~Sound'
             PROVE  \E p \in Procs : Uncleared(p)
  OBVIOUS
<1>1. CASE Replicate \/ UNCHANGED vars
  BY <1>1 DEF Replicate, vars, locals, Sound
<1>2. ASSUME NEW p \in Procs, Request(p) \/ Tool(p) \/ Step(p) \/ Fail(p)
      PROVE  Uncleared(p)
  <2>1. Moves(p) \/ Arrives(p)
    BY <1>2, StepMoves, RequestArrives
  <2>2. CASE primary \in parts \cup {NoPart}
    <3>1. CASE UNCHANGED item
      BY <2>2, <3>1 DEF item, Sound
    <3> QED
      BY <1>2, <2>2, <3>1, StepCases, RequestArrives, WriteStaysSound DEF Arrives
  <2>3. ASSUME NEW q \in Procs, pc[q] = "clear", part[q] = primary, p # q
        PROVE  FALSE
    <3>1. CASE UNCHANGED item
      BY <2>1, <2>3, <3>1, OthersStay DEF item, Sound
    <3>2. CASE Writes(p) /\ Moves(p)
      BY <2>3, <3>2, WriteKeepsDue
    <3> QED
      BY <1>2, <3>1, <3>2, StepCases, StepMoves, RequestArrives DEF Arrives
  <2>4. CASE pc[p] = "clear" /\ part[p] = primary
    <3>1. CASE Clear(p)
      BY <2>4, <3>1 DEF Clear, Sound
    <3> QED
      BY <1>2, <2>4, <3>1, OnlyClears DEF Uncleared
  <2> QED
    BY <2>2, <2>3, <2>4 DEF Sound
<1> QED
  BY <1>1, <1>2 DEF Next

(* A set comes to name a kit that is gone only when the clearing write     *)
(* fails, or when the response to the delete was lost.                     *)
THEOREM OnlyUncleared == Spec => OnlyUnclearedDangles
<1>1. Inv /\ [Next]_vars =>
        [Sound /\ ~Sound' =>
          \E p \in Procs :
            \/ pc[p] = "clear" /\ Fail(p)
            \/ DeleteCommit(p) /\ pc'[p] = "delete"]_vars
  BY DanglesOnlyUncleared DEF Uncleared
<1> QED
  BY <1>1, InvInvariant, PTL DEF Spec, OnlyUnclearedDangles

-----------------------------------------------------------------------------
(* A choice that is undone, and a part that comes back                     *)

Undoes(p) ==
    \/ UpdateCommit(p) /\ flag[p] = "false"
    \/ DeleteCommit(p)
    \/ Clear(p) /\ part[p] = designated

LEMMA WriteUndoes ==
    ASSUME Inv, NEW p \in Procs, Writes(p), primary = designated, primary' # designated'
    PROVE  Undoes(p)
<1>1. CASE AddCommit(p)
  BY <1>1 DEF AddCommit, Designate, Inv, AddFlags
<1>2. CASE UpdateCommit(p)
  BY <1>2 DEF UpdateCommit, Designate, Undoes
<1>3. CASE DeleteCommit(p)
  BY <1>3 DEF Undoes
<1>4. CASE Clear(p)
  BY <1>4 DEF Clear, Undoes
<1>5. CASE Drop(p)
  BY <1>5 DEF Drop
<1> QED
  BY <1>1, <1>2, <1>3, <1>4, <1>5 DEF Writes

(* What every step does to the item. *)
LEMMA NextWrites ==
    ASSUME Inv, [Next]_vars
    PROVE  \/ UNCHANGED <<parts, primary, designated>>
           \/ \E p \in Procs : Writes(p)
<1>1. CASE Replicate \/ UNCHANGED vars
  BY <1>1 DEF Replicate, vars
<1>2. ASSUME NEW p \in Procs, Request(p) \/ Tool(p) \/ Step(p) \/ Fail(p)
      PROVE  Writes(p) \/ UNCHANGED item
  BY <1>2, StepCases, RequestArrives DEF Arrives
<1> QED
  BY <1>1, <1>2 DEF Next, item

(* A clear takes the name from a kit that a later write has chosen only if *)
(* the request that clears had written that same kit.                      *)
THEOREM OnlyLateClear == Spec => OnlyLateClearUndoes
<1>1. Inv /\ [Next]_vars =>
        [primary = designated /\ primary' # designated' =>
          \E p \in Procs :
            \/ UpdateCommit(p) /\ flag[p] = "false"
            \/ DeleteCommit(p)
            \/ Clear(p) /\ part[p] = designated]_vars
  BY NextWrites, WriteUndoes DEF Undoes
<1> QED
  BY <1>1, InvInvariant, PTL DEF Spec, OnlyLateClearUndoes

(* A deleted part comes back only by its own add, made again. *)
THEOREM OnlyRepeatedAdd == Spec => OnlyRepeatedAddRevives
<1>1. ASSUME NEW p \in Procs, Writes(p), NEW k \in parts' \ parts
      PROVE  AddCommit(p) /\ part[p] = k
  BY <1>1 DEF Writes, AddCommit, UpdateCommit, DeleteCommit, Clear, Drop
<1>2. Inv /\ [Next]_vars =>
        [\A k \in removed : k \in parts' \ parts =>
          \E p \in Procs : AddCommit(p) /\ part[p] = k]_vars
  BY <1>1, NextWrites
<1> QED
  BY <1>2, InvInvariant, PTL DEF Spec, OnlyRepeatedAddRevives
=============================================================================

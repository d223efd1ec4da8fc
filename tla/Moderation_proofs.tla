-------------------------- MODULE Moderation_proofs --------------------------
(***************************************************************************)
(* Proofs about Moderation, for any number of deliveries of the upload's   *)
(* event and any number of attempts.                                       *)
(***************************************************************************)
EXTENDS Moderation, TLAPS

(* An event that Lambda holds, or is yet to get, has an attempt left. *)
AttemptLeft == \A e \in Deliveries : pc[e] \in {"unsent", "waiting"} => left[e] > 0

(* No read of a pending image finds it decided, so no command is about it. *)
Unseen ==
    status = "pending" => replica \in {"pending", "gone"} /\ op = "idle" /\ ~review

(* The function tags what it rejects, and a delivery that is about to      *)
(* write a rejection has done so.                                          *)
TagFirst ==
    /\ \A e \in Deliveries : pc[e] = "tag" => verdict = "rejected"
    /\ status = "pending" =>
        /\ tagged => verdict = "rejected"
        /\ \A e \in Deliveries :
            pc[e] = "set" /\ verdict = "rejected" => tagged \/ file # "stored"

(* A takedown holds the status it set, and then the tag. *)
Takedown ==
    /\ op \in {"rejectTag", "rejectRecord", "rejectInvalidate"} => status \in {"rejected", "gone"}
    /\ op \in {"rejectRecord", "rejectInvalidate"} => tagged \/ file # "stored"

(* A tag that an approval, or the log, is not about to deal with is late. *)
LateTag ==
    /\ status = "approved" \/ op = "approveSet" => (tagged => late)
    /\ review /\ tagged => late \/ op = "rejectRecord"
    /\ review /\ op = "rejectInvalidate" => late \/ file # "stored"

Inv ==
    /\ TypeOK /\ AttemptLeft /\ Unseen /\ TagFirst /\ Takedown /\ LateTag
    /\ OnlyLagLosesImage
-----------------------------------------------------------------------------
(* The inductive invariant *)

LEMMA Initial == Init => Inv
<1>1. Init => TypeOK /\ AttemptLeft
  <2> SUFFICES ASSUME Init
               PROVE  TypeOK /\ AttemptLeft
    OBVIOUS
  <2>1. {tagged, aged, cached, late, missed, paused, already, review} \subseteq BOOLEAN
    BY DEF Init
  <2>2. left \in [Deliveries -> 0 .. MaxAttempts] /\ AttemptLeft
    BY Attempts DEF Init, AttemptLeft
  <2> QED
    BY <2>1, <2>2 DEF Init, TypeOK, Untouched
<1>2. Init => Unseen /\ TagFirst /\ Takedown /\ LateTag /\ OnlyLagLosesImage
  BY DEF Init, Unseen, TagFirst, Takedown, LateTag, OnlyLagLosesImage, Undecided
<1> QED
  BY <1>1, <1>2 DEF Inv

LEMMA ServiceKeeps ==
    ASSUME Inv, Service
    PROVE  Inv'
<1> USE DEF Inv, TypeOK, AttemptLeft, Untouched, Unseen, TagFirst, Takedown, LateTag,
            OnlyLagLosesImage, Undecided, Awaited, Running, Commands, function, people
<1>1. CASE Replicate
  BY <1>1 DEF Replicate
<1>2. CASE Upload
  BY <1>2 DEF Upload
<1>3. CASE Age
  BY <1>3 DEF Age
<1>4. CASE Expire
  BY <1>4 DEF Expire, DeleteFile
<1>5. CASE Fetch
  BY <1>5 DEF Fetch
<1> QED
  BY <1>1, <1>2, <1>3, <1>4, <1>5 DEF Service

LEMMA OwnerKeeps ==
    ASSUME Inv, Owner
    PROVE  Inv'
<1> USE DEF Inv, TypeOK, AttemptLeft, Untouched, Unseen, TagFirst, Takedown, LateTag,
            OnlyLagLosesImage, Undecided, Awaited, Running, Commands, image, function
<1>1. CASE OwnerDeletesFile
  BY <1>1 DEF OwnerDeletesFile, DeleteFile
<1>2. CASE OwnerDeletesRecord
  BY <1>2 DEF OwnerDeletesRecord, SetStatus
<1>3. CASE OwnerFails
  BY <1>3 DEF OwnerFails
<1> QED
  BY <1>1, <1>2, <1>3 DEF Owner

(* A delivery may use up the last attempt of an event, never the event.    *)
LEMMA DeliveryKeeps ==
    ASSUME Inv, NEW e \in Deliveries, Duplicate(e) \/ Deliver(e) \/ Redrive(e)
    PROVE  Inv'
<1> USE Attempts
    DEF Inv, TypeOK, AttemptLeft, Untouched, Unseen, TagFirst, Takedown, LateTag,
        OnlyLagLosesImage, Undecided, Awaited, Running, Commands, image, people, Goto
<1>1. CASE Duplicate(e)
  BY <1>1 DEF Duplicate
<1>2. CASE Start(e)
  <2>1. left' \in [Deliveries -> 0 .. MaxAttempts] /\ left'[e] = left[e] - 1
    BY <1>2 DEF Start
  <2>2. CASE Moderate(e)
    BY <1>2, <2>1, <2>2 DEF Start, Moderate, Statuses
  <2>3. CASE Skip(e)
    BY <1>2, <2>1, <2>3 DEF Start, Skip, Statuses
  <2>4. CASE FailEvent(e, left'[e]) /\ UNCHANGED missed
    BY <1>2, <2>1, <2>4 DEF Start, FailEvent
  <2> QED
    BY <1>2, <2>2, <2>3, <2>4 DEF Start
<1>3. CASE Detect(e)
  BY <1>3 DEF Detect
<1>4. CASE Tag(e)
  BY <1>4 DEF Tag
<1>5. CASE Set(e)
  BY <1>5 DEF Set, SetStatus, FailEvent
<1>6. CASE AttemptFails(e)
  BY <1>6 DEF AttemptFails, FailEvent
<1>7. CASE AgeOut(e)
  BY <1>7 DEF AgeOut
<1>8. CASE Redrive(e)
  BY <1>8 DEF Redrive
<1> QED
  BY <1>1, <1>2, <1>3, <1>4, <1>5, <1>6, <1>7, <1>8 DEF Deliver

(* A command that is interrupted, repeated or undone by another one.       *)
LEMMA OperatorKeeps ==
    ASSUME Inv, Operator
    PROVE  Inv'
<1> USE DEF Inv, TypeOK, AttemptLeft, Untouched, Unseen, TagFirst, Takedown, LateTag,
            OnlyLagLosesImage, Undecided, Awaited, Running, Commands, image, function, people,
            Command, End, Statuses, SetStatus
<1>1. CASE Pause
  BY <1>1 DEF Pause
<1>2. CASE Uphold
  BY <1>2 DEF Uphold
<1>3. CASE Approve
  BY <1>3 DEF Approve
<1>4. CASE ApproveHead
  BY <1>4 DEF ApproveHead
<1>5. CASE ApproveUntag
  BY <1>5 DEF ApproveUntag
<1>6. CASE ApproveSet
  BY <1>6 DEF ApproveSet
<1>7. CASE Reject
  <2>1. CASE status = "approved"
    BY <1>7, <2>1 DEF Reject
  <2>2. CASE status # "approved"
    <3>1. status \in {"rejected", "gone"} /\ file # "none"
      BY <1>7, <2>2 DEF Reject
    <3>2. op' = "rejectTag" /\ already' = TRUE /\ UNCHANGED <<status, replica, review, owner>>
      BY <1>7, <2>2 DEF Reject
    <3> QED
      BY <1>7, <3>1, <3>2 DEF Reject
  <2> QED
    BY <2>1, <2>2
<1>8. CASE RejectTag
  <2>1. CASE file = "stored"
    <3>1. tagged' = TRUE
      BY <1>8, <2>1 DEF RejectTag
    <3>2. CASE already /\ tagged
      BY <1>8, <2>1, <3>1, <3>2 DEF RejectTag
    <3>3. CASE ~(already /\ tagged)
      <4>1. op' = "rejectRecord" /\ already' = FALSE
        BY <1>8, <2>1, <3>3 DEF RejectTag
      <4> QED
        BY <1>8, <2>1, <3>1, <4>1 DEF RejectTag
    <3> QED
      BY <3>2, <3>3
  <2>2. CASE file # "stored"
    BY <1>8, <2>2 DEF RejectTag
  <2> QED
    BY <2>1, <2>2
<1>9. CASE RejectInvalidate
  BY <1>9 DEF RejectInvalidate
<1>10. CASE Record
  BY <1>10 DEF Record
<1>11. CASE CommandFails
  BY <1>11 DEF CommandFails
<1> QED
  BY <1>1, <1>2, <1>3, <1>4, <1>5, <1>6, <1>7, <1>8, <1>9, <1>10, <1>11 DEF Operator

LEMMA Inductive == Inv /\ [Next]_vars => Inv'
<1>1. ASSUME Inv, UNCHANGED vars
      PROVE  Inv'
  BY <1>1 DEF vars, Inv, TypeOK, AttemptLeft, Untouched, Unseen, TagFirst, Takedown, LateTag,
     OnlyLagLosesImage, Undecided, Awaited
<1> QED
  BY <1>1, ServiceKeeps, OwnerKeeps, OperatorKeeps, DeliveryKeeps DEF Next

THEOREM Invariant == Spec => []Inv
BY Initial, Inductive, PTL DEF Spec

-----------------------------------------------------------------------------
(* What the runs check *)

(* Every variable keeps its type: the file that is tagged is there, and an *)
(* event never has fewer attempts left than none.                          *)
THEOREM TypeCorrect == Spec => []TypeOK
<1>1. Inv => TypeOK
  BY DEF Inv
<1> QED
  BY <1>1, Invariant, PTL

(* moderation.Handler and its queues: an upload nobody decided has an      *)
(* event left, unless a lagging read took it for another image's.          *)
THEOREM OnlyLag == Spec => []OnlyLagLosesImage
<1>1. Inv => OnlyLagLosesImage
  BY DEF Inv
<1> QED
  BY <1>1, Invariant, PTL

(* Overrider.Approve removes the tag before it writes the status: only a   *)
(* tag that another delivery wrote behind the decision makes an approved   *)
(* image expire.                                                           *)
THEOREM OnlyLateTag == Spec => []OnlyLateTagExpires
<1>1. Inv => OnlyLateTagExpires
  BY DEF Inv, LateTag, OnlyLateTagExpires, Expiring
<1> QED
  BY <1>1, Invariant, PTL

(* moderation.Handler tags before it writes: no rejection of its own is    *)
(* left without a tag.                                                     *)
THEOREM TaggedFirst == Spec => RejectedIsTagged
<1>1. ASSUME Inv, Next, status = "pending", status' = "rejected"
      PROVE  tagged' \/ file' # "stored"
  <2>1. ASSUME NEW e \in Deliveries, Set(e)
        PROVE  tagged' \/ file' # "stored"
    BY <1>1, <2>1 DEF Inv, TypeOK, TagFirst, Set, SetStatus
  <2>2. \E e \in Deliveries : Set(e)
    BY <1>1 DEF Inv, Unseen, Next, Service, Owner, Operator, Deliver, SetStatus, image,
       Replicate, Upload, Age, Expire, Fetch,
       OwnerDeletesFile, OwnerDeletesRecord, OwnerFails,
       Pause, Uphold, Approve, ApproveHead, ApproveUntag, ApproveSet, Reject, RejectTag,
       RejectInvalidate, Record, CommandFails,
       Duplicate, Start, Detect, Tag, AttemptFails, AgeOut, Redrive
  <2> QED
    BY <2>1, <2>2
<1>2. Inv /\ [Next]_vars
        => [status = "pending" /\ status' = "rejected" => tagged' \/ file' # "stored"]_vars
  BY <1>1
<1> QED
  BY <1>2, Invariant, PTL DEF Spec, RejectedIsTagged

(* Overrider.Reject, with its reruns: a takedown that reports success has  *)
(* tagged the file, or found it gone, and emptied the CDN of it.  The log  *)
(* has the review, but for a rerun that takes the first run for finished.  *)
THEOREM TakedownComplete == Spec => TakedownIsComplete
<1> DEFINE Complete == /\ status' \in {"rejected", "gone"}
                       /\ tagged' \/ file' # "stored"
                       /\ ~cached'
                       /\ ~review \/ late \/ file # "stored"
<1>1. ASSUME Inv, op = "rejectInvalidate", RejectInvalidate
      PROVE  Complete
  BY <1>1 DEF Inv, Takedown, LateTag, RejectInvalidate
<1>2. Inv => [op = "rejectInvalidate" /\ RejectInvalidate => Complete]_vars
  BY <1>1
<1> QED
  BY <1>2, Invariant, PTL DEF TakedownIsComplete
=============================================================================

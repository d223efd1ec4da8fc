----------------------------- MODULE Moderation -----------------------------
(***************************************************************************)
(* One uploaded image, from its presigned upload to the operator's review. *)
(*                                                                         *)
(* Its status is an attribute of the record that holds the image, its file *)
(* an S3 object; a tag on the file stops the CDN serving it and lets a     *)
(* lifecycle rule delete it.  S3 reports the upload to the moderation      *)
(* function at least once, Lambda retries an event that failed and then    *)
(* dead-letters it, and the operator's commands override a decision.  No   *)
(* two of these writes are atomic with each other.  One operator works at  *)
(* a time, and keys are never reused, so images do not interact.           *)
(***************************************************************************)
EXTENDS Integers

CONSTANTS
    Deliveries,   \* the deliveries of the upload's event: at least once
    MaxAttempts   \* of one event: the first and MaximumRetryAttempts more

ASSUME Attempts == MaxAttempts \in Nat \ {0}

VARIABLES
    (***********************************************************************)
    (* The image                                                           *)
    (***********************************************************************)
    status,    \* its status, or "gone" when no record holds its key
    replica,   \* what a lagging read of the record says
    file,      \* the object under its key: not uploaded yet, there, or gone
    tagged,    \* the object has the tag moderation=rejected
    aged,      \* the upload is RejectedImageExpirationDays old
    cached,    \* the CDN has a copy of it
    verdict,   \* what the function decides of these bytes
    late,      \* history: it was tagged by an attempt that was overtaken
    missed,    \* history: a lagging read skipped it while it was pending
    (***********************************************************************)
    (* Its event, and the function                                         *)
    (***********************************************************************)
    pc,        \* where each delivery is
    left,      \* attempts it has left
    paused,    \* the operator has paused the function
    (***********************************************************************)
    (* The requests and commands of people                                 *)
    (***********************************************************************)
    owner,     \* where the owner's delete of the image is
    op,        \* where the operator's command is
    already,   \* the command found the status it was to set
    review     \* history: a takedown that its rerun has to put on the log

image == <<status, replica, file, tagged, aged, cached, verdict, late, missed>>
function == <<pc, left, paused>>
people == <<owner, op, already, review>>
vars == <<status, replica, file, tagged, aged, cached, verdict, late, missed,
          pc, left,
          paused, owner, op, already, review>>

Running == {"detect", "tag", "set"}
Commands == {"upholdRecord", "approveHead", "approveUntag", "approveSet",
             "approveRecord", "rejectTag", "rejectRecord", "rejectInvalidate"}

(* Before the upload there is no event, and nothing is decided. *)
Untouched ==
    file = "none" =>
        /\ \A e \in Deliveries : pc[e] = "unsent"
        /\ {status, replica} \subseteq {"pending", "gone"}
        /\ op = "idle"

TypeOK ==
    /\ {status, replica} \subseteq {"pending", "approved", "rejected", "gone"}
    /\ file \in {"none", "stored", "deleted"}
    /\ {tagged, aged, cached, late, missed, paused, already, review} \subseteq BOOLEAN
    /\ verdict \in {"approved", "rejected"}
    /\ pc \in [Deliveries -> Running \cup {"unsent", "waiting", "deadletter", "done"}]
    /\ left \in [Deliveries -> 0 .. MaxAttempts]
    /\ owner \in {"idle", "record"}
    /\ op \in Commands \cup {"idle"}
    /\ tagged => file = "stored"
    /\ Untouched
    /\ already => op \in {"approveHead", "approveUntag", "rejectTag"}

(* The slot was set to the new key, pending, and the URL handed out; a     *)
(* lagging read does not see the key yet.                                  *)
Init ==
    /\ status = "pending"
    /\ replica = "gone"
    /\ file = "none"
    /\ tagged = FALSE
    /\ aged = FALSE
    /\ cached = FALSE
    /\ late = FALSE
    /\ missed = FALSE
    /\ verdict \in {"approved", "rejected"}
    /\ pc = [e \in Deliveries |-> "unsent"]
    /\ left = [e \in Deliveries |-> MaxAttempts]
    /\ paused = FALSE
    /\ owner = "idle"
    /\ op = "idle"
    /\ already = FALSE
    /\ review = FALSE

-----------------------------------------------------------------------------
(* DynamoDB, S3 and the CDN *)

(* Images.Status, a GetItem without ConsistentRead. *)
Statuses == {status, replica}

SetStatus(s) ==
    /\ status' = s
    /\ UNCHANGED replica

Replicate ==
    /\ replica # status
    /\ replica' = status
    /\ UNCHANGED <<status, file, tagged, aged, cached, verdict, late, missed, function, people>>

DeleteFile ==
    /\ file' = IF file = "stored" THEN "deleted" ELSE file
    /\ tagged' = FALSE

(* The client uses its URL, and S3 sends the event. *)
Upload ==
    /\ file = "none"
    /\ file' = "stored"
    /\ \E e \in Deliveries : pc' = [pc EXCEPT ![e] = "waiting"]
    /\ UNCHANGED <<status, replica, tagged, aged, cached, verdict, late, missed, left, paused, people>>

(* The event is delivered once more, within the days events live for. *)
Duplicate(e) ==
    /\ file # "none"
    /\ ~aged
    /\ pc[e] = "unsent"
    /\ pc' = [pc EXCEPT ![e] = "waiting"]
    /\ UNCHANGED <<image, left, paused, people>>

(* The upload grows older than events are kept, in queues and in the DLQ. *)
Age ==
    /\ file = "stored" /\ ~aged
    /\ \A e \in Deliveries : pc[e] \in {"unsent", "done"}
    /\ aged' = TRUE
    /\ UNCHANGED <<status, replica, file, tagged, cached, verdict, late, missed, function, people>>

(* expire-rejected-images. *)
Expire ==
    /\ tagged /\ aged
    /\ DeleteFile
    /\ UNCHANGED <<status, replica, aged, cached, verdict, late, missed, function, people>>

(* Somebody follows a link, which S3 serves unless the file is tagged. *)
Fetch ==
    /\ file = "stored" /\ ~tagged /\ ~cached
    /\ cached' = TRUE
    /\ UNCHANGED <<status, replica, file, tagged, aged, verdict, late, missed, function, people>>

-----------------------------------------------------------------------------
(* The owner *)

(* The object is deleted before the record's entry. *)
OwnerDeletesFile ==
    /\ owner = "idle" /\ status # "gone"
    /\ DeleteFile
    /\ owner' = "record"
    /\ UNCHANGED <<status, replica, aged, cached, verdict, late, missed, function, op, already, review>>

OwnerDeletesRecord ==
    /\ owner = "record"
    /\ SetStatus("gone")
    /\ owner' = "idle"
    /\ UNCHANGED <<file, tagged, aged, cached, verdict, late, missed, function, op, already, review>>

OwnerFails ==
    /\ owner = "record"
    /\ owner' = "idle"
    /\ UNCHANGED <<image, function, op, already, review>>

-----------------------------------------------------------------------------
(* The moderation function *)

Goto(e, step) == pc' = [pc EXCEPT ![e] = step]

(* Lambda retries an event that failed, or gives it up. *)
FailEvent(e, attempts) == Goto(e, IF attempts > 0 THEN "waiting" ELSE "deadletter")

Moderate(e) ==
    /\ "pending" \in Statuses
    /\ Goto(e, "detect")
    /\ UNCHANGED missed

(* The record does not hold the key, or holds it already decided. *)
Skip(e) ==
    /\ \E s \in Statuses : s # "pending"
    /\ Goto(e, "done")
    /\ missed' = (missed \/ status = "pending")

(* Mutation of Start: attempts are not counted. *)
StartUncounted(e) ==
    /\ pc[e] = "waiting" /\ ~paused
    /\ Skip(e) \/ Moderate(e) \/ (FailEvent(e, left[e]) /\ UNCHANGED missed)
    /\ UNCHANGED <<status, replica, file, tagged, aged, cached, verdict, late, left, paused, people>>

(* An attempt: an image that is not a current pending one is skipped. *)
Start(e) ==
    /\ pc[e] = "waiting" /\ ~paused
    /\ left' = [left EXCEPT ![e] = @ - 1]
    /\ Skip(e) \/ Moderate(e) \/ (FailEvent(e, left'[e]) /\ UNCHANGED missed)
    /\ UNCHANGED <<status, replica, file, tagged, aged, cached, verdict, late, paused, people>>

(* Mutation of Detect: the tag waits until the status is written, when     *)
(* nobody comes back to it.                                                *)
DetectUntagged(e) ==
    /\ pc[e] = "detect"
    /\ file = "stored"
    /\ Goto(e, "set")
    /\ UNCHANGED <<image, left, paused, people>>

(* The file is read and decided on; a rejected one is tagged first. *)
Detect(e) ==
    /\ pc[e] = "detect"
    /\ file = "stored"
    /\ Goto(e, IF verdict = "rejected" THEN "tag" ELSE "set")
    /\ UNCHANGED <<image, left, paused, people>>

Tag(e) ==
    /\ pc[e] = "tag"
    /\ file = "stored"
    /\ tagged' = TRUE
    /\ late' = (late \/ status # "pending")
    /\ Goto(e, "set")
    /\ UNCHANGED <<status, replica, file, aged, cached, verdict, missed, left, paused, people>>

(* The conditional write, whose response may be lost; a decision that came *)
(* too late is dropped.                                                    *)
Set(e) ==
    /\ pc[e] = "set"
    /\ \/ status = "pending" /\ SetStatus(verdict) /\ (Goto(e, "done") \/ FailEvent(e, left[e]))
       \/ status # "pending" /\ Goto(e, "done") /\ UNCHANGED <<status, replica>>
    /\ UNCHANGED <<file, tagged, aged, cached, verdict, late, missed, left, paused, people>>

(* Mutation of AttemptFails: a failed attempt is the end of the event. *)
AttemptFailsForGood(e) ==
    /\ pc[e] \in Running
    /\ Goto(e, "done")
    /\ UNCHANGED <<image, left, paused, people>>

(* A call fails or the attempt times out; the file may be gone. *)
AttemptFails(e) ==
    /\ pc[e] \in Running
    /\ FailEvent(e, left[e])
    /\ UNCHANGED <<image, left, paused, people>>

(* MaximumEventAgeInSeconds passes, in a pause or between retries. *)
AgeOut(e) ==
    /\ pc[e] = "waiting"
    /\ Goto(e, "deadletter")
    /\ UNCHANGED <<image, left, paused, people>>

Deliver(e) ==
    \/ Start(e) \/ Detect(e) \/ Tag(e) \/ Set(e) \/ AttemptFails(e) \/ AgeOut(e)

-----------------------------------------------------------------------------
(* The operator *)

Pause ==
    /\ paused' = ~paused
    /\ UNCHANGED <<image, pc, left, people>>

(* redrive invokes the function once; a failure leaves the event queued. *)
Redrive(e) ==
    /\ pc[e] = "deadletter"
    /\ left' = [left EXCEPT ![e] = 1]
    /\ Goto(e, "waiting")
    /\ UNCHANGED <<image, paused, people>>

Command(step, found) ==
    /\ op' = step
    /\ already' = found
    /\ UNCHANGED <<function, owner>>

End == Command("idle", FALSE)

(* Uphold, a read and then its record. *)
Uphold ==
    /\ op = "idle"
    /\ "rejected" \in Statuses
    /\ Command("upholdRecord", FALSE)
    /\ UNCHANGED <<image, review>>

(* Approve: a rejected image, or one whose approval was not finished. *)
Approve ==
    /\ op = "idle"
    /\ \E s \in Statuses \cap {"rejected", "approved"} :
        Command("approveHead", s = "approved")
    /\ UNCHANGED <<image, review>>

(* Mutation of ApproveHead: the tag is left on the file. *)
ApproveHeadOnly ==
    /\ op = "approveHead"
    /\ file = "stored" /\ ~(tagged /\ aged)
    /\ Command("approveSet", FALSE)
    /\ UNCHANGED <<image, review>>

(* checkNotExpired *)
ApproveHead ==
    /\ op = "approveHead"
    /\ file = "stored" /\ ~(tagged /\ aged)
    /\ Command("approveUntag", already)
    /\ UNCHANGED <<image, review>>

ApproveUntag ==
    /\ op = "approveUntag"
    /\ file = "stored"
    /\ tagged' = FALSE
    /\ Command(IF already THEN "approveRecord" ELSE "approveSet", FALSE)
    /\ UNCHANGED <<status, replica, file, aged, cached, verdict, late, missed, review>>

(* override: a conditional write, and a read to tell why it did nothing. *)
ApproveSet ==
    /\ op = "approveSet"
    /\ \/ /\ status = "rejected" /\ SetStatus("approved")
          /\ review' = FALSE
       \/ /\ status # "rejected" /\ "approved" \in Statuses
          /\ UNCHANGED <<status, replica, review>>
    /\ Command("approveRecord", FALSE)
    /\ UNCHANGED <<file, tagged, aged, cached, verdict, late, missed>>

(* Mutation of Reject: the override is conditioned on the key only, so     *)
(* that it decides an image that is pending still.                         *)
RejectPending ==
    /\ op = "idle"
    /\ \/ /\ status \in {"approved", "pending"} /\ SetStatus("rejected")
          /\ Command("rejectTag", FALSE)
          /\ review' = TRUE
       \/ /\ status # "approved" /\ "rejected" \in Statuses
          /\ Command("rejectTag", TRUE)
          /\ UNCHANGED <<status, replica, review>>
    /\ UNCHANGED <<file, tagged, aged, cached, verdict, late, missed>>

(* Reject: the same override the other way, before anything else. *)
Reject ==
    /\ op = "idle"
    /\ \/ /\ status = "approved" /\ SetStatus("rejected")
          /\ Command("rejectTag", FALSE)
          /\ review' = TRUE
       \/ /\ status # "approved" /\ "rejected" \in Statuses
          /\ Command("rejectTag", TRUE)
          /\ UNCHANGED <<status, replica, review>>
    /\ UNCHANGED <<file, tagged, aged, cached, verdict, late, missed>>

(* Mutation of RejectTag: a rejected image is taken to be tagged. *)
RejectTagOnce ==
    /\ op = "rejectTag"
    /\ tagged' = (tagged \/ (file = "stored" /\ ~already))
    /\ Command(IF already THEN "rejectInvalidate" ELSE "rejectRecord", FALSE)
    /\ UNCHANGED <<status, replica, file, aged, cached, verdict, late, missed, review>>

(* addRejectedTag; a takedown that only now is complete is recorded. *)
RejectTag ==
    /\ op = "rejectTag"
    /\ tagged' = (file = "stored")
    /\ LET added == file = "stored" /\ ~tagged IN
        Command(IF already /\ ~added THEN "rejectInvalidate" ELSE "rejectRecord", FALSE)
    /\ UNCHANGED <<status, replica, file, aged, cached, verdict, late, missed, review>>

(* reviews.Record; for a takedown the invalidation comes after it. *)
Record ==
    /\ op \in {"upholdRecord", "approveRecord", "rejectRecord"}
    /\ IF op = "rejectRecord"
       THEN Command("rejectInvalidate", FALSE) /\ review' = FALSE
       ELSE End /\ UNCHANGED review
    /\ UNCHANGED image

RejectInvalidate ==
    /\ op = "rejectInvalidate"
    /\ cached' = FALSE
    /\ End
    /\ UNCHANGED <<status, replica, file, tagged, aged, verdict, late, missed, review>>

(* A check or a call fails, or the command is interrupted.  A takedown     *)
(* that stops right before the log is one its rerun takes for finished.    *)
CommandFails ==
    /\ op # "idle"
    /\ End
    /\ review' = (review /\ op # "rejectRecord")
    /\ UNCHANGED image

-----------------------------------------------------------------------------
Service == Replicate \/ Upload \/ Age \/ Expire \/ Fetch

Owner == OwnerDeletesFile \/ OwnerDeletesRecord \/ OwnerFails

Operator ==
    \/ Pause
    \/ Uphold \/ Approve \/ ApproveHead \/ ApproveUntag \/ ApproveSet
    \/ Reject \/ RejectTag \/ RejectInvalidate
    \/ Record \/ CommandFails

Next ==
    \/ Service \/ Owner \/ Operator
    \/ \E e \in Deliveries : Duplicate(e) \/ Deliver(e) \/ Redrive(e)

Spec == Init /\ [][Next]_vars

(* Lambda invokes the function for an event it holds, times an attempt     *)
(* out, and gives an event up when it is too old.                          *)
FairSpec == Spec /\ \A e \in Deliveries : WF_vars(Deliver(e))

-----------------------------------------------------------------------------
(* Properties *)

(* A pending image whose file was uploaded has an event left that can      *)
(* decide it, in Lambda's hands or in the dead-letter queue: no attempt    *)
(* that fails or is repeated uses up the last one.  One thing loses it: an *)
(* attempt whose lagging read of the record did not find the upload yet.   *)
Awaited == \E e \in Deliveries : pc[e] \in Running \cup {"waiting", "deadletter"}
Undecided == status = "pending" /\ file = "stored"
OnlyLagLosesImage == Undecided => missed \/ Awaited

(* Every upload is decided, or ends in the dead-letter queue, or is        *)
(* deleted, whatever fails: retries are bounded and a pause ages out.      *)
EventuallyDecided ==
    Undecided ~> ~Undecided \/ missed \/ \E e \in Deliveries : pc[e] = "deadletter"

(* The function leaves no rejected image behind that would never expire,   *)
(* whichever attempt writes the status: its file is tagged, or gone.       *)
RejectedIsTagged ==
    [][status = "pending" /\ status' = "rejected" => tagged' \/ file' # "stored"]_vars

(* An approved image with a tag, whose file is about to be deleted, comes  *)
(* about in one way only: an attempt that read the image as pending tags   *)
(* its file after another delivery decided it, while the operator approves *)
(* it.  Commands that are interrupted, rerun or undone do not cause it.    *)
Expiring == status = "approved" /\ tagged
OnlyLateTagExpires == Expiring => late

(* A takedown that reports success, on its first run or on a rerun, has    *)
(* left nothing that serves the image: the file is tagged or gone and the  *)
(* CDN holds no copy of it.  It is on the log of reviews, but for a rerun  *)
(* that takes it for finished: the first run stopped right before the log, *)
(* or before tagging a file that was deleted or tagged late since.         *)
TakedownIsComplete ==
    [][op = "rejectInvalidate" /\ RejectInvalidate =>
        /\ status' \in {"rejected", "gone"}
        /\ tagged' \/ file' # "stored"
        /\ ~cached'
        /\ ~review \/ late \/ file # "stored"]_vars
=============================================================================

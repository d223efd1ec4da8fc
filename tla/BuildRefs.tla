------------------------------ MODULE BuildRefs ------------------------------
(***************************************************************************)
(* The build repository: the requests that write build items and their     *)
(* reference markers.                                                      *)
(*                                                                         *)
(* An update reads the build for the markers it has, then writes the item  *)
(* and the difference in one transaction; a delete reads it for the        *)
(* markers to delete.  Neither transaction is conditioned on the build     *)
(* still being the one that was read.                                      *)
(***************************************************************************)
EXTENDS Integers, BuildTable

CONSTANTS
    Procs,        \* API requests in flight at the same time
    NoTarget,     \* the build of a request that is not in flight
    Nothing,      \* no content: none asked for, or none read
    MaxAttempts,  \* maxBuildMutationAttempts
    StaleReads    \* whether a GetItem without ConsistentRead may lag behind

ASSUME NotABuild == NoTarget \notin Builds /\ Nothing \notin Contents
ASSUME Attempts == MaxAttempts \in Nat \ {0}
ASSUME Staleness == StaleReads \in BOOLEAN

VARIABLES
    replica,   \* the build items a lagging read answers from
    pc,        \* the DynamoDB call the request makes next
    target,    \* its build
    want,      \* what a create or an update makes the build list
    seen,      \* what the build listed when the request last read it
    left       \* attempts its retry loop has left

tables == <<build, marker, replica>>
locals == <<pc, target, want, seen, left>>
vars == <<build, marker, replica, pc, target, want, seen, left>>

Calls == {"createTx", "updateGet", "updateTx", "updateReread", "deleteGet", "deleteTx"}

TypeOK ==
    /\ TablesOK
    /\ replica \in [Builds -> Contents \cup {Unborn, Gone}]
    /\ pc \in [Procs -> Calls \cup {"idle"}]
    /\ target \in [Procs -> Builds \cup {NoTarget}]
    /\ want \in [Procs -> Contents \cup {Nothing}]
    /\ seen \in [Procs -> Contents \cup {Nothing}]
    /\ left \in [Procs -> 0 .. MaxAttempts]

NoRequests ==
    /\ pc = [p \in Procs |-> "idle"]
    /\ target = [p \in Procs |-> NoTarget]
    /\ want = [p \in Procs |-> Nothing]
    /\ seen = [p \in Procs |-> Nothing]
    /\ left = [p \in Procs |-> MaxAttempts]

Init ==
    /\ build = [b \in Builds |-> Unborn]
    /\ replica = [b \in Builds |-> Unborn]
    /\ marker = [b \in Builds |-> {}]
    /\ NoRequests

-----------------------------------------------------------------------------
(* DynamoDB *)

(* What GetItem without ConsistentRead may return for build b. *)
Reads(b) == IF StaleReads THEN {build[b], replica[b]} ELSE {build[b]}

Replicated == replica' = IF StaleReads THEN replica ELSE build'

(* The lagging copy of b's item catches up. *)
Replicate(b) ==
    /\ replica[b] # build[b]
    /\ replica' = [replica EXCEPT ![b] = build[b]]
    /\ UNCHANGED <<build, marker, locals>>

(* DynamoDB cancels a transaction with TransactionConflict only when       *)
(* another request is at work on the same items.                           *)
Contended(p) == \E q \in Procs \ {p} : pc[q] # "idle" /\ target[q] = target[p]

-----------------------------------------------------------------------------
(* Requests *)

(* The request makes another call. *)
Goto(p, call) ==
    /\ pc' = [pc EXCEPT ![p] = call]
    /\ UNCHANGED <<target, want>>

(* The request ends, whatever it answers, and its local variables with it.  *)
(* A response that is lost leaves no other trace.                           *)
Return(p) ==
    /\ pc' = [pc EXCEPT ![p] = "idle"]
    /\ target' = [target EXCEPT ![p] = NoTarget]
    /\ want' = [want EXCEPT ![p] = Nothing]
    /\ seen' = [seen EXCEPT ![p] = Nothing]
    /\ left' = [left EXCEPT ![p] = MaxAttempts]

Receive(p, b, c, call) ==
    /\ pc[p] = "idle"
    /\ pc' = [pc EXCEPT ![p] = call]
    /\ target' = [target EXCEPT ![p] = b]
    /\ want' = [want EXCEPT ![p] = c]
    /\ UNCHANGED <<build, marker, replica, seen, left>>

(* The handler gives every create an id of its own, and nobody can name a  *)
(* build that was never created.                                           *)
Create(p, b, c) ==
    /\ build[b] = Unborn
    /\ \A q \in Procs : target[q] # b
    /\ Receive(p, b, c, "createTx")
Update(p, b, c) == build[b] # Unborn /\ Receive(p, b, c, "updateGet")
Delete(p, b) == build[b] # Unborn /\ Receive(p, b, Nothing, "deleteGet")

(* Create: the item, if there is none, and a marker for each reference. *)
CreateCommit(p) ==
    /\ pc[p] = "createTx"
    /\ ~CreateRefused(want[p])
    /\ build[target[p]] = Unborn
    /\ WriteCreate(target[p], want[p])
    /\ Replicated
    /\ Return(p)

CreateReject(p) ==
    /\ pc[p] = "createTx"
    /\ CreateRefused(want[p])
    /\ Return(p)
    /\ UNCHANGED tables

(* Mutation of Attempt: a loop without a bound. *)
AttemptUnbounded(p, c, call) ==
    /\ left' = [left EXCEPT ![p] = @ - 1]
    /\ seen' = [seen EXCEPT ![p] = c]
    /\ Goto(p, call)

(* An attempt starts with a read, which the retry of a cancelled           *)
(* transaction makes afresh.                                               *)
Attempt(p, c, call) ==
    /\ left[p] > 0
    /\ left' = [left EXCEPT ![p] = @ - 1]
    /\ seen' = [seen EXCEPT ![p] = c]
    /\ Goto(p, call)

Forget(p, call) ==
    /\ seen' = [seen EXCEPT ![p] = Nothing]
    /\ UNCHANGED left
    /\ Goto(p, call)

(* The top of Update's loop: the current references come from a read. *)
UpdateGet(p) ==
    /\ pc[p] = "updateGet"
    /\ \E c \in Reads(target[p]) :
        \/ c \in Contents /\ Attempt(p, c, "updateTx")
        \/ c \notin Contents /\ left[p] > 0 /\ Return(p)
    /\ UNCHANGED tables

(* Mutation of UpdateCommit: no attribute_exists(id). *)
UpdateCommitUnconditioned(p) ==
    /\ pc[p] = "updateTx"
    /\ ~UpdateRefused(seen[p], want[p])
    /\ WriteUpdate(target[p], seen[p], want[p])
    /\ Replicated
    /\ Forget(p, "updateReread")

(* Update's transaction: the item, on the condition that it exists, and    *)
(* the difference between the markers read and the markers wanted.         *)
UpdateCommit(p) ==
    /\ pc[p] = "updateTx"
    /\ ~UpdateRefused(seen[p], want[p])
    /\ Stored(target[p])
    /\ WriteUpdate(target[p], seen[p], want[p])
    /\ Replicated
    /\ Forget(p, "updateReread")

(* classifyBuildTxConflict: a conflict retries, a missing item is final. *)
UpdateCancel(p) ==
    /\ pc[p] = "updateTx"
    /\ ~UpdateRefused(seen[p], want[p])
    /\ \/ ~Stored(target[p]) /\ Return(p)
       \/ Contended(p) /\ Forget(p, "updateGet")
    /\ UNCHANGED tables

UpdateReject(p) ==
    /\ pc[p] = "updateTx"
    /\ UpdateRefused(seen[p], want[p])
    /\ Return(p)
    /\ UNCHANGED tables

(* The answer to an update is a consistent read after its commit. *)
UpdateReread(p) ==
    /\ pc[p] = "updateReread"
    /\ Return(p)
    /\ UNCHANGED tables

(* The top of Delete's loop: no build is an idempotent success. *)
DeleteGet(p) ==
    /\ pc[p] = "deleteGet"
    /\ \E c \in Reads(target[p]) :
        \/ c \in Contents /\ Attempt(p, c, "deleteTx")
        \/ c \notin Contents /\ left[p] > 0 /\ Return(p)
    /\ UNCHANGED tables

(* Delete's transaction: the item and the markers read, on no condition. *)
DeleteCommit(p) ==
    /\ pc[p] = "deleteTx"
    /\ ~DeleteRefused(seen[p])
    /\ WriteDelete(target[p], seen[p])
    /\ Replicated
    /\ Return(p)

DeleteCancel(p) ==
    /\ pc[p] = "deleteTx"
    /\ ~DeleteRefused(seen[p])
    /\ Contended(p)
    /\ Forget(p, "deleteGet")
    /\ UNCHANGED tables

DeleteReject(p) ==
    /\ pc[p] = "deleteTx"
    /\ DeleteRefused(seen[p])
    /\ Return(p)
    /\ UNCHANGED tables

(* A loop that is out of attempts. *)
GiveUp(p) ==
    /\ pc[p] \in {"updateGet", "deleteGet"}
    /\ left[p] = 0
    /\ Return(p)
    /\ UNCHANGED tables

(* Any call may fail for another reason (a conflict fails a create, which  *)
(* does not retry), and the Lambda may be killed before any call.  Both    *)
(* leave the tables as they were.                                          *)
Fail(p) ==
    /\ pc[p] # "idle"
    /\ Return(p)
    /\ UNCHANGED tables

Step(p) ==
    \/ CreateCommit(p) \/ CreateReject(p)
    \/ UpdateGet(p) \/ UpdateCommit(p) \/ UpdateCancel(p) \/ UpdateReject(p)
    \/ UpdateReread(p)
    \/ DeleteGet(p) \/ DeleteCommit(p) \/ DeleteCancel(p) \/ DeleteReject(p)
    \/ GiveUp(p)

Request(p) ==
    \E b \in Builds :
        \/ Delete(p, b)
        \/ \E c \in Contents : Create(p, b, c) \/ Update(p, b, c)

Next ==
    \/ \E p \in Procs : Request(p) \/ Step(p) \/ Fail(p)
    \/ \E b \in Builds : Replicate(b)

Spec == Init /\ [][Next]_vars

-----------------------------------------------------------------------------
(* Properties *)

(* The next step of p writes b with the markers of a version of b that is  *)
(* no longer the stored one.                                               *)
StaleWrite(b) ==
    \E p \in Procs :
        /\ target[p] = b /\ seen[p] \in Contents
        /\ ~Stored(b) \/ seen[p].refs # build[b].refs
        /\ UpdateCommit(p) \/ DeleteCommit(p)

(* Markers and build come apart in one way only: an update or a delete     *)
(* that commits with the difference from a version other than the stored   *)
(* one.  No create, failed, refused, cancelled or repeated request does it. *)
OnlyStaleDiffDrifts ==
    [][\A b \in Builds : Exact(b) /\ ~StaleWrite(b) => Exact(b)']_vars

(* A deleted build never comes back: an update that lost the race against  *)
(* the delete writes nothing, where a bare UpdateItem would create it.     *)
GoneStaysGone ==
    [][\A b \in Builds : build[b] = Gone => build'[b] = Gone]_vars

(* A build that is gone has no markers: its delete removes them in the     *)
(* same transaction, whatever was updated since it read the build (the     *)
(* comment on Delete).                                                     *)
NoOrphanMarkers == \A b \in Builds : build[b] = Gone => marker[b] = {}

(* Any stored build can be deleted: the transaction that deletes the item  *)
(* with its markers is one that DynamoDB accepts.                          *)
StoredCanBeDeleted == \A b \in Builds : Stored(b) => ~DeleteRefused(build[b])
=============================================================================

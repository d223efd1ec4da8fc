---------------------------- MODULE ProfileClaims ----------------------------
(***************************************************************************)
(* The profile repository: the profile table, the username claim table and *)
(* the requests that write both.                                           *)
(*                                                                         *)
(* A profile item carries its username; an item { username -> user_id } in *)
(* a second table claims it, since a DynamoDB index cannot enforce         *)
(* uniqueness.  Create, rename and delete write both tables in one         *)
(* TransactWriteItems; an update that keeps the username writes the        *)
(* profile item alone.  Every request is a process of its own (a Lambda    *)
(* invocation): it reads the profile, then writes, and anything may happen *)
(* between the two.                                                        *)
(***************************************************************************)
EXTENDS Integers, FiniteSets

CONSTANTS
    Users,        \* subjects of the identity provider
    Names,        \* usernames
    Procs,        \* API requests in flight at the same time
    NoUser,       \* the claim table has no item for this name
    NoName,       \* the profile table has no item for this user
    MaxAttempts,  \* maxProfileMutationAttempts
    MaxPerUser,   \* bound: requests one user has in flight at the same time
    StaleReads    \* whether a GetItem without ConsistentRead may lag behind

ASSUME Distinct == NoUser \notin Users /\ NoName \notin Names
ASSUME Bounds == MaxAttempts \in Nat \ {0} /\ MaxPerUser \in Nat \ {0}
ASSUME Staleness == StaleReads \in BOOLEAN

VARIABLES
    (***********************************************************************)
    (* The two tables                                                      *)
    (***********************************************************************)
    profile,   \* the username attribute of each user's item, or NoName
    replica,   \* the copy of the profile table a lagging read answers from
    claim,     \* user_id of each name's item, or NoUser
    (***********************************************************************)
    (* One request per process                                             *)
    (***********************************************************************)
    pc,        \* the DynamoDB call the request makes next
    user,      \* its caller
    name,      \* the username in its body (NoName for a delete)
    read,      \* the username it last read from the caller's item
    left,      \* attempts its retry loop has left
    answer     \* what the last step returned to its client, if it did

tables == <<profile, replica, claim>>
vars == <<profile, replica, claim, pc, user, name, read, left, answer>>

Calls == {"createTx", "updateGet", "updateItem", "renameGet", "renameTx",
          "renameReread", "deleteGet", "deleteTx"}

Answers == {"none", "ok", "alreadyExists", "usernameTaken", "notFound",
            "mutationConflict", "error"}

TypeOK ==
    /\ profile \in [Users -> Names \cup {NoName}]
    /\ replica \in [Users -> Names \cup {NoName}]
    /\ claim \in [Names -> Users \cup {NoUser}]
    /\ pc \in [Procs -> Calls \cup {"idle"}]
    /\ user \in [Procs -> Users \cup {NoUser}]
    /\ name \in [Procs -> Names \cup {NoName}]
    /\ read \in [Procs -> Names \cup {NoName}]
    /\ left \in [Procs -> 0 .. MaxAttempts]
    /\ answer \in Answers

Init ==
    /\ profile = [u \in Users |-> NoName]
    /\ replica = [u \in Users |-> NoName]
    /\ claim = [n \in Names |-> NoUser]
    /\ pc = [p \in Procs |-> "idle"]
    /\ user = [p \in Procs |-> NoUser]
    /\ name = [p \in Procs |-> NoName]
    /\ read = [p \in Procs |-> NoName]
    /\ left = [p \in Procs |-> MaxAttempts]
    /\ answer = "none"

-----------------------------------------------------------------------------
(* DynamoDB *)

(* What GetItem without ConsistentRead may return for user u. *)
Reads(u) == IF StaleReads THEN {profile[u], replica[u]} ELSE {profile[u]}

WriteProfile(u, n) ==
    /\ profile' = [profile EXCEPT ![u] = n]
    /\ replica' = IF StaleReads THEN replica ELSE profile'

(* The lagging copy of u's item catches up. *)
Replicate(u) ==
    /\ replica[u] # profile[u]
    /\ replica' = [replica EXCEPT ![u] = profile[u]]
    /\ answer' = "none"
    /\ UNCHANGED <<profile, claim, pc, user, name, read, left>>

(* The requests of u that have not returned. *)
InFlight(u) == {p \in Procs : pc[p] # "idle" /\ user[p] = u}

(* DynamoDB cancels a transaction with TransactionConflict only when       *)
(* another request is at work, and lays it to the profile item only when   *)
(* that is a request of the same user.                                     *)
Contended(p) == \E q \in Procs \ {p} : pc[q] # "idle"
ProfileContended(p) == InFlight(user[p]) \ {p} # {}

-----------------------------------------------------------------------------
(* Requests *)

(* The request makes another call; what it knows does not change. *)
Goto(p, call) ==
    /\ pc' = [pc EXCEPT ![p] = call]
    /\ answer' = "none"
    /\ UNCHANGED <<user, name>>

(* The request ends with this result, and its local variables with it. *)
Return(p, result) ==
    /\ pc' = [pc EXCEPT ![p] = "idle"]
    /\ user' = [user EXCEPT ![p] = NoUser]
    /\ name' = [name EXCEPT ![p] = NoName]
    /\ read' = [read EXCEPT ![p] = NoName]
    /\ left' = [left EXCEPT ![p] = MaxAttempts]
    /\ answer' = result

(* A write that took effect answers ok, unless its response was lost. *)
ReturnWritten(p) == Return(p, "ok") \/ Return(p, "error")

(* A request arrives and goes straight to its first DynamoDB call. *)
Receive(p, u, n, call) ==
    /\ pc[p] = "idle"
    /\ Cardinality(InFlight(u)) < MaxPerUser
    /\ pc' = [pc EXCEPT ![p] = call]
    /\ user' = [user EXCEPT ![p] = u]
    /\ name' = [name EXCEPT ![p] = n]
    /\ answer' = "none"
    /\ UNCHANGED <<profile, replica, claim, read, left>>

Create(p, u, n) == Receive(p, u, n, "createTx")
Update(p, u, n) == Receive(p, u, n, "updateGet")
Delete(p, u) == Receive(p, u, NoName, "deleteGet")

(* Create: [profilePut if the user has none, claimPut if the name is free]. *)
CreateCommit(p) ==
    /\ pc[p] = "createTx"
    /\ profile[user[p]] = NoName
    /\ claim[name[p]] = NoUser
    /\ WriteProfile(user[p], name[p])
    /\ claim' = [claim EXCEPT ![name[p]] = user[p]]
    /\ ReturnWritten(p)

(* Mutation of CreateCancel: the claim's condition is looked at first. *)
CreateCancelClaimFirst(p) ==
    /\ pc[p] = "createTx"
    /\ \/ claim[name[p]] # NoUser /\ Return(p, "usernameTaken")
       \/ /\ claim[name[p]] = NoUser
          /\ profile[user[p]] # NoName
          /\ Return(p, "alreadyExists")
       \/ Contended(p) /\ Return(p, "mutationConflict")
    /\ UNCHANGED tables

(* mapProfileCreateConflict: a profile that exists already goes first, but *)
(* a profile item that another transaction holds fails no condition.       *)
CreateCancel(p) ==
    /\ pc[p] = "createTx"
    /\ \/ /\ profile[user[p]] # NoName
          /\ Return(p, "alreadyExists")
       \/ /\ profile[user[p]] = NoName \/ ProfileContended(p)
          /\ claim[name[p]] # NoUser
          /\ Return(p, "usernameTaken")
       \/ /\ Contended(p)
          /\ Return(p, "mutationConflict")
    /\ UNCHANGED tables

(* Update reads the profile once, to tell a rename from a plain update. *)
UpdateGet(p) ==
    /\ pc[p] = "updateGet"
    /\ \E existing \in Reads(user[p]) :
        \/ existing = NoName /\ Return(p, "notFound")
        \/ existing = name[p] /\ Goto(p, "updateItem") /\ UNCHANGED <<read, left>>
        \/ /\ existing \notin {NoName, name[p]}
           /\ Goto(p, "renameGet")
           /\ UNCHANGED <<read, left>>
    /\ UNCHANGED tables

(* updateProfileItem: one UpdateItem that sets the username with the other *)
(* fields, on the condition that the item exists.                          *)
UpdateItem(p) ==
    /\ pc[p] = "updateItem"
    /\ \/ /\ profile[user[p]] # NoName
          /\ WriteProfile(user[p], name[p])
          /\ ReturnWritten(p)
       \/ /\ profile[user[p]] = NoName
          /\ Return(p, "notFound")
          /\ UNCHANGED <<profile, replica>>
    /\ UNCHANGED claim

(* A retry loop spends an attempt on the name it read, and goes back to a  *)
(* fresh read when its transaction is cancelled.                           *)
Attempt(p, existing, call) ==
    /\ read' = [read EXCEPT ![p] = existing]
    /\ left' = [left EXCEPT ![p] = @ - 1]
    /\ Goto(p, call)

Reread(p, call) ==
    /\ read' = [read EXCEPT ![p] = NoName]
    /\ UNCHANGED left
    /\ Goto(p, call)

(* Mutation of RenameGet: a loop without a bound. *)
RenameGetUnbounded(p) ==
    /\ pc[p] = "renameGet"
    /\ \E existing \in Reads(user[p]) :
        \/ existing = NoName /\ Return(p, "notFound")
        \/ existing = name[p] /\ Attempt(p, NoName, "updateItem")
        \/ existing \notin {NoName, name[p]} /\ Attempt(p, existing, "renameTx")
    /\ UNCHANGED tables

(* The top of renameProfile's loop: an attempt starts with a fresh read.   *)
(* A concurrent rename may have made the update a plain one.               *)
RenameGet(p) ==
    /\ pc[p] = "renameGet"
    /\ left[p] > 0
    /\ \E existing \in Reads(user[p]) :
        \/ existing = NoName /\ Return(p, "notFound")
        \/ existing = name[p] /\ Attempt(p, NoName, "updateItem")
        \/ existing \notin {NoName, name[p]} /\ Attempt(p, existing, "renameTx")
    /\ UNCHANGED tables

(* Mutation of RenameCommit: the old claim is deleted whoever holds it. *)
RenameCommitAnyClaim(p) ==
    /\ pc[p] = "renameTx"
    /\ profile[user[p]] # NoName
    /\ claim[name[p]] = NoUser
    /\ WriteProfile(user[p], name[p])
    /\ claim' = [claim EXCEPT ![read[p]] = NoUser, ![name[p]] = user[p]]
    /\ Reread(p, "renameReread")

(* Mutation of RenameCommit: the claims move and the profile item does not. *)
RenameCommitClaimsOnly(p) ==
    /\ pc[p] = "renameTx"
    /\ profile[user[p]] # NoName
    /\ claim[read[p]] = user[p]
    /\ claim[name[p]] = NoUser
    /\ claim' = [claim EXCEPT ![read[p]] = NoUser, ![name[p]] = user[p]]
    /\ UNCHANGED <<profile, replica>>
    /\ Reread(p, "renameReread")

(* renameProfile: [profileUpdate if the item exists, claimDelete of the    *)
(* name read if it is the caller's, claimPut of the new name if free].     *)
RenameCommit(p) ==
    /\ pc[p] = "renameTx"
    /\ profile[user[p]] # NoName
    /\ claim[read[p]] = user[p]
    /\ claim[name[p]] = NoUser
    /\ WriteProfile(user[p], name[p])
    /\ claim' = [claim EXCEPT ![read[p]] = NoUser, ![name[p]] = user[p]]
    /\ Reread(p, "renameReread")

(* classifyProfileRenameConflict: a conflict goes first, then a taken name, *)
(* a profile that is gone and a claim that moved.                          *)
RenameCancel(p) ==
    /\ pc[p] = "renameTx"
    /\ \/ claim[name[p]] # NoUser /\ Return(p, "usernameTaken")
       \/ /\ claim[name[p]] = NoUser
          /\ profile[user[p]] = NoName
          /\ Return(p, "notFound")
       \/ /\ \/ /\ claim[name[p]] = NoUser
                /\ profile[user[p]] # NoName
                /\ claim[read[p]] # user[p]
             \/ Contended(p)
          /\ Reread(p, "renameGet")
    /\ UNCHANGED tables

(* After its commit a rename answers with one more read of the profile. *)
RenameReread(p) ==
    /\ pc[p] = "renameReread"
    /\ \E existing \in Reads(user[p]) :
        Return(p, IF existing = NoName THEN "notFound" ELSE "ok")
    /\ UNCHANGED tables

(* The top of Delete's loop: no profile is an idempotent success. *)
DeleteGet(p) ==
    /\ pc[p] = "deleteGet"
    /\ left[p] > 0
    /\ \E existing \in Reads(user[p]) :
        \/ existing = NoName /\ Return(p, "ok")
        \/ existing # NoName /\ Attempt(p, existing, "deleteTx")
    /\ UNCHANGED tables

(* Mutation of DeleteCommit: the claim's owner is not checked, so a name     *)
(* that moved since the read leaves the caller's own claim behind.         *)
DeleteCommitAnyClaim(p) ==
    /\ pc[p] = "deleteTx"
    /\ profile[user[p]] # NoName
    /\ WriteProfile(user[p], NoName)
    /\ claim' = [claim EXCEPT ![read[p]] = NoUser]
    /\ ReturnWritten(p)

(* Delete: [profile if it exists, claim of the name read if the caller's]. *)
DeleteCommit(p) ==
    /\ pc[p] = "deleteTx"
    /\ profile[user[p]] # NoName
    /\ claim[read[p]] = user[p]
    /\ WriteProfile(user[p], NoName)
    /\ claim' = [claim EXCEPT ![read[p]] = NoUser]
    /\ ReturnWritten(p)

(* profileDeleteShouldRetry: a failed condition or a conflict. *)
DeleteCancel(p) ==
    /\ pc[p] = "deleteTx"
    /\ \/ profile[user[p]] = NoName
       \/ claim[read[p]] # user[p]
       \/ Contended(p)
    /\ Reread(p, "deleteGet")
    /\ UNCHANGED tables

(* A loop that is out of attempts. *)
GiveUp(p) ==
    /\ pc[p] \in {"renameGet", "deleteGet"}
    /\ left[p] = 0
    /\ Return(p, "mutationConflict")
    /\ UNCHANGED tables

(* Any call may fail for another reason (throttling, a lost connection),   *)
(* which the request returns as it is, and the Lambda may be killed before *)
(* any call.  Both leave the tables as they were.                          *)
Fail(p) ==
    /\ pc[p] # "idle"
    /\ Return(p, "error")
    /\ UNCHANGED tables

Step(p) ==
    \/ CreateCommit(p) \/ CreateCancel(p)
    \/ UpdateGet(p) \/ UpdateItem(p)
    \/ RenameGet(p) \/ RenameCommit(p) \/ RenameCancel(p) \/ RenameReread(p)
    \/ DeleteGet(p) \/ DeleteCommit(p) \/ DeleteCancel(p)
    \/ GiveUp(p)

Request(p) ==
    \E u \in Users :
        \/ Delete(p, u)
        \/ \E n \in Names : Create(p, u, n) \/ Update(p, u, n)

Next ==
    \/ \E p \in Procs : Request(p) \/ Step(p) \/ Fail(p)
    \/ \E u \in Users : Replicate(u)

Spec == Init /\ [][Next]_vars

-----------------------------------------------------------------------------
(* Properties *)

(* The names that are claimed for u. *)
Held(u) == {n \in Names : claim[n] = u}

(* A user with a profile holds exactly one username claim and a user       *)
(* without one holds none, whatever requests of theirs race, are cancelled *)
(* or die: the three transactions and their conditions move claims in one  *)
(* piece.                                                                  *)
OneClaimEach ==
    /\ \A u \in Users : profile[u] # NoName <=> Held(u) # {}
    /\ \A u \in Users, m, n \in Names : {m, n} \subseteq Held(u) => m = n

(* The claim table and the set of profile items behave as the registry of  *)
(* UsernameRegistry: no race takes a name from its holder, gives a user a  *)
(* second one, or leaves a name claimed by a user who is gone.             *)
Registry == INSTANCE UsernameRegistry WITH
    holder <- claim, member <- {u \in Users : profile[u] # NoName}
ImplementsRegistry == Registry!RSpec

(* The username of u's profile is claimed for u. *)
InSync(u) == profile[u] # NoName => claim[profile[u]] = u

(* Only one step can part a profile from its claim: updateProfileItem      *)
(* writing a username that is no longer the stored one, because a rename   *)
(* of the same profile committed after the read that chose the plain       *)
(* update.                                                                 *)
LateUpdate(u) ==
    \E p \in Procs : user[p] = u /\ name[p] # profile[u] /\ UpdateItem(p)
OnlyLateUpdateParts ==
    [][\A u \in Users : InSync(u) /\ ~LateUpdate(u) => InSync(u)']_vars

(* A create is told that the username is taken when somebody else holds    *)
(* it.  A create that is repeated is told that the profile exists: only    *)
(* while another request of the same user is in flight can it hear that    *)
(* its own name is taken.                                                  *)
CreateTakenBySomeoneElse ==
    [][\A p \in Procs :
        pc[p] = "createTx" /\ pc'[p] = "idle" /\ answer' = "usernameTaken"
            => /\ claim[name[p]] # NoUser
               /\ claim[name[p]] = user[p] => ProfileContended(p)]_vars

(* No two profiles carry the same username: what the claim items are for   *)
(* (the comment on ProfileRepository).                                     *)
UsernamesUnique ==
    \A u, v \in Users : profile[u] = profile[v] /\ profile[u] # NoName => u = v
=============================================================================

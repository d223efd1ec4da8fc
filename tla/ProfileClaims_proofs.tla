------------------------ MODULE ProfileClaims_proofs ------------------------
(***************************************************************************)
(* Proofs about ProfileClaims, for any sets of users, names and requests,  *)
(* any number of attempts and with or without lagging reads.               *)
(***************************************************************************)
EXTENDS ProfileClaims, TLAPS

(* What a request in flight knows: its caller is a user, a create or an    *)
(* update carries a username, and a transaction that deletes a claim read  *)
(* its name from an item that existed.                                     *)
RequestInv ==
    \A p \in Procs :
        /\ pc[p] # "idle" => user[p] \in Users
        /\ pc[p] \notin {"idle", "deleteGet", "deleteTx"} => name[p] \in Names
        /\ pc[p] \in {"renameTx", "deleteTx"} => read[p] \in Names

-----------------------------------------------------------------------------
(* Type correctness *)

LEMMA WriteProfileType ==
    ASSUME TypeOK, NEW u \in Users, NEW n \in Names \cup {NoName}, WriteProfile(u, n)
    PROVE  /\ profile' \in [Users -> Names \cup {NoName}]
           /\ replica' \in [Users -> Names \cup {NoName}]
BY DEF TypeOK, WriteProfile

(* A step that only moves a request along, or ends it, keeps the request's *)
(* variables typed.                                                        *)
LEMMA ReturnType ==
    ASSUME TypeOK, NEW p \in Procs, NEW r \in Answers, Return(p, r)
    PROVE  /\ pc' \in [Procs -> Calls \cup {"idle"}]
           /\ user' \in [Procs -> Users \cup {NoUser}]
           /\ name' \in [Procs -> Names \cup {NoName}]
           /\ read' \in [Procs -> Names \cup {NoName}]
           /\ left' \in [Procs -> 0 .. MaxAttempts]
           /\ answer' \in Answers
BY Bounds DEF TypeOK, Return

LEMMA ReturnRequestInv ==
    ASSUME TypeOK, RequestInv, NEW p \in Procs, NEW r, Return(p, r)
    PROVE  RequestInv'
BY DEF TypeOK, RequestInv, Return

(* A request that goes on to a call for which it knows enough. *)
LEMMA GotoType ==
    ASSUME TypeOK, NEW p \in Procs, NEW c \in Calls, Goto(p, c)
    PROVE  /\ pc' \in [Procs -> Calls \cup {"idle"}]
           /\ user' \in [Procs -> Users \cup {NoUser}]
           /\ name' \in [Procs -> Names \cup {NoName}]
           /\ answer' \in Answers
BY DEF TypeOK, Goto, Answers

(* What a step of p does to the variables of the requests: it ends p, or   *)
(* moves it to a call it is ready for.                                     *)
Ready(p, c) ==
    /\ c \in Calls
    /\ pc[p] # "idle"
    /\ c \notin {"deleteGet", "deleteTx"} => pc[p] \notin {"deleteGet", "deleteTx"}
    /\ pc'[p] = c /\ Goto(p, c)
    /\ \/ UNCHANGED read /\ c \notin {"renameTx", "deleteTx"}
       \/ \E m \in Names \cup {NoName} :
            /\ read' = [read EXCEPT ![p] = m]
            /\ c \in {"renameTx", "deleteTx"} => m \in Names
    /\ \/ UNCHANGED left
       \/ left[p] > 0 /\ left' = [left EXCEPT ![p] = @ - 1]

LEMMA RequestKept ==
    ASSUME TypeOK, RequestInv, NEW p \in Procs,
           \/ \E r \in Answers : Return(p, r)
           \/ \E c \in Calls : Ready(p, c)
    PROVE  /\ pc' \in [Procs -> Calls \cup {"idle"}]
           /\ user' \in [Procs -> Users \cup {NoUser}]
           /\ name' \in [Procs -> Names \cup {NoName}]
           /\ read' \in [Procs -> Names \cup {NoName}]
           /\ left' \in [Procs -> 0 .. MaxAttempts]
           /\ answer' \in Answers
           /\ RequestInv'
<1>1. CASE \E r \in Answers : Return(p, r)
  BY <1>1, ReturnType, ReturnRequestInv
<1>2. CASE \E c \in Calls : Ready(p, c)
  <2>1. PICK c \in Calls : Ready(p, c)
    BY <1>2
  <2>2. Goto(p, c)
    BY <2>1 DEF Ready
  <2>3. read' \in [Procs -> Names \cup {NoName}]
    BY <2>1 DEF Ready, TypeOK
  <2>4. left' \in [Procs -> 0 .. MaxAttempts]
    BY <2>1, Bounds DEF Ready, TypeOK
  <2>5. RequestInv'
    BY <2>1, <2>2 DEF Ready, Goto, TypeOK, RequestInv
  <2> QED
    BY <2>2, <2>3, <2>4, <2>5, GotoType
<1> QED
  BY <1>1, <1>2

LEMMA ReadsType ==
    ASSUME TypeOK, NEW u \in Users
    PROVE  Reads(u) \subseteq Names \cup {NoName}
BY DEF TypeOK, Reads

(* What a step of a request does to its own variables. *)
LEMMA StepOfRequest ==
    ASSUME TypeOK, RequestInv, NEW p \in Procs, Step(p) \/ Fail(p)
    PROVE  \/ \E r \in Answers : Return(p, r)
           \/ \E c \in Calls : Ready(p, c)
<1> USE DEF Answers, Calls
<1>1. CASE CreateCommit(p) \/ CreateCancel(p) \/ UpdateItem(p)
  BY <1>1 DEF CreateCommit, CreateCancel, UpdateItem, ReturnWritten
<1>2. CASE DeleteCommit(p) \/ GiveUp(p) \/ Fail(p) \/ RenameReread(p)
  BY <1>2 DEF DeleteCommit, GiveUp, Fail, RenameReread, ReturnWritten
<1>3. CASE UpdateGet(p)
  BY <1>3 DEF UpdateGet, Ready, Goto, TypeOK
<1>4. CASE RenameGet(p)
  <2>1. user[p] \in Users /\ Reads(user[p]) \subseteq Names \cup {NoName}
    BY <1>4, ReadsType DEF RenameGet, RequestInv
  <2> QED
    BY <1>4, <2>1 DEF RenameGet, Attempt, Ready, Goto, TypeOK
<1>5. CASE RenameCommit(p) \/ RenameCancel(p)
  BY <1>5 DEF RenameCommit, RenameCancel, Reread, Ready, Goto, TypeOK
<1>6. CASE DeleteGet(p)
  <2>1. user[p] \in Users /\ Reads(user[p]) \subseteq Names \cup {NoName}
    BY <1>6, ReadsType DEF DeleteGet, RequestInv
  <2> QED
    BY <1>6, <2>1 DEF DeleteGet, Attempt, Ready, Goto, TypeOK
<1>7. CASE DeleteCancel(p)
  BY <1>7 DEF DeleteCancel, Reread, Ready, Goto, TypeOK
<1> QED
  BY <1>1, <1>2, <1>3, <1>4, <1>5, <1>6, <1>7 DEF Step

-----------------------------------------------------------------------------
(* What a step does to the tables *)

Creates(u, n) ==
    /\ profile[u] = NoName
    /\ claim[n] = NoUser
    /\ WriteProfile(u, n)
    /\ claim' = [claim EXCEPT ![n] = u]

Renames(u, m, n) ==
    /\ profile[u] # NoName
    /\ claim[m] = u
    /\ claim[n] = NoUser
    /\ WriteProfile(u, n)
    /\ claim' = [claim EXCEPT ![m] = NoUser, ![n] = u]

Deletes(u, m) ==
    /\ profile[u] # NoName
    /\ claim[m] = u
    /\ WriteProfile(u, NoName)
    /\ claim' = [claim EXCEPT ![m] = NoUser]

Rewrites(u, n) ==
    /\ profile[u] # NoName
    /\ \E p \in Procs : user[p] = u /\ name[p] = n /\ UpdateItem(p)
    /\ WriteProfile(u, n)
    /\ UNCHANGED claim

(* Every step leaves both tables alone or is one of these four. *)
TableStep ==
    \E u \in Users, m, n \in Names :
        Creates(u, n) \/ Renames(u, m, n) \/ Deletes(u, m) \/ Rewrites(u, n)

LEMMA StepEffect ==
    ASSUME TypeOK, RequestInv, NEW p \in Procs, Step(p) \/ Fail(p)
    PROVE  TableStep \/ UNCHANGED tables
<1>1. CASE CreateCommit(p)
  BY <1>1 DEF CreateCommit, RequestInv, TableStep, Creates
<1>2. CASE UpdateItem(p) /\ profile[user[p]] # NoName
  BY <1>2 DEF UpdateItem, RequestInv, TableStep, Rewrites
<1>3. CASE RenameCommit(p)
  BY <1>3 DEF RenameCommit, RequestInv, TableStep, Renames
<1>4. CASE DeleteCommit(p)
  BY <1>4 DEF DeleteCommit, RequestInv, TableStep, Deletes
<1>5. CASE UpdateItem(p) /\ profile[user[p]] = NoName
  BY <1>5 DEF UpdateItem, tables
<1>6. CASE \/ CreateCancel(p) \/ UpdateGet(p) \/ RenameGet(p) \/ RenameCancel(p)
           \/ RenameReread(p) \/ DeleteGet(p) \/ DeleteCancel(p)
           \/ GiveUp(p) \/ Fail(p)
  BY <1>6 DEF CreateCancel, UpdateGet, RenameGet, RenameCancel, RenameReread,
              DeleteGet, DeleteCancel, GiveUp, Fail
<1> QED
  BY <1>1, <1>2, <1>3, <1>4, <1>5, <1>6 DEF Step

LEMMA TablesType ==
    ASSUME TypeOK, TableStep \/ UNCHANGED tables
    PROVE  /\ profile' \in [Users -> Names \cup {NoName}]
           /\ replica' \in [Users -> Names \cup {NoName}]
           /\ claim' \in [Names -> Users \cup {NoUser}]
<1>1. CASE UNCHANGED tables
  BY <1>1 DEF TypeOK, tables
<1>2. CASE TableStep
  BY <1>2 DEF TypeOK, TableStep, Creates, Renames, Deletes, Rewrites, WriteProfile
<1> QED
  BY <1>1, <1>2

(* The rest of Next: a request arrives, the replica catches up, a stutter. *)
LEMMA OtherSteps ==
    ASSUME TypeOK, RequestInv,
           \/ \E p \in Procs : Request(p)
           \/ \E u \in Users : Replicate(u)
           \/ UNCHANGED vars
    PROVE  TypeOK' /\ RequestInv' /\ UNCHANGED <<profile, claim>>
<1>1. ASSUME NEW p \in Procs, NEW u \in Users, NEW n \in Names \cup {NoName},
             NEW c \in {"createTx", "updateGet", "deleteGet"},
             c # "deleteGet" => n \in Names, Receive(p, u, n, c)
      PROVE  TypeOK' /\ RequestInv' /\ UNCHANGED <<profile, claim>>
  BY <1>1 DEF TypeOK, RequestInv, Receive, Calls, Answers
<1>2. CASE \E p \in Procs : Request(p)
  BY <1>1, <1>2 DEF Request, Create, Update, Delete
<1>3. CASE \E u \in Users : Replicate(u)
  BY <1>3 DEF TypeOK, RequestInv, Replicate, Answers
<1>4. CASE UNCHANGED vars
  BY <1>4 DEF vars, TypeOK, RequestInv
<1> QED
  BY <1>2, <1>3, <1>4

(* Every variable has its type in every reachable state, and a request     *)
(* knows what its next call needs.                                         *)
LEMMA TypeInductive ==
    ASSUME TypeOK, RequestInv, [Next]_vars
    PROVE  TypeOK' /\ RequestInv'
<1>1. ASSUME NEW p \in Procs, Step(p) \/ Fail(p)
      PROVE  TypeOK' /\ RequestInv'
  BY <1>1, StepOfRequest, RequestKept, StepEffect, TablesType DEF TypeOK
<1> QED
  BY <1>1, OtherSteps DEF Next

LEMMA TypeInitial == Init => TypeOK /\ RequestInv
BY Bounds DEF Init, TypeOK, RequestInv, Answers

(* Every variable has its type in every reachable state, and a request     *)
(* never reaches a call of the repository without what the call needs.     *)
THEOREM TypeCorrect == Spec => [](TypeOK /\ RequestInv)
<1>1. TypeOK /\ RequestInv /\ [Next]_vars => TypeOK' /\ RequestInv'
  BY TypeInductive
<1> QED
  BY <1>1, TypeInitial, PTL DEF Spec

-----------------------------------------------------------------------------
(* One claim each *)

LEMMA EveryStep ==
    ASSUME TypeOK, RequestInv, [Next]_vars
    PROVE  TableStep \/ UNCHANGED <<profile, claim>>
BY StepEffect, OtherSteps DEF Next, tables

LEMMA OneClaimKept ==
    ASSUME TypeOK, OneClaimEach, TableStep
    PROVE  OneClaimEach'
<1>1. PICK u \in Users, m \in Names, n \in Names :
        Creates(u, n) \/ Renames(u, m, n) \/ Deletes(u, m) \/ Rewrites(u, n)
  BY DEF TableStep
<1> USE Distinct DEF TypeOK, OneClaimEach, Held, WriteProfile
<1>2. CASE Creates(u, n)
  BY <1>2 DEF Creates
<1>3. CASE Renames(u, m, n)
  BY <1>3 DEF Renames
<1>4. CASE Deletes(u, m)
  BY <1>4 DEF Deletes
<1>5. CASE Rewrites(u, n)
  BY <1>5 DEF Rewrites
<1> QED
  BY <1>1, <1>2, <1>3, <1>4, <1>5

(* A user with a profile holds exactly one username claim and a user       *)
(* without one holds none, for any number of users, names and requests.    *)
THEOREM OneClaim == Spec => []OneClaimEach
<1>1. Init => OneClaimEach
  BY Distinct DEF Init, OneClaimEach, Held
<1>2. TypeOK /\ RequestInv /\ OneClaimEach /\ [Next]_vars => OneClaimEach'
  BY OneClaimKept, EveryStep DEF OneClaimEach, Held
<1> QED
  BY <1>1, <1>2, TypeCorrect, PTL DEF Spec

-----------------------------------------------------------------------------
(* The repository implements the registry *)

LEMMA TableStepRefines ==
    ASSUME TypeOK, OneClaimEach, TableStep
    PROVE  [Registry!RNext]_(Registry!registry)
<1> DEFINE members == {u \in Users : profile[u] # NoName}
<1>1. PICK u \in Users, m \in Names, n \in Names :
        Creates(u, n) \/ Renames(u, m, n) \/ Deletes(u, m) \/ Rewrites(u, n)
  BY DEF TableStep
<1> USE Distinct DEF TypeOK, WriteProfile
<1>2. CASE Creates(u, n)
  <2>1. u \notin members /\ members' = members \cup {u}
    BY <1>2 DEF Creates
  <2> QED
    BY <1>2, <2>1 DEF Creates, Registry!Register, Registry!RNext, Registry!registry
<1>3. CASE Renames(u, m, n)
  <2>1. u \in members /\ members' = members
    BY <1>3 DEF Renames
  <2> QED
    BY <1>3, <2>1 DEF Renames, Registry!Move, Registry!RNext, Registry!registry
<1>4. CASE Deletes(u, m)
  <2>1. u \in members /\ members' = members \ {u}
    BY <1>4 DEF Deletes
  <2> QED
    BY <1>4, <2>1 DEF Deletes, Registry!Release, Registry!RNext, Registry!registry
<1>5. CASE Rewrites(u, n)
  <2>1. members' = members
    BY <1>5 DEF Rewrites
  <2> QED
    BY <1>5, <2>1 DEF Rewrites, Registry!registry
<1> QED
  BY <1>1, <1>2, <1>3, <1>4, <1>5

(* The two tables implement the abstract registry: every request, however  *)
(* it interleaves with others, changes who holds which name as one         *)
(* registration, one move, one release, or not at all.                     *)
THEOREM Refinement == Spec => ImplementsRegistry
<1>1. Init => Registry!RInit
  BY DEF Init, Registry!RInit
<1>2. TypeOK /\ RequestInv /\ OneClaimEach /\ [Next]_vars
        => [Registry!RNext]_(Registry!registry)
  BY EveryStep, TableStepRefines DEF Registry!registry
<1> QED
  BY <1>1, <1>2, TypeCorrect, OneClaim, PTL DEF Spec, ImplementsRegistry, Registry!RSpec

-----------------------------------------------------------------------------
(* Only a late plain update parts a profile from its claim *)

(* A profile and the claim of its username part only in the step of a      *)
(* plain update whose username a rename has replaced since it was read.    *)
THEOREM OnlyLateUpdate == Spec => OnlyLateUpdateParts
<1>1. ASSUME TypeOK, RequestInv, OneClaimEach, [Next]_vars, NEW v \in Users,
             InSync(v), ~LateUpdate(v)
      PROVE  InSync(v)'
  <2>1. CASE UNCHANGED <<profile, claim>>
    BY <1>1, <2>1 DEF InSync
  <2>2. CASE TableStep
    <3>1. PICK u \in Users, m \in Names, n \in Names :
            Creates(u, n) \/ Renames(u, m, n) \/ Deletes(u, m) \/ Rewrites(u, n)
      BY <2>2 DEF TableStep
    <3> USE <1>1, Distinct DEF TypeOK, WriteProfile, InSync
    <3>2. CASE Creates(u, n)
      BY <3>2 DEF Creates
    <3>3. CASE Renames(u, m, n)
      BY <3>3 DEF Renames
    <3>4. CASE Deletes(u, m)
      BY <3>4 DEF Deletes
    <3>5. CASE Rewrites(u, n)
      BY <3>5 DEF Rewrites, LateUpdate
    <3> QED
      BY <3>1, <3>2, <3>3, <3>4, <3>5
  <2> QED
    BY <1>1, <2>1, <2>2, EveryStep
<1>2. TypeOK /\ RequestInv /\ OneClaimEach /\ [Next]_vars
        => [\A u \in Users : InSync(u) /\ ~LateUpdate(u) => InSync(u)']_vars
  BY <1>1
<1> QED
  BY <1>2, TypeCorrect, OneClaim, PTL DEF Spec, OnlyLateUpdateParts

-----------------------------------------------------------------------------
(* Only somebody else's name is taken *)

(* A step that ends a create with "the username is taken" is its own.      *)
LEMMA TakenIsCancel ==
    ASSUME TypeOK, [Next]_vars, NEW p \in Procs,
           pc[p] = "createTx", pc'[p] = "idle", answer' = "usernameTaken"
    PROVE  /\ profile[user[p]] = NoName \/ ProfileContended(p)
           /\ claim[name[p]] # NoUser
<1>1. ASSUME NEW q \in Procs, q # p, Step(q) \/ Fail(q)
      PROVE  pc'[p] = pc[p]
  <2> USE <1>1 DEF TypeOK, Goto, Return, ReturnWritten, Attempt, Reread
  <2>1. CASE CreateCommit(q) \/ CreateCancel(q) \/ UpdateGet(q) \/ UpdateItem(q)
    BY <2>1 DEF CreateCommit, CreateCancel, UpdateGet, UpdateItem
  <2>2. CASE RenameGet(q) \/ RenameCommit(q) \/ RenameCancel(q) \/ RenameReread(q)
    BY <2>2 DEF RenameGet, RenameCommit, RenameCancel, RenameReread
  <2>3. CASE DeleteGet(q) \/ DeleteCommit(q) \/ DeleteCancel(q) \/ GiveUp(q) \/ Fail(q)
    BY <2>3 DEF DeleteGet, DeleteCommit, DeleteCancel, GiveUp, Fail
  <2> QED
    BY <2>1, <2>2, <2>3 DEF Step
<1>2. ASSUME NEW q \in Procs, Request(q)
      PROVE  FALSE
  BY <1>2 DEF Request, Create, Update, Delete, Receive
<1>3. ASSUME NEW u \in Users, Replicate(u)
      PROVE  FALSE
  BY <1>3 DEF Replicate
<1>4. Step(p) \/ Fail(p)
  BY <1>1, <1>2, <1>3 DEF Next, vars
<1>5. CreateCommit(p) \/ CreateCancel(p) \/ Fail(p)
  BY <1>4 DEF Step, UpdateGet, UpdateItem, RenameGet, RenameCommit, RenameCancel, RenameReread,
              DeleteGet, DeleteCommit, DeleteCancel, GiveUp
<1> QED
  BY <1>5 DEF CreateCommit, CreateCancel, Fail, Return, ReturnWritten

(* Create, with the SDK's retries: a name that is taken is another user's, *)
(* unless the caller has another request at work, whose transaction may    *)
(* hold the profile so that only the claim's condition fails.              *)
THEOREM TakenBySomeoneElse == Spec => CreateTakenBySomeoneElse
<1> DEFINE Taken ==
        \A p \in Procs :
            pc[p] = "createTx" /\ pc'[p] = "idle" /\ answer' = "usernameTaken"
                => /\ claim[name[p]] # NoUser
                   /\ claim[name[p]] = user[p] => ProfileContended(p)
<1>1. TypeOK /\ RequestInv /\ OneClaimEach /\ [Next]_vars => Taken
  <2> SUFFICES ASSUME TypeOK, RequestInv, OneClaimEach, [Next]_vars, NEW p \in Procs,
                      pc[p] = "createTx", pc'[p] = "idle", answer' = "usernameTaken"
               PROVE  /\ claim[name[p]] # NoUser
                      /\ claim[name[p]] = user[p] => ProfileContended(p)
    OBVIOUS
  <2>1. user[p] \in Users /\ name[p] \in Names
    BY DEF RequestInv
  <2>2. profile[user[p]] = NoName => claim[name[p]] # user[p]
    BY <2>1 DEF OneClaimEach, Held
  <2> QED
    BY <2>2, TakenIsCancel
<1> QED
  BY <1>1, TypeCorrect, OneClaim, PTL DEF Spec, CreateTakenBySomeoneElse
=============================================================================

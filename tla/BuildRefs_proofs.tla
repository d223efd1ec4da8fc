-------------------------- MODULE BuildRefs_proofs --------------------------
(***************************************************************************)
(* Proofs about BuildRefs, for any builds, references and requests, any    *)
(* number of attempts and with or without lagging reads.                   *)
(***************************************************************************)
EXTENDS BuildRefs, TLAPS

(* What a request in flight knows: its build, the content of a create or   *)
(* an update, and the version that a transaction was made from.            *)
RequestInv ==
    \A p \in Procs :
        /\ pc[p] # "idle" => target[p] \in Builds
        /\ pc[p] \notin {"idle", "deleteGet", "deleteTx"} => want[p] \in Contents
        /\ pc[p] \in {"updateTx", "deleteTx"} => seen[p] \in Contents

-----------------------------------------------------------------------------
(* Type correctness *)

(* What a step of p does to the requests: it moves p to a call it is ready *)
(* for.                                                                    *)
Ready(p, c) ==
    /\ c \in Calls
    /\ pc[p] # "idle"
    /\ c \notin {"deleteGet", "deleteTx"} => pc[p] \notin {"deleteGet", "deleteTx"}
    /\ Goto(p, c)
    /\ \E m \in Contents \cup {Nothing} :
         /\ seen' = [seen EXCEPT ![p] = m]
         /\ c \in {"updateTx", "deleteTx"} => m \in Contents
    /\ \/ UNCHANGED left
       \/ left[p] > 0 /\ left' = [left EXCEPT ![p] = @ - 1]

RequestsOK ==
    /\ pc \in [Procs -> Calls \cup {"idle"}]
    /\ target \in [Procs -> Builds \cup {NoTarget}]
    /\ want \in [Procs -> Contents \cup {Nothing}]
    /\ seen \in [Procs -> Contents \cup {Nothing}]
    /\ left \in [Procs -> 0 .. MaxAttempts]

LEMMA RequestKept ==
    ASSUME RequestsOK, RequestInv, NEW p \in Procs,
           Return(p) \/ \E c \in Calls : Ready(p, c)
    PROVE  RequestsOK' /\ RequestInv'
<1>1. CASE Return(p)
  BY <1>1, Attempts DEF RequestsOK, RequestInv, Return
<1>2. ASSUME NEW c \in Calls, Ready(p, c)
      PROVE  RequestsOK' /\ RequestInv'
  <2>1. left' \in [Procs -> 0 .. MaxAttempts]
    BY <1>2, Attempts DEF Ready, RequestsOK
  <2>2. RequestsOK'
    <3>1. PICK m \in Contents \cup {Nothing} : seen' = [seen EXCEPT ![p] = m]
      BY <1>2 DEF Ready
    <3>2. pc' = [pc EXCEPT ![p] = c] /\ target' = target /\ want' = want
      BY <1>2 DEF Ready, Goto
    <3> QED
      BY <2>1, <3>1, <3>2 DEF RequestsOK
  <2>3. RequestInv'
    BY <1>2 DEF Ready, Goto, RequestsOK, RequestInv
  <2> QED
    BY <2>2, <2>3
<1> QED
  BY <1>1, <1>2

(* What a step of a request does to its own variables. *)
LEMMA StepOfRequest ==
    ASSUME TypeOK, NEW p \in Procs, Step(p) \/ Fail(p)
    PROVE  Return(p) \/ \E c \in Calls : Ready(p, c)
<1> USE DEF Calls
<1>1. CASE \/ CreateCommit(p) \/ CreateReject(p) \/ UpdateReject(p) \/ UpdateReread(p)
           \/ DeleteCommit(p) \/ DeleteReject(p) \/ GiveUp(p) \/ Fail(p)
  BY <1>1 DEF CreateCommit, CreateReject, UpdateReject, UpdateReread,
              DeleteCommit, DeleteReject, GiveUp, Fail
<1>2. CASE UpdateGet(p) \/ DeleteGet(p)
  BY <1>2 DEF UpdateGet, DeleteGet, Attempt, Ready
<1>3. CASE UpdateCommit(p) \/ UpdateCancel(p) \/ DeleteCancel(p)
  BY <1>3 DEF UpdateCommit, UpdateCancel, DeleteCancel, Forget, Ready
<1> QED
  BY <1>1, <1>2, <1>3 DEF Step

(* What a step of a request does to the tables. *)
TableStep(p) ==
    \/ CreateCommit(p) \/ UpdateCommit(p) \/ DeleteCommit(p)
    \/ UNCHANGED tables

LEMMA StepOfTables ==
    ASSUME NEW p \in Procs, Step(p) \/ Fail(p)
    PROVE  TableStep(p)
BY DEF Step, TableStep, Fail, CreateReject, UpdateGet, UpdateCancel, UpdateReject,
       UpdateReread, DeleteGet, DeleteCancel, DeleteReject, GiveUp

ReplicaOK == replica \in [Builds -> Contents \cup {Unborn, Gone}]

LEMMA TablesKept ==
    ASSUME TypeOK, RequestInv, NEW p \in Procs, TableStep(p)
    PROVE  TablesOK' /\ ReplicaOK'
<1>1. CASE CreateCommit(p)
  <2>1. target[p] \in Builds /\ want[p] \in Contents
    BY <1>1 DEF CreateCommit, RequestInv
  <2>2. TablesOK'
    BY <1>1, <2>1 DEF CreateCommit, WriteCreate, TypeOK, TablesOK, Contents
  <2> QED
    BY <1>1, <2>2 DEF CreateCommit, Replicated, TypeOK, ReplicaOK, TablesOK
<1>2. CASE UpdateCommit(p)
  <2>1. target[p] \in Builds /\ want[p] \in Contents
    BY <1>2 DEF UpdateCommit, RequestInv
  <2>2. TablesOK'
    BY <1>2, <2>1 DEF UpdateCommit, WriteUpdate, Added, Removed, TypeOK, TablesOK, Contents
  <2> QED
    BY <1>2, <2>2 DEF UpdateCommit, Replicated, TypeOK, ReplicaOK, TablesOK
<1>3. CASE DeleteCommit(p)
  <2>1. TablesOK'
    BY <1>3 DEF DeleteCommit, WriteDelete, TypeOK, TablesOK
  <2> QED
    BY <1>3, <2>1 DEF DeleteCommit, Replicated, TypeOK, ReplicaOK, TablesOK
<1>4. CASE UNCHANGED tables
  BY <1>4 DEF tables, TypeOK, TablesOK, ReplicaOK
<1> QED
  BY <1>1, <1>2, <1>3, <1>4 DEF TableStep

(* The rest of Next: a request arrives, the replica catches up, a stutter. *)
LEMMA OtherSteps ==
    ASSUME TypeOK, RequestInv,
           \/ \E p \in Procs : Request(p)
           \/ \E b \in Builds : Replicate(b)
           \/ UNCHANGED vars
    PROVE  TypeOK' /\ RequestInv' /\ UNCHANGED <<build, marker>>
<1>1. ASSUME NEW p \in Procs, NEW b \in Builds, NEW m \in Contents \cup {Nothing},
             NEW c \in {"createTx", "updateGet", "deleteGet"},
             c # "deleteGet" => m \in Contents, Receive(p, b, m, c)
      PROVE  TypeOK' /\ RequestInv' /\ UNCHANGED <<build, marker>>
  BY <1>1 DEF TypeOK, TablesOK, RequestInv, Receive, Calls
<1>2. CASE \E p \in Procs : Request(p)
  BY <1>1, <1>2 DEF Request, Create, Update, Delete
<1>3. CASE \E b \in Builds : Replicate(b)
  BY <1>3 DEF TypeOK, TablesOK, RequestInv, Replicate, locals
<1>4. CASE UNCHANGED vars
  BY <1>4 DEF vars, TypeOK, TablesOK, RequestInv
<1> QED
  BY <1>2, <1>3, <1>4

LEMMA TypeInductive ==
    ASSUME TypeOK, RequestInv, [Next]_vars
    PROVE  TypeOK' /\ RequestInv'
<1>1. ASSUME NEW p \in Procs, Step(p) \/ Fail(p)
      PROVE  TypeOK' /\ RequestInv'
  <2>1. RequestsOK' /\ RequestInv'
    BY <1>1, StepOfRequest, RequestKept DEF TypeOK, RequestsOK
  <2>2. TablesOK' /\ ReplicaOK'
    BY <1>1, StepOfTables, TablesKept
  <2> QED
    BY <2>1, <2>2 DEF TypeOK, RequestsOK, ReplicaOK
<1> QED
  BY <1>1, OtherSteps DEF Next

LEMMA TypeInitial == Init => TypeOK /\ RequestInv
BY Attempts DEF Init, NoRequests, TypeOK, TablesOK, RequestInv

(* Every variable has its type in every reachable state, and a request     *)
(* never reaches a call of the repository without what the call needs.     *)
THEOREM TypeCorrect == Spec => [](TypeOK /\ RequestInv)
<1>1. TypeOK /\ RequestInv /\ [Next]_vars => TypeOK' /\ RequestInv'
  BY TypeInductive
<1> QED
  BY <1>1, TypeInitial, PTL DEF Spec

-----------------------------------------------------------------------------
(* Only a stale difference parts a build from its markers *)

LEMMA EveryStep ==
    ASSUME TypeOK, RequestInv, [Next]_vars
    PROVE  \/ \E p \in Procs : CreateCommit(p) \/ UpdateCommit(p) \/ DeleteCommit(p)
           \/ UNCHANGED <<build, marker>>
BY StepOfTables, OtherSteps DEF Next, TableStep, tables

(* A transaction of another build leaves b's item and markers alone. *)
LEMMA OtherBuild ==
    ASSUME TypeOK, NEW p \in Procs, NEW b \in Builds, target[p] # b,
           CreateCommit(p) \/ UpdateCommit(p) \/ DeleteCommit(p)
    PROVE  build'[b] = build[b] /\ marker'[b] = marker[b]
BY DEF TypeOK, TablesOK, CreateCommit, UpdateCommit, DeleteCommit,
       WriteCreate, WriteUpdate, WriteDelete

(* A transaction made from the stored version keeps the markers exact. *)
LEMMA FreshCommit ==
    ASSUME TypeOK, RequestInv, NEW p \in Procs, NEW b \in Builds, target[p] = b, Exact(b),
           \/ CreateCommit(p)
           \/ /\ UpdateCommit(p) \/ DeleteCommit(p)
              /\ Stored(b) /\ seen[p].refs = build[b].refs
    PROVE  Exact(b)'
<1>1. CASE CreateCommit(p)
  <2>1. want[p] \in Contents
    BY <1>1 DEF CreateCommit, RequestInv
  <2>2. build'[b] = want[p] /\ marker'[b] = marker[b] \cup want[p].refs /\ marker[b] = {}
    BY <1>1, Absent DEF CreateCommit, WriteCreate, TypeOK, TablesOK, Exact, Stored
  <2> QED
    BY <2>1, <2>2 DEF Exact, Stored
<1>2. CASE UpdateCommit(p) /\ Stored(b) /\ seen[p].refs = build[b].refs
  <2>1. want[p] \in Contents
    BY <1>2 DEF UpdateCommit, RequestInv
  <2>2. /\ build'[b] = want[p]
        /\ marker[b] = seen[p].refs
        /\ marker'[b] = (marker[b] \cup Added(seen[p], want[p])) \ Removed(seen[p], want[p])
    BY <1>2 DEF UpdateCommit, WriteUpdate, TypeOK, TablesOK, Exact
  <2>3. marker'[b] = want[p].refs
    BY <2>2 DEF Added, Removed
  <2> QED
    BY <2>1, <2>2, <2>3 DEF Exact, Stored
<1>3. CASE DeleteCommit(p) /\ Stored(b) /\ seen[p].refs = build[b].refs
  <2>1. build'[b] = Gone /\ marker'[b] = marker[b] \ seen[p].refs /\ marker[b] = seen[p].refs
    BY <1>3 DEF DeleteCommit, WriteDelete, TypeOK, TablesOK, Exact
  <2> QED
    BY <2>1, Absent DEF Exact, Stored
<1> QED
  BY <1>1, <1>2, <1>3

(* Markers and build come apart only in the commit of an update or a       *)
(* delete whose difference was taken from a version no longer stored.      *)
THEOREM OnlyStaleDiff == Spec => OnlyStaleDiffDrifts
<1>1. ASSUME TypeOK, RequestInv, [Next]_vars, NEW b \in Builds, Exact(b), ~StaleWrite(b)
      PROVE  Exact(b)'
  <2>1. CASE UNCHANGED <<build, marker>>
    BY <1>1, <2>1 DEF Exact, Stored
  <2>2. ASSUME NEW p \in Procs, CreateCommit(p) \/ UpdateCommit(p) \/ DeleteCommit(p)
        PROVE  Exact(b)'
    <3>1. CASE target[p] # b
      BY <1>1, <2>2, <3>1, OtherBuild DEF Exact, Stored
    <3>2. CASE target[p] = b /\ CreateCommit(p)
      BY <1>1, <3>2, FreshCommit
    <3>3. CASE target[p] = b /\ (UpdateCommit(p) \/ DeleteCommit(p))
      <4>1. seen[p] \in Contents
        BY <1>1, <3>3 DEF RequestInv, UpdateCommit, DeleteCommit
      <4>2. Stored(b) /\ seen[p].refs = build[b].refs
        BY <1>1, <3>3, <4>1 DEF StaleWrite
      <4> QED
        BY <1>1, <3>3, <4>2, FreshCommit
    <3> QED
      BY <2>2, <3>1, <3>2, <3>3
  <2> QED
    BY <1>1, <2>1, <2>2, EveryStep
<1>2. TypeOK /\ RequestInv /\ [Next]_vars
        => [\A b \in Builds : Exact(b) /\ ~StaleWrite(b) => Exact(b)']_vars
  BY <1>1
<1> QED
  BY <1>2, TypeCorrect, PTL DEF Spec, OnlyStaleDiffDrifts

(* A deleted build never comes back, whichever requests are in flight.     *)
THEOREM GoneForGood == Spec => GoneStaysGone
<1>1. ASSUME TypeOK, RequestInv, [Next]_vars, NEW b \in Builds, build[b] = Gone
      PROVE  build'[b] = Gone
  <2>1. ASSUME NEW p \in Procs, CreateCommit(p) \/ UpdateCommit(p) \/ DeleteCommit(p)
        PROVE  build'[b] = Gone
    BY <1>1, <2>1, Absent DEF CreateCommit, UpdateCommit, DeleteCommit, Stored,
       WriteCreate, WriteUpdate, WriteDelete, TypeOK, TablesOK
  <2> QED
    BY <1>1, <2>1, EveryStep
<1>2. TypeOK /\ RequestInv /\ [Next]_vars
        => [\A b \in Builds : build[b] = Gone => build'[b] = Gone]_vars
  BY <1>1
<1> QED
  BY <1>2, TypeCorrect, PTL DEF Spec, GoneStaysGone

-----------------------------------------------------------------------------
(* One request at a time *)

(* With one request at a time and reads that do not lag, what a            *)
(* transaction was made from is what is stored.                            *)
FreshInv ==
    \A p \in Procs :
        /\ pc[p] \in {"updateTx", "deleteTx"} => seen[p] = build[target[p]]

(* One request at a time, and reads that do not lag, keep the markers of   *)
(* every build exactly the ones its item calls for: the index that blocks  *)
(* and cascades deletions is then neither short of a build nor ahead.      *)
THEOREM SerialExact ==
    ASSUME NEW s, Procs = {s}, ~StaleReads
    PROVE  Spec => [](\A b \in Builds : Exact(b))
<1> DEFINE I == (\A b \in Builds : Exact(b)) /\ FreshInv
<1>1. Init => I
  BY Absent DEF Init, NoRequests, Exact, Stored, FreshInv
<1>2. ASSUME TypeOK, RequestInv, I, [Next]_vars
      PROVE  I'
  <2>1. FreshInv'
    <3>1. CASE Step(s) \/ Fail(s)
      <4>1. CASE UpdateGet(s) \/ DeleteGet(s)
        <5>1. UNCHANGED build /\ s \in Procs
          BY <4>1 DEF UpdateGet, DeleteGet, tables
        <5> QED
          BY <1>2, <4>1, <5>1 DEF UpdateGet, DeleteGet, Attempt, Goto, Return, Reads,
             FreshInv, TypeOK
      <4>2. CASE ~(UpdateGet(s) \/ DeleteGet(s))
        BY <1>2, <3>1, <4>2 DEF Step, Fail, CreateCommit, CreateReject, UpdateCommit,
           UpdateCancel, UpdateReject, UpdateReread, DeleteCommit, DeleteCancel,
           DeleteReject, GiveUp, Return, Forget, Goto, FreshInv, TypeOK
      <4> QED
        BY <4>1, <4>2
    <3>2. CASE Request(s)
      BY <1>2, <3>2 DEF Request, Create, Update, Delete, Receive, FreshInv, TypeOK
    <3>3. CASE (\E b \in Builds : Replicate(b)) \/ UNCHANGED vars
      BY <1>2, <3>3 DEF Replicate, locals, vars, FreshInv
    <3> QED
      BY <1>2, <3>1, <3>2, <3>3 DEF Next
  <2>2. ASSUME NEW b \in Builds
        PROVE  Exact(b)'
    <3>1. CASE UNCHANGED <<build, marker>>
      BY <1>2, <3>1 DEF Exact, Stored
    <3>2. CASE CreateCommit(s) \/ UpdateCommit(s) \/ DeleteCommit(s)
      <4>1. CASE target[s] # b
        BY <1>2, <3>2, <4>1, OtherBuild DEF Exact, Stored
      <4>2. CASE target[s] = b
        <5>1. UpdateCommit(s) \/ DeleteCommit(s) =>
                 seen[s] = build[b] /\ seen[s] \in Contents
          BY <1>2, <4>2 DEF UpdateCommit, DeleteCommit, FreshInv, RequestInv
        <5> QED
          BY <1>2, <3>2, <4>2, <5>1, FreshCommit DEF Stored
      <4> QED
        BY <4>1, <4>2
    <3> QED
      BY <1>2, <3>1, <3>2, EveryStep
  <2> QED
    BY <2>1, <2>2
<1>3. TypeOK /\ RequestInv /\ I /\ [Next]_vars => I'
  BY <1>2
<1>4. I => \A b \in Builds : Exact(b)
  OBVIOUS
<1> QED
  BY <1>1, <1>3, <1>4, TypeCorrect, PTL DEF Spec
=============================================================================

------------------------ MODULE AccountDelete_proofs ------------------------
(***************************************************************************)
(* Proofs about AccountDelete, for any number of builds, of calls that     *)
(* delete the account at once, of writes next to them and of retries.      *)
(***************************************************************************)
EXTENDS AccountDelete, TLAPS

-----------------------------------------------------------------------------
(* Where things lie                                                        *)

LEMMA Places ==
    \A x \in Things : /\ x[1] \in Stages /\ x[2] \in 1..(2 * Builds)
                      /\ x[1] \in Prefixes <=> x \in Images
                      /\ x[1] \in Tables <=> x \in Items \cup Markers
                      /\ x[1] = ProfileStage <=> x = Profile
<1> USE ConstantsOK DEF Tables, Prefixes, ProfileStage, Stages, BuildTable
<1>1. \A b \in BuildItems : b[1] = 1 /\ b[2] \in 1..Builds
  BY DEF BuildItems
<1>2. \A x \in Items : x[1] \in Tables /\ x[2] \in 1..Builds
  BY <1>1 DEF Items
<1>3. \A x \in Markers : x[1] \in Tables /\ x[2] \in 1..(2 * Builds)
  BY <1>1 DEF Markers, MarkerOf
<1>4. Profile[1] = 10 /\ Profile[2] = 1
  BY DEF Profile
<1>5. \A x \in Images : x[1] \in Prefixes /\ x[2] \in 1..Builds
  <2>1. \A i \in Items \cup {Profile} : PrefixOf(i[1]) \in Prefixes
    BY <1>2, <1>4 DEF PrefixOf
  <2>2. \A i \in Items \cup {Profile} : i[2] \in 1..Builds
    BY <1>2, <1>4
  <2> QED
    BY <2>1, <2>2 DEF Images, ImageOf
<1> QED
  BY <1>2, <1>3, <1>4, <1>5 DEF Things

LEMMA Apart == /\ Items \cap Images = {} /\ Items \cap Markers = {}
               /\ Profile \notin Items
<1> USE ConstantsOK DEF Tables, Prefixes, ProfileStage, BuildTable
<1>1. \A x \in Items : x[1] \in Tables /\ (x[1] = 1 => x[2] \in 1..Builds)
  BY DEF Items, BuildItems
<1>2. \A x \in Markers : x[1] = 1 /\ x[2] > Builds
  BY DEF Markers, MarkerOf, BuildItems
<1>3. Items \cap Images = {} /\ Profile \notin Items
  BY <1>1, Places DEF Things, Profile
<1> QED
  BY <1>1, <1>2, <1>3

-----------------------------------------------------------------------------
(* The inductive invariant: the types, where each call is when it makes    *)
(* which request, with a page of the stage it is in; and PassedIsClean.    *)

WellPlaced(c, s, n, g) ==
    /\ c \in Calls /\ s \in Stages /\ n \in 0..End /\ g \subseteq Things
    /\ \A x \in g : x[1] = s
    /\ c \in {"batch", "objects"} \/ g = {}
    /\ c = "idle" => s = BuildTable /\ n = 0
    /\ c = "list" => s # ProfileStage
    /\ c = "batch" => s \in Tables
    /\ c = "objects" => s \in Prefixes
    /\ c = "invalidate" => s = 9 /\ n = End
    /\ c = "profile" => s = ProfileStage /\ n = 0
    /\ c = "notify" => s = ProfileStage /\ n = End

Placed == \A p \in Procs : WellPlaced(pc[p], stage[p], cursor[p], page[p])

Inv == TypeOK /\ Placed /\ PassedIsClean

(* The variables of the calls alone, and the others. *)
CallsOK ==
    /\ pc \in [Procs -> Calls] /\ stage \in [Procs -> Stages]
    /\ cursor \in [Procs -> Nat] /\ page \in [Procs -> SUBSET Things]
    /\ tries \in [Procs -> 0..Retries] /\ emptied \in [Procs -> SUBSET Prefixes]
    /\ unseen \in [Procs -> SUBSET Things] /\ swept \in [Procs -> SUBSET Images]

RestOK ==
    /\ present \subseteq Things /\ ever \subseteq Things /\ present \subseteq ever
    /\ url \subseteq Images /\ cached \subseteq Images /\ excused \subseteq Images
    /\ replica \in BOOLEAN /\ asked \in BOOLEAN /\ answered \in BOOLEAN
    /\ writes \in 0..MaxWrites /\ notice \in {"none", "sent", "failed"}

LEMMA Types == (TypeOK <=> CallsOK /\ RestOK) /\ (TypeOK' <=> CallsOK' /\ RestOK')
BY DEF TypeOK, CallsOK, RestOK

-----------------------------------------------------------------------------
(* A step of a call: p comes to the call c, at n in the stage s, with the  *)
(* page g; everything that is there where it then has passed is accounted  *)
(* for.                                                                    *)

Accounted(p, c, s, n, g) ==
    \A x \in present' :
        c # "idle" /\ (x[1] < s \/ (x[1] = s /\ x[2] <= n)) => x \in unseen'[p] \cup g

Lands(p, c, s, n, g) ==
    /\ pc' = [pc EXCEPT ![p] = c] /\ stage' = [stage EXCEPT ![p] = s]
    /\ cursor' = [cursor EXCEPT ![p] = n] /\ page' = [page EXCEPT ![p] = g]
    /\ \E t \in 0..Retries : tries' = [tries EXCEPT ![p] = t]
    /\ \E e \in SUBSET Prefixes : emptied' = [emptied EXCEPT ![p] = e]
    /\ \E w \in SUBSET Images : swept' = [swept EXCEPT ![p] = w]
    /\ \E u \in SUBSET Things : unseen' = [unseen EXCEPT ![p] = u]
    /\ WellPlaced(c, s, n, g)
    /\ Accounted(p, c, s, n, g)

Landed(p) ==
    /\ \E c \in Calls, s \in Stages, n \in 0..End, g \in SUBSET Things : Lands(p, c, s, n, g)
    /\ RestOK' /\ present' \subseteq present

LEMMA LandingKeeps ==
    ASSUME Inv, NEW p \in Procs, Landed(p)
    PROVE  Inv'
<1>1. PICK c \in Calls, s \in Stages, n \in 0..End, g \in SUBSET Things : Lands(p, c, s, n, g)
  BY DEF Landed
<1>2. n \in Nat
  BY ConstantsOK DEF End
<1>3. CallsOK
  BY Types DEF Inv
<1>4. CallsOK'
  BY <1>1, <1>2, <1>3 DEF Lands, CallsOK
<1>5. /\ pc'[p] = c /\ stage'[p] = s /\ cursor'[p] = n /\ page'[p] = g
      /\ \A q \in Procs \ {p} : /\ pc'[q] = pc[q] /\ stage'[q] = stage[q]
                                /\ cursor'[q] = cursor[q] /\ page'[q] = page[q]
                                /\ unseen'[q] = unseen[q]
  BY <1>1, <1>3 DEF Lands, CallsOK
<1>6. Placed'
  <2>1. WellPlaced(pc'[p], stage'[p], cursor'[p], page'[p])
    BY <1>1, <1>5 DEF Lands
  <2>2. \A q \in Procs \ {p} : WellPlaced(pc'[q], stage'[q], cursor'[q], page'[q])
    BY <1>5 DEF Inv, Placed
  <2> QED
    BY <2>1, <2>2 DEF Placed
<1>7. PassedIsClean'
  <2>1. \A x \in present' : Passed(p, x)' => x \in unseen'[p] \cup page'[p]
    BY <1>1, <1>5 DEF Lands, Accounted, Passed, InProgress
  <2>2. \A q \in Procs \ {p} : \A x \in present' :
          Passed(q, x)' => x \in unseen'[q] \cup page'[q]
    BY <1>5 DEF Inv, PassedIsClean, Passed, InProgress, Landed
  <2> QED
    BY <2>1, <2>2 DEF PassedIsClean
<1> QED
  BY <1>4, <1>6, <1>7, Types DEF Inv, Landed

LEMMA StopLands ==
    ASSUME Inv, NEW p \in Procs, Stop(p), RestOK', present' \subseteq present
    PROVE  Landed(p)
<1> USE ConstantsOK DEF Stages, Tables, BuildTable
<1>1. WellPlaced("idle", BuildTable, 0, {})
  BY DEF WellPlaced, Calls, End
<1>2. Lands(p, "idle", BuildTable, 0, {})
  <2>1. \E t \in 0..Retries : tries' = [tries EXCEPT ![p] = t]
    <3>1. 0 \in 0..Retries /\ tries' = [tries EXCEPT ![p] = 0]
      BY DEF Stop
    <3> QED
      BY <3>1, Zenon
  <2>2. \E e \in SUBSET Prefixes : emptied' = [emptied EXCEPT ![p] = e]
    BY DEF Stop
  <2>3. \E w \in SUBSET Images : swept' = [swept EXCEPT ![p] = w]
    BY DEF Stop
  <2>4. \E u \in SUBSET Things : unseen' = [unseen EXCEPT ![p] = u]
    BY DEF Stop
  <2> QED
    BY <1>1, <2>1, <2>2, <2>3, <2>4 DEF Stop, Lands, Accounted
<1> QED
  BY <1>2 DEF Landed, Calls, End

(* What a step leaves of p as it was can be seen as written anew. *)
LEMMA KeptIsWritten ==
    ASSUME CallsOK, NEW p \in Procs
    PROVE  /\ UNCHANGED tries => \E t \in 0..Retries : tries' = [tries EXCEPT ![p] = t]
           /\ UNCHANGED emptied => \E e \in SUBSET Prefixes : emptied' = [emptied EXCEPT ![p] = e]
           /\ UNCHANGED swept => \E w \in SUBSET Images : swept' = [swept EXCEPT ![p] = w]
           /\ UNCHANGED unseen => \E u \in SUBSET Things : unseen' = [unseen EXCEPT ![p] = u]
           /\ UNCHANGED page => page' = [page EXCEPT ![p] = page[p]]
           /\ UNCHANGED cursor => cursor' = [cursor EXCEPT ![p] = cursor[p]]
           /\ UNCHANGED stage => stage' = [stage EXCEPT ![p] = stage[p]]
           /\ UNCHANGED pc => pc' = [pc EXCEPT ![p] = pc[p]]
<1>1. UNCHANGED tries => \E t \in 0..Retries : tries' = [tries EXCEPT ![p] = t]
  <2>1. tries[p] \in 0..Retries /\ tries = [tries EXCEPT ![p] = tries[p]]
    BY DEF CallsOK
  <2> QED
    BY <2>1
<1>2. UNCHANGED emptied => \E e \in SUBSET Prefixes : emptied' = [emptied EXCEPT ![p] = e]
  <2>1. emptied[p] \in SUBSET Prefixes /\ emptied = [emptied EXCEPT ![p] = emptied[p]]
    BY DEF CallsOK
  <2> QED
    BY <2>1
<1>3. UNCHANGED swept => \E w \in SUBSET Images : swept' = [swept EXCEPT ![p] = w]
  <2>1. swept[p] \in SUBSET Images /\ swept = [swept EXCEPT ![p] = swept[p]]
    BY DEF CallsOK
  <2> QED
    BY <2>1
<1>4. UNCHANGED unseen => \E u \in SUBSET Things : unseen' = [unseen EXCEPT ![p] = u]
  <2>1. unseen[p] \in SUBSET Things /\ unseen = [unseen EXCEPT ![p] = unseen[p]]
    BY DEF CallsOK
  <2> QED
    BY <2>1
<1>5. /\ page = [page EXCEPT ![p] = page[p]] /\ cursor = [cursor EXCEPT ![p] = cursor[p]]
      /\ stage = [stage EXCEPT ![p] = stage[p]] /\ pc = [pc EXCEPT ![p] = pc[p]]
  BY DEF CallsOK
<1> QED
  BY <1>1, <1>2, <1>3, <1>4, <1>5

LEMMA BeginLands ==
    ASSUME Inv, NEW p \in Procs, Begin(p)
    PROVE  Landed(p)
<1> USE ConstantsOK DEF Stages, Tables, BuildTable
<1>1. CallsOK /\ RestOK
  BY Types DEF Inv
<1>2. cursor[p] = 0 /\ page[p] = {}
  BY DEF Begin, Inv, Placed, WellPlaced
<1>3. WellPlaced("list", BuildTable, 0, {})
  BY DEF WellPlaced, Calls, End, ProfileStage
<1>4. Accounted(p, "list", BuildTable, 0, {})
  <2>1. \A x \in present' : x[1] \in 1..10 /\ x[2] \in 1..(2 * Builds)
    BY <1>1, Places DEF Begin, account, RestOK, Prefixes, ProfileStage
  <2> QED
    BY <2>1 DEF Accounted
<1>5. Lands(p, "list", BuildTable, 0, {})
  BY <1>1, <1>2, <1>3, <1>4, KeptIsWritten DEF Begin, Lands
<1>6. RestOK' /\ present' \subseteq present
  BY <1>1 DEF Begin, account, client, edge, result, RestOK
<1> QED
  BY <1>5, <1>6 DEF Landed, Calls, End

(* The end of a stage, behind which everything is accounted for. *)
LEMMA NextStageLands ==
    ASSUME Inv, NEW p \in Procs, NextStage(p), pc[p] # "idle",
           stage[p] \in Tables \cup Prefixes,
           page' = [page EXCEPT ![p] = {}],
           \E t \in 0..Retries : tries' = [tries EXCEPT ![p] = t],
           UNCHANGED <<emptied, swept, unseen>>,
           present' \subseteq present, RestOK',
           \A x \in present' : x[1] <= stage[p] => x \in unseen[p]
    PROVE  Landed(p)
<1> USE ConstantsOK DEF Stages, Tables, Prefixes, ProfileStage, BuildTable
<1>1. CallsOK /\ RestOK
  BY Types DEF Inv
<1>2. \A x \in present' : x[1] \in 1..10 /\ x[2] \in 1..(2 * Builds)
  BY Places DEF RestOK
<1>3. ASSUME NEW c \in Calls, NEW s \in Stages, NEW n \in 0..End, Goto(p, c, s, n),
             WellPlaced(c, s, n, {}), Accounted(p, c, s, n, {})
      PROVE  Landed(p)
  <2>1. Lands(p, c, s, n, {})
    BY <1>1, <1>3, KeptIsWritten DEF Goto, Lands
  <2> QED
    BY <2>1 DEF Landed
<1>4. CASE stage[p] + 1 \in Tables \cup Prefixes
  <2>1. WellPlaced("list", stage[p] + 1, 0, {})
    BY <1>4 DEF WellPlaced, Calls, End
  <2>2. Accounted(p, "list", stage[p] + 1, 0, {})
    BY <1>2, <1>4 DEF Accounted
  <2> QED
    BY <1>3, <1>4, <2>1, <2>2 DEF NextStage, Calls, End
<1>5. CASE stage[p] = 9 /\ emptied[p] = {}
  <2>1. WellPlaced("profile", ProfileStage, 0, {})
    BY DEF WellPlaced, Calls, End
  <2>2. Accounted(p, "profile", ProfileStage, 0, {})
    BY <1>2, <1>5 DEF Accounted
  <2> QED
    BY <1>3, <1>5, <2>1, <2>2 DEF NextStage, Calls, End
<1>6. CASE stage[p] = 9 /\ emptied[p] # {}
  <2>1. WellPlaced("invalidate", stage[p], End, {})
    BY <1>6 DEF WellPlaced, Calls, End
  <2>2. Accounted(p, "invalidate", stage[p], End, {})
    BY <1>2, <1>6 DEF Accounted
  <2> QED
    BY <1>3, <1>6, <2>1, <2>2 DEF NextStage, Calls, End
<1> QED
  BY <1>4, <1>5, <1>6

LEMMA ReadLands ==
    ASSUME Inv, NEW p \in Procs, NEW c \in {"batch", "objects"}, Read(p, c),
           pc[p] = "list", stage[p] \in IF c = "batch" THEN Tables ELSE Prefixes,
           UNCHANGED <<tries, emptied, swept, unseen>>, UNCHANGED present, RestOK'
    PROVE  Landed(p)
<1> USE ConstantsOK DEF Stages, Tables, Prefixes, ProfileStage
<1>1. CallsOK /\ RestOK
  BY Types DEF Inv
<1>2. \A x \in present : x \in Things /\ x[1] \in 1..10 /\ x[2] \in 1..(2 * Builds)
  BY <1>1, Places DEF RestOK
<1>3. page[p] = {} /\ cursor[p] \in 0..End
  BY DEF Inv, Placed, WellPlaced
<1>4. PICK n \in PageEnds(p) :
        IF UpTo(p, n) = {}
        THEN NextStage(p) /\ UNCHANGED page
        ELSE Goto(p, c, stage[p], n) /\ page' = [page EXCEPT ![p] = UpTo(p, n)]
  BY DEF Read
<1>5. n \in 1..End
  BY <1>2, <1>4 DEF PageEnds, Ahead, End
<1>6. \A x \in present : Passed(p, x) => x \in unseen[p]
  BY <1>3 DEF Inv, PassedIsClean
<1>7. CASE UpTo(p, n) = {}
  <2>1. n = End
    BY <1>2, <1>4, <1>7 DEF PageEnds, Ahead, UpTo, End
  <2>2. \A x \in present : x[1] <= stage[p] => Passed(p, x)
    BY <1>2, <1>3, <1>7, <2>1 DEF Ahead, UpTo, End, Passed, InProgress
  <2>3. page' = [page EXCEPT ![p] = {}]
    BY <1>1, <1>3, <1>4, <1>7, KeptIsWritten
  <2>4. \E t \in 0..Retries : tries' = [tries EXCEPT ![p] = t]
    BY <1>1, KeptIsWritten
  <2> HIDE DEF Stages, Tables, Prefixes, ProfileStage
  <2> QED
    BY <1>4, <1>6, <1>7, <2>2, <2>3, <2>4, NextStageLands
<1>8. CASE UpTo(p, n) # {}
  <2>1. UpTo(p, n) \subseteq present /\ \A x \in UpTo(p, n) : x[1] = stage[p]
    BY DEF UpTo, Ahead
  <2>2. WellPlaced(c, stage[p], n, UpTo(p, n))
    BY <1>2, <1>5, <2>1 DEF WellPlaced, Calls
  <2>3. Accounted(p, c, stage[p], n, UpTo(p, n))
    <3>1. \A x \in present : x[1] < stage[p] => x \in unseen[p]
      BY <1>6 DEF Passed, InProgress
    <3>2. \A x \in present : x[1] = stage[p] /\ x[2] <= cursor[p] => x \in unseen[p]
      BY <1>6 DEF Passed, InProgress
    <3>3. \A x \in present : x[1] = stage[p] /\ x[2] > cursor[p] /\ x[2] <= n => x \in UpTo(p, n)
      BY DEF UpTo, Ahead
    <3>4. \A x \in present : x[2] <= cursor[p] \/ x[2] > cursor[p]
      BY <1>2, <1>3 DEF End
    <3> QED
      BY <3>1, <3>2, <3>3, <3>4 DEF Accounted
  <2>4. Lands(p, c, stage[p], n, UpTo(p, n))
    BY <1>1, <1>4, <1>8, <2>2, <2>3, KeptIsWritten DEF Goto, Lands
  <2>5. c \in Calls /\ stage[p] \in Stages /\ n \in 0..End /\ UpTo(p, n) \in SUBSET Things
    BY <2>2 DEF WellPlaced
  <2> QED
    BY <2>4, <2>5 DEF Landed
<1> QED
  BY <1>7, <1>8

LEMMA QueryLands ==
    ASSUME Inv, NEW p \in Procs, Query(p) \/ ListObjects(p)
    PROVE  Landed(p)
<1>1. RestOK'
  BY Types DEF Inv, Query, ListObjects, RestOK, account, client, edge, result
<1>2. CASE Query(p)
  BY <1>1, <1>2, ReadLands DEF Query, account
<1>3. CASE ListObjects(p)
  BY <1>1, <1>3, ReadLands DEF ListObjects, account
<1> QED
  BY <1>2, <1>3

(* A step that stays at its place: some of the page has gone. *)
LEMMA StaysLands ==
    ASSUME Inv, NEW p \in Procs, NEW ks \in SUBSET page[p], pc[p] = "batch",
           UNCHANGED <<pc, stage, cursor, emptied, swept, unseen>>,
           page' = [page EXCEPT ![p] = @ \ ks], present' = present \ ks,
           \E t \in 0..Retries : tries' = [tries EXCEPT ![p] = t],
           RestOK'
    PROVE  Landed(p)
<1>1. CallsOK
  BY Types DEF Inv
<1>2. page' = [page EXCEPT ![p] = page[p] \ ks]
  BY <1>1 DEF CallsOK
<1>3. WellPlaced(pc[p], stage[p], cursor[p], page[p])
  BY DEF Inv, Placed
<1>4. WellPlaced(pc[p], stage[p], cursor[p], page[p] \ ks)
  BY <1>3 DEF WellPlaced
<1>5. Accounted(p, pc[p], stage[p], cursor[p], page[p] \ ks)
  BY DEF Accounted, Inv, PassedIsClean, Passed, InProgress
<1>6. Lands(p, pc[p], stage[p], cursor[p], page[p] \ ks)
  BY <1>1, <1>2, <1>4, <1>5, KeptIsWritten DEF Lands
<1>7. /\ pc[p] \in Calls /\ stage[p] \in Stages
      /\ cursor[p] \in 0..End /\ page[p] \ ks \in SUBSET Things
  BY <1>4 DEF WellPlaced
<1> QED
  BY <1>6, <1>7 DEF Landed

LEMMA BatchLands ==
    ASSUME Inv, NEW p \in Procs, BatchDelete(p) \/ BatchUnprocessed(p)
    PROVE  Landed(p)
<1> USE ConstantsOK
<1>1. CallsOK /\ RestOK /\ WellPlaced(pc[p], stage[p], cursor[p], page[p])
  BY Types DEF Inv, Placed
<1>2. RestOK'
  BY <1>1 DEF BatchDelete, BatchUnprocessed, RestOK, client, edge, result
<1>3. CASE BatchDelete(p)
  <2>1. PICK ks \in (SUBSET page[p]) \ {{}} :
          /\ present' = present \ ks
          /\ page' = [page EXCEPT ![p] = @ \ ks]
          /\ IF ks = page[p] THEN Onward(p) ELSE UNCHANGED <<pc, stage, cursor>>
    BY <1>3 DEF BatchDelete
  <2>2. \E t \in 0..Retries : tries' = [tries EXCEPT ![p] = t]
    <3>1. 0 \in 0..Retries /\ tries' = [tries EXCEPT ![p] = 0]
      BY <1>3 DEF BatchDelete
    <3> QED
      BY <3>1, Zenon
  <2>3. pc[p] = "batch" /\ UNCHANGED <<emptied, swept, unseen>>
    BY <1>3 DEF BatchDelete
  <2>4. CASE ks # page[p]
    BY <1>2, <2>1, <2>2, <2>3, <2>4, StaysLands
  <2>5. CASE ks = page[p]
    <3>1. page' = [page EXCEPT ![p] = {}]
      BY <1>1, <2>1, <2>5 DEF CallsOK
    <3>2. \A x \in present' : Passed(p, x) => x \in unseen[p]
      BY <2>1, <2>5 DEF Inv, PassedIsClean
    <3>3. CASE cursor[p] = End
      <4>1. \A x \in present' : x[1] <= stage[p] => Passed(p, x)
        <5>1. \A x \in present : x[1] \in Nat /\ x[2] \in 1..(2 * Builds)
          BY <1>1, Places DEF RestOK, Stages, Tables, Prefixes, ProfileStage
        <5>2. stage[p] \in Nat
          BY <1>1 DEF WellPlaced, Stages, Tables, Prefixes, ProfileStage
        <5> QED
          BY <2>1, <2>3, <3>3, <5>1, <5>2 DEF Passed, InProgress, End
      <4>2. stage[p] \in Tables \cup Prefixes
        BY <1>1, <2>3 DEF WellPlaced
      <4> QED
        BY <1>2, <2>1, <2>2, <2>3, <2>5, <3>1, <3>2, <3>3, <4>1, <4>2, NextStageLands DEF Onward
    <3>4. CASE cursor[p] # End
      <4>1. Goto(p, "list", stage[p], cursor[p])
        BY <2>1, <2>5, <3>4 DEF Onward
      <4>2. WellPlaced("list", stage[p], cursor[p], {})
        BY <1>1, <2>3 DEF WellPlaced, Calls, Tables, ProfileStage
      <4>3. Accounted(p, "list", stage[p], cursor[p], {})
        BY <2>3, <3>2 DEF Accounted, Passed, InProgress
      <4>4. Lands(p, "list", stage[p], cursor[p], {})
        BY <1>1, <2>2, <2>3, <3>1, <4>1, <4>2, <4>3, KeptIsWritten DEF Goto, Lands
      <4> QED
        BY <1>2, <2>1, <4>2, <4>4 DEF Landed, WellPlaced
    <3> QED
      BY <3>3, <3>4
  <2> QED
    BY <2>4, <2>5
<1>4. CASE BatchUnprocessed(p)
  <2>1. PICK ks \in (SUBSET page[p]) \ {page[p]} :
          /\ present' = present \ ks
          /\ \/ /\ tries[p] < Retries
                /\ tries' = [tries EXCEPT ![p] = @ + 1]
                /\ page' = [page EXCEPT ![p] = @ \ ks]
                /\ UNCHANGED <<pc, stage, cursor, emptied, swept, unseen>>
             \/ tries[p] = Retries /\ Stop(p)
    BY <1>4 DEF BatchUnprocessed
  <2>2. CASE Stop(p)
    BY <1>2, <2>1, <2>2, StopLands
  <2>3. CASE tries[p] < Retries /\ tries' = [tries EXCEPT ![p] = @ + 1]
    <3>1. tries[p] + 1 \in 0..Retries /\ tries' = [tries EXCEPT ![p] = tries[p] + 1]
      BY <1>1, <2>3 DEF CallsOK
    <3>2. \E t \in 0..Retries : tries' = [tries EXCEPT ![p] = t]
      BY <3>1, Zenon
    <3> QED
      BY <1>2, <1>4, <2>1, <2>2, <3>2, StaysLands DEF BatchUnprocessed
  <2> QED
    BY <2>1, <2>2, <2>3
<1> QED
  BY <1>3, <1>4

LEMMA ObjectsLand ==
    ASSUME Inv, NEW p \in Procs, DeleteObjects(p)
    PROVE  Landed(p)
<1>1. CallsOK /\ RestOK /\ WellPlaced(pc[p], stage[p], cursor[p], page[p])
  BY Types DEF Inv, Placed
<1>2. RestOK' /\ present' \subseteq present
  BY <1>1 DEF DeleteObjects, RestOK, client, edge, result
<1>3. stage[p] \in Prefixes /\ page[p] \subseteq Images
  BY <1>1, Places DEF DeleteObjects, WellPlaced
<1>4. \E e \in SUBSET Prefixes : emptied' = [emptied EXCEPT ![p] = e]
  <2>1. /\ emptied[p] \cup {stage[p]} \in SUBSET Prefixes
        /\ emptied' = [emptied EXCEPT ![p] = emptied[p] \cup {stage[p]}]
    BY <1>1, <1>3 DEF CallsOK, DeleteObjects
  <2> QED
    BY <2>1, Zenon
<1>5. \E w \in SUBSET Images : swept' = [swept EXCEPT ![p] = w]
  <2>1. /\ swept[p] \cup page[p] \in SUBSET Images
        /\ swept' = [swept EXCEPT ![p] = swept[p] \cup page[p]]
    BY <1>1, <1>3 DEF CallsOK, DeleteObjects
  <2> QED
    BY <2>1, Zenon
<1>6. WellPlaced("list", stage[p], cursor[p], {})
  BY <1>1, <1>3 DEF WellPlaced, Calls, Prefixes, ProfileStage
<1>7. Accounted(p, "list", stage[p], cursor[p], {})
  BY DEF DeleteObjects, Inv, PassedIsClean, Passed, InProgress, Accounted
<1>8. Lands(p, "list", stage[p], cursor[p], {})
  BY <1>1, <1>4, <1>5, <1>6, <1>7, KeptIsWritten DEF DeleteObjects, Goto, Lands
<1> QED
  BY <1>2, <1>6, <1>8 DEF Landed, WellPlaced

LEMMA InvalidateLands ==
    ASSUME Inv, NEW p \in Procs, Invalidate(p) \/ InvalidateFails(p)
    PROVE  Landed(p)
<1>1. CallsOK /\ RestOK /\ WellPlaced(pc[p], stage[p], cursor[p], page[p])
  BY Types DEF Inv, Placed
<1>2. RestOK' /\ UNCHANGED present
  BY <1>1 DEF Invalidate, InvalidateFails, RestOK, CallsOK, account, client, result
<1>3. pc[p] = "invalidate" /\ page[p] = {} /\ stage[p] = 9 /\ UNCHANGED unseen
  BY <1>1 DEF Invalidate, InvalidateFails, WellPlaced
<1>4. cursor[p] = End
  BY <1>1, <1>3 DEF WellPlaced
<1>5. WellPlaced("profile", ProfileStage, 0, {})
  BY ConstantsOK DEF WellPlaced, Calls, Stages, Tables, Prefixes, ProfileStage, End
<1>6. Accounted(p, "profile", ProfileStage, 0, {})
  <2>1. \A x \in present' : x[1] \in 1..10 /\ x[2] \in 1..(2 * Builds)
    BY <1>2, Places DEF RestOK, Stages, Tables, Prefixes, ProfileStage
  <2>2. \A x \in present' : x[1] <= 9 => Passed(p, x)
    BY <1>2, <1>3, <1>4, <2>1, ConstantsOK DEF Passed, InProgress, End
  <2>3. \A x \in present' : x[1] <= 9 => x \in unseen'[p]
    BY <1>2, <1>3, <2>2 DEF Inv, PassedIsClean
  <2>4. \A x \in present' : x[1] < 10 \/ (x[1] = 10 /\ x[2] <= 0) => x[1] <= 9
    BY <2>1
  <2> QED
    BY <2>3, <2>4 DEF Accounted, ProfileStage
<1>7. /\ pc' = [pc EXCEPT ![p] = "profile"] /\ stage' = [stage EXCEPT ![p] = ProfileStage]
      /\ cursor' = [cursor EXCEPT ![p] = 0] /\ UNCHANGED <<page, tries, unseen>>
      /\ swept' = [swept EXCEPT ![p] = {}] /\ emptied' = [emptied EXCEPT ![p] = {}]
  BY DEF Invalidate, InvalidateFails, Goto
<1>8. /\ \E e \in SUBSET Prefixes : emptied' = [emptied EXCEPT ![p] = e]
      /\ \E w \in SUBSET Images : swept' = [swept EXCEPT ![p] = w]
  BY <1>7
<1>9. Lands(p, "profile", ProfileStage, 0, {})
  BY <1>1, <1>3, <1>5, <1>6, <1>7, <1>8, KeptIsWritten DEF Lands
<1> QED
  BY <1>2, <1>5, <1>9 DEF Landed, WellPlaced

LEMMA ProfileLands ==
    ASSUME Inv, NEW p \in Procs, ProfileDelete(p)
    PROVE  Landed(p)
<1>1. CallsOK /\ RestOK /\ WellPlaced(pc[p], stage[p], cursor[p], page[p])
  BY Types DEF Inv, Placed
<1>2. RestOK' /\ present' \subseteq present
  BY <1>1 DEF ProfileDelete, RestOK, client, edge, result
<1>3. pc[p] = "profile" /\ page[p] = {} /\ stage[p] = ProfileStage
  BY <1>1 DEF ProfileDelete, WellPlaced
<1>4. Profile \in Things
  BY DEF Things
<1>5. PICK u \in SUBSET Things : /\ unseen' = [unseen EXCEPT ![p] = u]
                                 /\ unseen[p] \subseteq u
                                 /\ Profile \in present' => Profile \in u
  <2>1. unseen[p] \in SUBSET Things /\ unseen = [unseen EXCEPT ![p] = unseen[p]]
    BY <1>1 DEF CallsOK
  <2>2. CASE present' = present \ {Profile} /\ UNCHANGED unseen
    BY <2>1, <2>2
  <2>3. CASE UNCHANGED present /\ unseen' = [unseen EXCEPT ![p] = @ \cup (present \cap {Profile})]
    <3>1. unseen' = [unseen EXCEPT ![p] = unseen[p] \cup (present \cap {Profile})]
      BY <1>1, <2>3 DEF CallsOK
    <3>2. unseen[p] \cup (present \cap {Profile}) \in SUBSET Things
      BY <1>4, <2>1
    <3> QED
      BY <2>3, <3>1, <3>2
  <2> QED
    BY <2>2, <2>3 DEF ProfileDelete
<1>6. unseen'[p] = u
  BY <1>1, <1>5 DEF CallsOK
<1>7. WellPlaced("notify", ProfileStage, End, {})
  BY ConstantsOK DEF WellPlaced, Calls, Stages, Tables, Prefixes, ProfileStage, End
<1>8. Accounted(p, "notify", ProfileStage, End, {})
  <2>1. \A x \in present' : x[1] # ProfileStage \/ x = Profile
    BY <1>1, <1>2, Places DEF RestOK
  <2>2. \A x \in present' : x[1] < ProfileStage => x \in unseen[p]
    BY <1>2, <1>3 DEF Inv, PassedIsClean, Passed, InProgress
  <2> QED
    BY <1>5, <1>6, <2>1, <2>2 DEF Accounted
<1>9. Lands(p, "notify", ProfileStage, End, {})
  BY <1>1, <1>3, <1>5, <1>7, <1>8, KeptIsWritten DEF ProfileDelete, Goto, Lands
<1> QED
  BY <1>2, <1>7, <1>9 DEF Landed, WellPlaced

LEMMA EndLands ==
    ASSUME Inv, NEW p \in Procs, Notify(p) \/ DeleteObjectsErrors(p) \/ Fail(p)
    PROVE  Landed(p)
<1>1. CallsOK /\ RestOK /\ WellPlaced(pc[p], stage[p], cursor[p], page[p])
  BY Types DEF Inv, Placed
<1>2. CASE Notify(p)
  <2>1. RestOK' /\ present' \subseteq present
    BY <1>1, <1>2 DEF Notify, RestOK, account, client, edge
  <2> QED
    BY <1>2, <2>1, StopLands DEF Notify
<1>3. CASE DeleteObjectsErrors(p)
  <2>1. page[p] \subseteq Images
    BY <1>1, <1>3, Places DEF DeleteObjectsErrors, WellPlaced
  <2>2. RestOK' /\ present' \subseteq present
    BY <1>1, <1>3, <2>1 DEF DeleteObjectsErrors, RestOK, CallsOK, client, result
  <2> QED
    BY <1>3, <2>2, StopLands DEF DeleteObjectsErrors
<1>4. CASE Fail(p)
  <2>1. RestOK' /\ present' \subseteq present
    BY <1>1, <1>4 DEF Fail, RestOK, CallsOK, account, client, result
  <2> QED
    BY <1>4, <2>1, StopLands DEF Fail
<1> QED
  BY <1>2, <1>3, <1>4

LEMMA CallsLand ==
    ASSUME Inv, NEW p \in Procs,
           Retry(p) \/ Succeed(p) \/ BatchUnprocessed(p) \/ DeleteObjectsErrors(p) \/ Fail(p)
    PROVE  Landed(p)
<1>1. CASE Retry(p)
  BY <1>1, BeginLands DEF Retry, DeleteProfile, handleDeleteProfile
<1>2. CASE Query(p) \/ ListObjects(p)
  BY <1>2, QueryLands
<1>3. CASE BatchDelete(p) \/ BatchUnprocessed(p)
  BY <1>3, BatchLands
<1>4. CASE DeleteObjects(p)
  BY <1>4, ObjectsLand
<1>5. CASE Invalidate(p) \/ InvalidateFails(p)
  BY <1>5, InvalidateLands
<1>6. CASE ProfileDelete(p)
  BY <1>6, ProfileLands
<1>7. CASE Notify(p) \/ DeleteObjectsErrors(p) \/ Fail(p)
  BY <1>7, EndLands
<1> QED
  BY <1>1, <1>2, <1>3, <1>4, <1>5, <1>6, <1>7 DEF Succeed

-----------------------------------------------------------------------------
(* The user's other requests                                               *)

(* They write things, and each call counts those it has passed as unseen. *)
LEMMA StoreKeeps ==
    ASSUME Inv, NEW xs \in SUBSET Things, Store(xs), UNCHANGED call, RestOK'
    PROVE  Inv'
<1>1. CallsOK /\ RestOK
  BY Types DEF Inv
<1>2. UNCHANGED <<pc, stage, cursor, page, tries, emptied, swept>>
  BY DEF call, scan
<1>3. \A p \in Procs : unseen'[p] = unseen[p] \cup {x \in xs \ present : Passed(p, x)}
  BY DEF Store
<1>4. unseen' \in [Procs -> SUBSET Things]
  BY <1>1 DEF Store, CallsOK
<1>5. CallsOK'
  BY <1>1, <1>2, <1>4 DEF CallsOK
<1>6. Placed'
  BY <1>2 DEF Inv, Placed
<1>7. PassedIsClean'
  <2> SUFFICES ASSUME NEW p \in Procs, NEW x \in present', Passed(p, x)'
               PROVE  x \in unseen'[p] \cup page'[p]
    BY DEF PassedIsClean
  <2>1. Passed(p, x)
    BY <1>2 DEF Passed, InProgress
  <2>2. CASE x \in present
    BY <1>2, <1>3, <2>1, <2>2 DEF Inv, PassedIsClean
  <2>3. CASE x \in xs \ present
    BY <1>3, <2>1, <2>3
  <2> QED
    BY <2>2, <2>3 DEF Store
<1> QED
  BY <1>5, <1>6, <1>7, Types DEF Inv

(* Or nothing that a call would delete. *)
LEMMA RestKeeps ==
    ASSUME Inv, UNCHANGED <<call, unseen>>, present' \subseteq present, RestOK'
    PROVE  Inv'
<1>1. UNCHANGED <<pc, stage, cursor, page, tries, emptied, swept, unseen>>
  BY DEF call, scan
<1>2. CallsOK'
  BY <1>1, Types DEF Inv, CallsOK
<1>3. Placed'
  BY <1>1 DEF Inv, Placed
<1>4. PassedIsClean'
  BY <1>1 DEF Inv, PassedIsClean, Passed, InProgress
<1> QED
  BY <1>2, <1>3, <1>4, Types DEF Inv

(* What a counted write of xs leaves of the rest. *)
LEMMA StoreTypes ==
    ASSUME RestOK, NEW xs \in SUBSET Things, Store(xs), Counted,
           UNCHANGED <<url, replica, asked, edge, result>>
    PROVE  RestOK'
  BY ConstantsOK DEF RestOK, Store, Counted, edge, result

LEMMA StepOfOthers ==
    ASSUME RestOK, Others
    PROVE  \/ \E xs \in SUBSET Things : Store(xs) /\ Counted /\ UNCHANGED call
                                        /\ UNCHANGED <<url, replica, asked, edge, result>>
                                        /\ \A i \in xs \cap Items : i \notin ever \/ i \in present
           \/ UNCHANGED <<call, unseen, ever>> /\ present' \subseteq present /\ RestOK'
<1> DEFINE Stores(xs) == /\ Store(xs) /\ Counted /\ UNCHANGED call
                         /\ UNCHANGED <<url, replica, asked, edge, result>>
                         /\ \A i \in xs \cap Items : i \notin ever \/ i \in present
           Rests == UNCHANGED <<call, unseen, ever>> /\ present' \subseteq present /\ RestOK'
<1>1. ASSUME NEW i \in Items, Create(i) \/ Update(i)
      PROVE  Stores({i})
  BY <1>1 DEF Create, Update
<1>2. ASSUME NEW b \in BuildItems, CreateBuild(b)
      PROVE  Stores({b}) \/ Stores({b, MarkerOf(b)})
  BY <1>2, Apart DEF CreateBuild, Markers
<1>3. ASSUME NEW b \in BuildItems, UpdateBuild(b)
      PROVE  Stores({b, MarkerOf(b)}) \/ Rests
  <2>1. CASE Store({b, MarkerOf(b)})
    BY <1>3, <2>1, Apart DEF UpdateBuild, Markers
  <2>2. CASE present' = present \ {MarkerOf(b)} /\ UNCHANGED <<ever, unseen>>
    BY <1>3, <2>2, ConstantsOK DEF UpdateBuild, RestOK, Counted, edge, result
  <2> QED
    BY <1>3, <2>1, <2>2 DEF UpdateBuild
<1>5. ASSUME NEW k \in Images, Upload(k)
      PROVE  Stores({k})
  BY <1>5, Apart DEF Upload
<1>6. ASSUME NEW i \in Items \cup {Profile}, AddImage(i)
      PROVE  Rests
  BY <1>6, ConstantsOK DEF AddImage, account, RestOK, Counted, edge, result, Images
<1>7. ASSUME NEW k \in Images, Serve(k)
      PROVE  Rests
  BY <1>7 DEF Serve, account, client, RestOK, result
<1>8. CASE Replicate
  BY <1>8 DEF Replicate, account, RestOK, edge, result
<1>9. CASE Ask
  BY <1>9 DEF Ask, account, RestOK, edge, result
<1>10. /\ BuildItems \subseteq Items /\ \A b \in BuildItems : MarkerOf(b) \in Markers
       /\ {<<KeyboardTable, 1>>, <<SwitchTable, 1>>, <<KeycapSetTable, 1>>} \subseteq Items
  BY DEF Items, Markers, Tables, BuildTable, KeyboardTable, SwitchTable, KeycapSetTable
<1> HIDE DEF Stores, Rests
<1>11. CASE CreateKeyboard \/ CreateSwitch \/ CreateKeycapSet
            \/ UpdateKeyboard \/ UpdateSwitch \/ UpdateKeycapSet
  <2>1. PICK i \in Items : Create(i) \/ Update(i)
    BY <1>10, <1>11 DEF CreateKeyboard, CreateSwitch, CreateKeycapSet,
                        UpdateKeyboard, UpdateSwitch, UpdateKeycapSet
  <2>2. {i} \in SUBSET Things
    BY DEF Things
  <2> QED
    BY <1>1, <2>1, <2>2 DEF Stores
<1>12. CASE \E b \in BuildItems : CreateBuild(b) \/ UpdateBuild(b)
  <2>1. PICK b \in BuildItems : CreateBuild(b) \/ UpdateBuild(b)
    BY <1>12
  <2>2. {b} \in SUBSET Things /\ {b, MarkerOf(b)} \in SUBSET Things
    BY <1>10 DEF Things
  <2> QED
    BY <1>2, <1>3, <2>1, <2>2 DEF Stores, Rests
<1>13. CASE \E k \in Images : Upload(k) \/ Serve(k)
  <2>1. PICK k \in Images : Upload(k) \/ Serve(k)
    BY <1>13
  <2>2. {k} \in SUBSET Things
    BY DEF Things
  <2> QED
    BY <1>5, <1>7, <2>1, <2>2 DEF Stores, Rests
<1>14. CASE CreateProfile
  <2>1. {Profile} \in SUBSET Things /\ Profile \notin Items
    BY Apart DEF Things
  <2> QED
    BY <1>14, <2>1 DEF CreateProfile
<1> QED
  BY <1>6, <1>8, <1>9, <1>11, <1>12, <1>13, <1>14 DEF Others, Rests

LEMMA InvInitially == Init => Inv
<1> SUFFICES ASSUME Init PROVE Inv
  OBVIOUS
<1> USE ConstantsOK DEF Stages, Tables, BuildTable
<1>1. RestOK
  <2>1. writes \in 0..MaxWrites
    BY DEF Init
  <2>2. replica \in BOOLEAN /\ asked \in BOOLEAN /\ answered \in BOOLEAN
    <3>1. replica = (Profile \in Start)
      BY DEF Init
    <3>2. replica \in BOOLEAN
      BY <3>1
    <3> QED
      BY <3>2 DEF Init
  <2> QED
    BY <2>1, <2>2 DEF Init, RestOK
<1>2. CallsOK
  BY DEF Init, CallsOK, Calls
<1>3. Placed
  BY DEF Init, Placed, WellPlaced, Calls, End
<1>4. PassedIsClean
  BY DEF Init, PassedIsClean, Passed, InProgress
<1> QED
  BY <1>1, <1>2, <1>3, <1>4, Types DEF Inv

LEMMA InvInductive == Inv /\ [Next]_vars => Inv'
<1> SUFFICES ASSUME Inv, [Next]_vars PROVE Inv'
  OBVIOUS
<1>1. RestOK
  BY Types DEF Inv
<1>2. CASE Others
  BY <1>1, <1>2, StepOfOthers, StoreKeeps, StoreTypes, RestKeeps
<1>3. ASSUME NEW p \in Procs,
             Retry(p) \/ Succeed(p) \/ BatchUnprocessed(p) \/ DeleteObjectsErrors(p) \/ Fail(p)
      PROVE  Inv'
  BY <1>3, CallsLand, LandingKeeps
<1>4. CASE UNCHANGED vars
  BY <1>1, <1>4, RestKeeps DEF vars, account, client, edge, result, RestOK
<1> QED
  BY <1>2, <1>3, <1>4 DEF Next

LEMMA Invariant == Spec => []Inv
  BY InvInitially, InvInductive, PTL DEF Spec

-----------------------------------------------------------------------------
(* Every variable keeps its type, for any number of builds and of calls.   *)
THEOREM TypeCorrect == Spec => []TypeOK
<1>1. Inv => TypeOK
  BY DEF Inv
<1> QED
  BY <1>1, Invariant, PTL

(* deleteOwnerItems and OwnerImageStore.DeleteAll page to the end of what  *)
(* they read: what is left where a call has passed, it could not know of,  *)
(* for any number of calls at once, failing where they may.                *)
THEOREM PassedClean == Spec => []PassedIsClean
<1>1. Inv => PassedIsClean
  BY DEF Inv
<1> QED
  BY <1>1, Invariant, PTL

(* Account.Delete removes the profile only when all it could know of has   *)
(* gone: a call that fails earlier leaves the account to be tried again.   *)
THEOREM ProfileLast == Spec => ProfileGoesLast
<1>1. ASSUME Inv, [Next]_vars, Profile \in present, Profile \notin present'
      PROVE  \E p \in Procs : pc[p] = "profile" /\ present' \subseteq unseen[p]
  <2>1. RestOK /\ Placed
    BY <1>1, Types DEF Inv
  <2>2. \A p \in Procs : pc[p] \in {"batch", "objects"} => Profile \notin page[p]
    BY <2>1 DEF Placed, WellPlaced, Profile, ProfileStage, Tables, Prefixes
  <2>3. ~Others
    <3>1. Others => present \subseteq present' \/ \E b \in BuildItems : UpdateBuild(b)
      BY DEF Others, CreateKeyboard, CreateSwitch, CreateKeycapSet, Create, CreateProfile,
             UpdateKeyboard, UpdateSwitch, UpdateKeycapSet, Update, CreateBuild, AddImage,
             Upload, Serve, Replicate, Ask, Store, account
    <3>2. \A b \in BuildItems : UpdateBuild(b) => present \ {MarkerOf(b)} \subseteq present'
      BY DEF UpdateBuild, Store
    <3>3. \A b \in BuildItems : MarkerOf(b) # Profile
      BY DEF MarkerOf, Profile, BuildTable, ProfileStage
    <3> QED
      BY <1>1, <3>1, <3>2, <3>3
  <2>4. PICK p \in Procs :
          Retry(p) \/ Succeed(p) \/ BatchUnprocessed(p) \/ DeleteObjectsErrors(p) \/ Fail(p)
    BY <1>1, <2>3 DEF Next, vars, account
  <2>5. ProfileDelete(p)
    <3>1. ~(Retry(p) \/ Query(p) \/ ListObjects(p) \/ Notify(p) \/ Fail(p)
            \/ Invalidate(p) \/ InvalidateFails(p))
      BY <1>1 DEF Retry, DeleteProfile, handleDeleteProfile, Begin, Query, ListObjects, Notify,
                  Fail, Invalidate, InvalidateFails, account
    <3>2. ~(BatchDelete(p) \/ BatchUnprocessed(p))
      BY <1>1, <2>2 DEF BatchDelete, BatchUnprocessed
    <3>3. ~(DeleteObjects(p) \/ DeleteObjectsErrors(p))
      BY <1>1, <2>2 DEF DeleteObjects, DeleteObjectsErrors
    <3> QED
      BY <2>4, <3>1, <3>2, <3>3 DEF Succeed
  <2>6. present' = present \ {Profile} /\ pc[p] = "profile"
    BY <1>1, <2>5 DEF ProfileDelete
  <2>7. stage[p] = ProfileStage /\ page[p] = {}
    BY <2>1, <2>6 DEF Placed, WellPlaced
  <2>8. \A x \in present' : x[1] < ProfileStage
    BY <2>1, <2>6, Places DEF RestOK, Stages, Tables, Prefixes, ProfileStage
  <2>9. \A x \in present' : x \in unseen[p]
    BY <1>1, <2>6, <2>7, <2>8 DEF Inv, PassedIsClean, Passed, InProgress
  <2> QED
    BY <2>6, <2>9
<1>2. Inv /\ [Next]_vars =>
        [(Profile \in present /\ Profile \notin present') =>
            \E p \in Procs : pc[p] = "profile" /\ present' \subseteq unseen[p]]_vars
  BY <1>1
<1> QED
  BY <1>2, Invariant, PTL DEF Spec, ProfileGoesLast

(* The condition that a record exists keeps an update that was under way   *)
(* from bringing a deleted item back, in each of the four repositories.    *)
THEOREM GoneForGood == Spec => GoneStaysGone
<1>1. ASSUME Inv, [Next]_vars, NEW i \in Items, i \in ever \ present
      PROVE  i \notin present'
  <2>1. RestOK
    BY <1>1, Types DEF Inv
  <2>2. CASE Others
    <3>1. CASE present' \subseteq present
      BY <1>1, <3>1
    <3>2. ASSUME NEW xs \in SUBSET Things, Store(xs),
                 \A j \in xs \cap Items : j \notin ever \/ j \in present
          PROVE  i \notin present'
      BY <1>1, <3>2 DEF Store
    <3> QED
      BY <2>1, <2>2, <3>1, <3>2, StepOfOthers
  <2>3. ASSUME NEW p \in Procs,
               Retry(p) \/ Succeed(p) \/ BatchUnprocessed(p) \/ DeleteObjectsErrors(p) \/ Fail(p)
        PROVE  i \notin present'
    BY <1>1, <2>3, CallsLand DEF Landed
  <2>4. CASE UNCHANGED vars
    BY <1>1, <2>4 DEF vars, account
  <2> QED
    BY <1>1, <2>2, <2>3, <2>4 DEF Next
<1>2. Inv /\ [Next]_vars => [\A i \in Items : i \in ever \ present => i \notin present']_vars
  BY <1>1
<1> QED
  BY <1>2, Invariant, PTL DEF Spec, GoneStaysGone

-----------------------------------------------------------------------------
(* Copies at the edges.  OnlyFailureLeavesCopies is not inductive: an      *)
(* invalidation must reach all that the call has swept, so these are under *)
(* the prefixes it invalidates; and a call that ends without a word has    *)
(* swept nothing, since only one in the prefixes has emptied any.          *)

SweptIsEmptied == \A p \in Procs :
    /\ \A k \in swept[p] : k[1] \in emptied[p]
    /\ emptied[p] # {} => stage[p] \in Prefixes

CopyInv == SweptIsEmptied /\ OnlyFailureLeavesCopies

(* A step after which p is at the stage s and has swept w under e: it has  *)
(* swept what it takes from under a copy, and does not forget what it      *)
(* swept but by clearing the copies, or by excusing itself.                *)
Sweeps(p, s, e, w) ==
    /\ stage' = [stage EXCEPT ![p] = s] /\ emptied' = [emptied EXCEPT ![p] = e]
    /\ swept' = [swept EXCEPT ![p] = w]
    /\ \A k \in w : k[1] \in e
    /\ e # {} => s \in Prefixes
    /\ excused \subseteq excused'
    /\ \A k \in cached' \ present' : k \in cached \ present \/ k \in w \cup excused'
    /\ \A k \in swept[p] : k \in w \cup excused' \/ k \notin cached'

LEMMA SweepKeeps ==
    ASSUME TypeOK, CopyInv, NEW p \in Procs, NEW s, NEW e, NEW w, Sweeps(p, s, e, w)
    PROVE  CopyInv'
<1> USE DEF Sweeps
<1>1. /\ stage'[p] = s /\ emptied'[p] = e /\ swept'[p] = w
      /\ \A q \in Procs \ {p} : stage'[q] = stage[q] /\ emptied'[q] = emptied[q]
                                /\ swept'[q] = swept[q]
  BY DEF TypeOK
<1>2. SweptIsEmptied'
  <2>1. ASSUME NEW q \in Procs
        PROVE  /\ \A k \in swept'[q] : k[1] \in emptied'[q]
               /\ emptied'[q] # {} => stage'[q] \in Prefixes
    <3>1. CASE q = p
      BY <1>1, <3>1
    <3>2. CASE q # p
      BY <1>1, <3>2 DEF CopyInv, SweptIsEmptied
    <3> QED
      BY <3>1, <3>2
  <2> QED
    BY <2>1 DEF SweptIsEmptied
<1>3. OnlyFailureLeavesCopies'
  <2> SUFFICES ASSUME NEW k \in cached' \ present', k \notin excused'
               PROVE  \E q \in Procs : k \in swept'[q]
    BY DEF OnlyFailureLeavesCopies
  <2>1. CASE k \in w
    BY <1>1, <2>1
  <2>2. CASE k \notin w
    <3>1. k \in cached \ present /\ k \notin excused
      BY <2>2
    <3>2. PICK q \in Procs : k \in swept[q]
      BY <3>1 DEF CopyInv, OnlyFailureLeavesCopies
    <3>3. q # p
      BY <2>2, <3>2
    <3> QED
      BY <1>1, <3>2, <3>3
  <2> QED
    BY <2>1, <2>2
<1> QED
  BY <1>2, <1>3 DEF CopyInv

(* A step that neither sweeps nor forgets.  It deletes no image.           *)
LEMMA NoSweepKeeps ==
    ASSUME Inv, CopyInv, NEW p \in Procs, NEW s,
           stage' = [stage EXCEPT ![p] = s], UNCHANGED <<emptied, swept, edge>>,
           emptied[p] # {} => s \in Prefixes,
           present \cap Images \subseteq present'
    PROVE  CopyInv'
<1>1. CallsOK /\ RestOK
  BY Types DEF Inv
<1>2. /\ emptied[p] \in SUBSET Prefixes /\ emptied' = [emptied EXCEPT ![p] = emptied[p]]
      /\ swept[p] \in SUBSET Images /\ swept' = [swept EXCEPT ![p] = swept[p]]
  BY <1>1 DEF CallsOK
<1>3. \A k \in swept[p] : k[1] \in emptied[p]
  BY DEF CopyInv, SweptIsEmptied
<1>4. excused' = excused /\ cached' = cached
  BY DEF edge
<1>5. cached' \ present' \subseteq cached \ present
  BY <1>1, <1>4 DEF RestOK
<1>6. TypeOK
  BY DEF Inv
<1>7. Sweeps(p, s, emptied[p], swept[p])
  BY <1>2, <1>3, <1>4, <1>5 DEF Sweeps
<1> QED
  BY <1>6, <1>7, SweepKeeps

(* A call that ends, having excused itself for what it swept. *)
LEMMA StopKeepsCopies ==
    ASSUME Inv, CopyInv, NEW p \in Procs, Stop(p),
           excused \subseteq excused', swept[p] \subseteq excused', UNCHANGED cached,
           \A k \in (present \ present') \cap Images : k \in excused'
    PROVE  CopyInv'
<1>1. RestOK /\ TypeOK
  BY Types DEF Inv
<1>2. \A k \in cached' \ present' : k \in cached \ present \/ k \in excused'
  BY <1>1 DEF RestOK
<1>3. Sweeps(p, BuildTable, {}, {})
  BY <1>2 DEF Stop, Sweeps
<1> QED
  BY <1>1, <1>3, SweepKeeps

(* A step from a stage to the next forgets nothing: behind the last prefix *)
(* comes the invalidation, when there was anything to sweep.               *)
LEMMA NextStageStays ==
    ASSUME CopyInv, NEW p \in Procs, NextStage(p), stage[p] \in Tables \cup Prefixes
    PROVE  \E s \in Stages : /\ stage' = [stage EXCEPT ![p] = s]
                             /\ emptied[p] # {} => s \in Prefixes
<1> USE DEF Stages, Tables, Prefixes, ProfileStage
<1>1. emptied[p] # {} => stage[p] \in 5..9
  BY DEF CopyInv, SweptIsEmptied
<1>2. CASE stage[p] + 1 \in Tables \cup Prefixes
  <2>1. stage' = [stage EXCEPT ![p] = stage[p] + 1] /\ stage[p] + 1 \in Stages
    BY <1>2 DEF NextStage, Goto
  <2>2. emptied[p] # {} => stage[p] + 1 \in Prefixes
    BY <1>1, <1>2
  <2> QED
    BY <2>1, <2>2
<1>3. CASE stage[p] + 1 \notin Tables \cup Prefixes /\ emptied[p] = {}
  BY <1>3 DEF NextStage, Goto
<1>4. CASE stage[p] + 1 \notin Tables \cup Prefixes /\ emptied[p] # {}
  BY <1>1, <1>4 DEF NextStage, Goto
<1> QED
  BY <1>2, <1>3, <1>4

LEMMA ReadKeepsCopies ==
    ASSUME Inv, CopyInv, NEW p \in Procs, Query(p) \/ ListObjects(p)
    PROVE  CopyInv'
<1>1. PICK c \in {"batch", "objects"} : Read(p, c)
  BY DEF Query, ListObjects
<1>2. stage[p] \in Tables \cup Prefixes /\ UNCHANGED <<present, emptied, swept, edge>>
  BY DEF Query, ListObjects, account
<1>3. \E s \in Stages : /\ stage' = [stage EXCEPT ![p] = s]
                        /\ emptied[p] # {} => s \in Prefixes
  <2>1. CASE NextStage(p)
    BY <1>2, <2>1, NextStageStays
  <2>2. ASSUME NEW n, Goto(p, c, stage[p], n)
        PROVE  <1>3
    <3>1. stage[p] \in Stages /\ (emptied[p] # {} => stage[p] \in Prefixes)
      BY <1>2 DEF CopyInv, SweptIsEmptied, Stages
    <3> QED
      BY <2>2, <3>1 DEF Goto
  <2> QED
    BY <1>1, <2>1, <2>2 DEF Read
<1> QED
  BY <1>2, <1>3, NoSweepKeeps

LEMMA BatchKeepsCopies ==
    ASSUME Inv, CopyInv, NEW p \in Procs, BatchDelete(p) \/ BatchUnprocessed(p)
    PROVE  CopyInv'
<1>1. CallsOK /\ WellPlaced(pc[p], stage[p], cursor[p], page[p])
  BY Types DEF Inv, Placed
<1>2. stage[p] \in Tables /\ page[p] \cap Images = {}
  <2>1. stage[p] \in Tables /\ \A x \in page[p] : x \in Things /\ x[1] \in Tables
    BY <1>1 DEF BatchDelete, BatchUnprocessed, WellPlaced
  <2> QED
    BY <2>1, Places DEF Tables, Prefixes
<1>3. UNCHANGED edge /\ present \cap Images \subseteq present'
  BY <1>2 DEF BatchDelete, BatchUnprocessed
<1>4. stage[p] \notin Prefixes
  BY <1>2 DEF Tables, Prefixes
<1>5. emptied[p] = {} /\ swept[p] = {}
  BY <1>4 DEF CopyInv, SweptIsEmptied
<1>6. CASE Stop(p)
  BY <1>3, <1>5, <1>6, StopKeepsCopies DEF edge
<1>7. CASE ~Stop(p)
  <2>1. UNCHANGED <<emptied, swept>>
    BY <1>7 DEF BatchDelete, BatchUnprocessed
  <2>2. \E s \in Stages : stage' = [stage EXCEPT ![p] = s]
    <3>1. CASE UNCHANGED stage
      <4>1. stage[p] \in Stages /\ stage = [stage EXCEPT ![p] = stage[p]]
        BY <1>1 DEF CallsOK
      <4> QED
        BY <3>1, <4>1
    <3>2. CASE NextStage(p)
      BY <1>2, <3>2, NextStageStays
    <3>3. CASE Goto(p, "list", stage[p], cursor[p])
      BY <1>1, <3>3 DEF Goto, CallsOK
    <3> QED
      BY <1>7, <3>1, <3>2, <3>3 DEF BatchDelete, BatchUnprocessed, Onward
  <2> QED
    BY <1>3, <1>5, <2>1, <2>2, NoSweepKeeps
<1> QED
  BY <1>6, <1>7

LEMMA ObjectsKeepCopies ==
    ASSUME Inv, CopyInv, NEW p \in Procs, DeleteObjects(p)
    PROVE  CopyInv'
<1>1. CallsOK /\ TypeOK /\ WellPlaced(pc[p], stage[p], cursor[p], page[p])
  BY Types DEF Inv, Placed
<1>2. /\ stage[p] \in Prefixes /\ page[p] \subseteq Images
      /\ \A k \in page[p] : k[1] = stage[p]
  BY <1>1, Places DEF DeleteObjects, WellPlaced
<1>3. /\ emptied' = [emptied EXCEPT ![p] = emptied[p] \cup {stage[p]}]
      /\ swept' = [swept EXCEPT ![p] = swept[p] \cup page[p]]
      /\ stage' = [stage EXCEPT ![p] = stage[p]]
      /\ present' = present \ page[p] /\ cached' = cached /\ excused' = excused
  BY <1>1 DEF DeleteObjects, Goto, CallsOK, edge
<1>4. \A k \in swept[p] \cup page[p] : k[1] \in emptied[p] \cup {stage[p]}
  BY <1>2 DEF CopyInv, SweptIsEmptied
<1>5. \A k \in cached' \ present' : k \in cached \ present \/ k \in swept[p] \cup page[p]
  BY <1>3
<1>6. Sweeps(p, stage[p], emptied[p] \cup {stage[p]}, swept[p] \cup page[p])
  BY <1>2, <1>3, <1>4, <1>5 DEF Sweeps
<1> QED
  BY <1>1, <1>6, SweepKeeps

LEMMA InvalidationKeepsCopies ==
    ASSUME Inv, CopyInv, NEW p \in Procs, Invalidate(p) \/ InvalidateFails(p)
    PROVE  CopyInv'
<1>1. TypeOK
  BY DEF Inv
<1>2. /\ stage' = [stage EXCEPT ![p] = ProfileStage]
      /\ emptied' = [emptied EXCEPT ![p] = {}] /\ swept' = [swept EXCEPT ![p] = {}]
      /\ UNCHANGED present
  BY DEF Invalidate, InvalidateFails, Goto, account
<1>3. excused \subseteq excused' /\ cached' \subseteq cached
  BY DEF Invalidate, InvalidateFails
<1>4. \A k \in swept[p] : k \in excused' \/ k \notin cached'
  BY DEF Invalidate, InvalidateFails, CopyInv, SweptIsEmptied
<1>5. Sweeps(p, ProfileStage, {}, {})
  BY <1>2, <1>3, <1>4 DEF Sweeps
<1> QED
  BY <1>1, <1>5, SweepKeeps

(* What a call that is not in the prefixes has swept, or ends without. *)
LEMMA EndKeepsCopies ==
    ASSUME Inv, CopyInv, NEW p \in Procs,
           Notify(p) \/ DeleteObjectsErrors(p) \/ Fail(p)
    PROVE  CopyInv'
<1>1. CASE Notify(p)
  <2>1. stage[p] \notin Prefixes
    BY <1>1 DEF Notify, Inv, Placed, WellPlaced, ProfileStage, Prefixes
  <2>2. swept[p] = {}
    BY <2>1 DEF CopyInv, SweptIsEmptied
  <2> QED
    BY <1>1, <2>2, StopKeepsCopies DEF Notify, account, edge
<1>2. CASE DeleteObjectsErrors(p)
  BY <1>2, StopKeepsCopies DEF DeleteObjectsErrors
<1>3. CASE Fail(p)
  BY <1>3, StopKeepsCopies DEF Fail, account
<1> QED
  BY <1>1, <1>2, <1>3

LEMMA CallsKeepCopies ==
    ASSUME Inv, CopyInv, NEW p \in Procs,
           Retry(p) \/ Succeed(p) \/ BatchUnprocessed(p) \/ DeleteObjectsErrors(p) \/ Fail(p)
    PROVE  CopyInv'
<1>1. CASE Retry(p)
  <2>1. Begin(p)
    BY <1>1 DEF Retry, DeleteProfile, handleDeleteProfile
  <2>2. stage[p] = BuildTable
    BY <2>1 DEF Begin, Inv, Placed, WellPlaced
  <2>3. emptied[p] = {}
    BY <2>2 DEF CopyInv, SweptIsEmptied, BuildTable, Prefixes
  <2> QED
    BY <2>1, <2>3, NoSweepKeeps DEF Begin, account
<1>2. CASE ProfileDelete(p)
  <2>1. Profile \notin Images
    BY Places DEF Profile, ProfileStage, Prefixes, Things
  <2>2. stage[p] = ProfileStage
    BY <1>2 DEF ProfileDelete, Inv, Placed, WellPlaced
  <2>3. emptied[p] = {}
    BY <2>2 DEF CopyInv, SweptIsEmptied, ProfileStage, Prefixes
  <2> QED
    BY <1>2, <2>1, <2>3, NoSweepKeeps DEF ProfileDelete, Goto
<1> QED
  BY <1>1, <1>2, ReadKeepsCopies, BatchKeepsCopies, ObjectsKeepCopies,
     InvalidationKeepsCopies, EndKeepsCopies DEF Succeed

(* Nobody else deletes an image, and only what there is gets a copy. *)
LEMMA OthersKeepCopies ==
    ASSUME Inv, CopyInv, Others
    PROVE  CopyInv'
<1>1. RestOK
  BY Types DEF Inv
<1>2. UNCHANGED <<stage, emptied, swept, excused>> /\ cached' \subseteq cached \cup present
  BY DEF Others, CreateKeyboard, CreateSwitch, CreateKeycapSet, Create, CreateProfile,
         UpdateKeyboard, UpdateSwitch, UpdateKeycapSet, Update, CreateBuild, UpdateBuild,
         AddImage, Upload, Serve, Replicate, Ask, call, scan, edge
<1>3. present \cap Images \subseteq present'
  <2>1. present \subseteq present' \/ \E b \in BuildItems : UpdateBuild(b)
    BY DEF Others, CreateKeyboard, CreateSwitch, CreateKeycapSet, Create, CreateProfile,
           UpdateKeyboard, UpdateSwitch, UpdateKeycapSet, Update, CreateBuild, AddImage,
           Upload, Serve, Replicate, Ask, Store, account
  <2>2. \A b \in BuildItems : UpdateBuild(b) => present \ {MarkerOf(b)} \subseteq present'
    BY DEF UpdateBuild, Store
  <2>3. \A b \in BuildItems : MarkerOf(b) \notin Images
    BY Places DEF MarkerOf, BuildTable, Prefixes, Things
  <2> QED
    BY <2>1, <2>2, <2>3
<1>4. cached' \ present' \subseteq cached \ present
  <2> SUFFICES ASSUME NEW k \in cached' \ present'
               PROVE  k \in cached \ present
    OBVIOUS
  <2>1. k \in Images
    <3>1. cached' \subseteq Images
      BY <1>1, StepOfOthers DEF RestOK, edge
    <3> QED
      BY <3>1
  <2> QED
    BY <1>2, <1>3, <2>1
<1> QED
  BY <1>2, <1>4 DEF CopyInv, SweptIsEmptied, OnlyFailureLeavesCopies

(* Behind an invalidation that went through, no edge keeps a copy of what  *)
(* Account.Delete swept before it; what a failed call leaves, it is        *)
(* excused for (internal/accountdelete/accountdelete.go), whatever else    *)
(* goes on.                                                                *)
THEOREM OnlyFailures == Spec => []OnlyFailureLeavesCopies
<1>1. Init => CopyInv
  <2>1. Init => SweptIsEmptied
    BY DEF Init, SweptIsEmptied
  <2>2. Init => OnlyFailureLeavesCopies
    BY DEF Init, OnlyFailureLeavesCopies
  <2> QED
    BY <2>1, <2>2 DEF CopyInv
<1>2. Inv /\ CopyInv /\ [Next]_vars => CopyInv'
  <2> SUFFICES ASSUME Inv, CopyInv, [Next]_vars PROVE CopyInv'
    OBVIOUS
  <2>1. CASE UNCHANGED vars
    BY <2>1 DEF vars, account, edge, call, scan, CopyInv, SweptIsEmptied,
                OnlyFailureLeavesCopies
  <2> QED
    BY <2>1, OthersKeepCopies, CallsKeepCopies DEF Next
<1>3. CopyInv => OnlyFailureLeavesCopies
  BY DEF CopyInv
<1> QED
  BY <1>1, <1>2, <1>3, Invariant, PTL DEF Spec
=============================================================================

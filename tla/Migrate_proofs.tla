--------------------------- MODULE Migrate_proofs ---------------------------
(***************************************************************************)
(* Proofs about Migrate, for any account, any changes of it while it is    *)
(* dumped, and any number of restores that are cut short.                  *)
(***************************************************************************)
EXTENDS Migrate, FiniteSetTheorems, WellFoundedInduction, TLAPS

-----------------------------------------------------------------------------
(* The inductive invariant *)

Dumping == pc \in {"list", "fetch"}
Running == pc \in {"next", "put", "save"}

(* The functions among what TypeOK allows. *)
IsMapping(m) ==
    /\ DOMAIN m \subseteq Nodes /\ m \in [DOMAIN m -> Ids]
    /\ \A x \in DOMAIN m : m[x].of = x

Copy == [under : Ids \cup {NoMap}, refs : SUBSET Ids, bytes : {"none", "dumped", "other"}]

LiveOK ==
    /\ DOMAIN live \subseteq Ids /\ IsFiniteSet(DOMAIN live)
    /\ live \in [DOMAIN live -> Copy]

FunctionsOK ==
    /\ LiveOK
    /\ disk \in {NoMap, Torn} \/ IsMapping(disk)
    /\ mem = NoMap \/ IsMapping(mem)

(* What the dump has, but for the items that it has a directory of only. *)
Written == dir \ broken

(* What the dump has come to: the collections before this one are there,   *)
(* and of this one what is neither listed nor on a page to come.           *)
Accounted(x, i) ==
    \/ i < at /\ Tree[x] \subseteq Written
    \/ i = at /\ (Tree[x] \subseteq Written \/ x \in todo \/ (pc = "list" /\ Position[x] > cursor))
    \/ i > at

DumpInv ==
    /\ Dumping => at \in DOMAIN Collections
    /\ pc = "fetch" => cursor = 0
    /\ Dumping => \A x \in stable : \A i \in DOMAIN Collections :
                    Kind[x] = Collections[i] => Accounted(x, i)

(* Where the restore is: behind the place it has come to, all that the API *)
(* gives an id to is in the map.                                           *)
WalkInv ==
    /\ \A x \in dir : Parent[x] \in dir
    /\ Running => at \in 1..(Len(Walk) + 1)
    /\ pc = "save" => at \in DOMAIN Walk /\ Kind[Node] \in Created /\ Node \in DOMAIN mem
    /\ pc = "put" => /\ at \in DOMAIN Walk /\ Kind[Node] \in Slots \cup {"image"}
                     /\ Kind[Node] = "image" => Node \notin DOMAIN mem
    /\ Running => \A y \in dir : Position[y] < at /\ Kind[y] \in Created => y \in DOMAIN mem

(* The map in memory goes on from that on disk, by one id at most that is  *)
(* about to be saved, and by images.                                       *)
MapInv ==
    /\ Running /\ disk # NoMap => \A y \in DOMAIN disk : y \in DOMAIN mem /\ mem[y] = disk[y]
    /\ Running => /\ disk # Torn
                  /\ \A y \in DOMAIN mem : Kind[y] \in Created =>
                       (pc = "save" /\ y = Node) \/ (disk # NoMap /\ y \in DOMAIN disk)

Inv == TypeOK /\ FunctionsOK /\ DumpInv /\ WalkInv /\ MapInv /\ OneSurplusPerCut

-----------------------------------------------------------------------------
(* The walk and what it goes through                                       *)

LEMMA WalkFacts ==
    /\ Len(Walk) \in Nat /\ DOMAIN Walk = 1..Len(Walk)
    /\ \A i \in DOMAIN Walk : Walk[i] \in Nodes /\ Position[Walk[i]] = i
    /\ \A x \in Nodes : Position[x] \in DOMAIN Walk /\ Walk[Position[x]] = x
<1>1. Len(Walk) \in Nat /\ DOMAIN Walk = 1..Len(Walk)
  BY Tables
<1>2. \A i \in DOMAIN Walk : Walk[i] \in Nodes
  BY Tables
<1>3. \A x \in Nodes : \E i \in DOMAIN Walk : Walk[i] = x
  BY DEF Nodes, Range
<1>4. \A x \in Nodes : Position[x] \in DOMAIN Walk /\ Walk[Position[x]] = x
  BY <1>3 DEF Position
<1>5. \A i \in DOMAIN Walk : Position[Walk[i]] = i
  BY <1>2, <1>4, Tables
<1> QED
  BY <1>1, <1>2, <1>4, <1>5

LEMMA KindFacts ==
    ASSUME NEW x \in Nodes
    PROVE  /\ Kind[x] \in {"keyboard", "switch", "set", "profile", "build",
                           "avatar", "part", "kit", "slot", "image", "end"}
           /\ x \in Items <=> Kind[x] \in {"keyboard", "switch", "set", "profile", "build"}
           /\ Kind[x] = "avatar" => Kind[Parent[x]] = "profile"
           /\ Kind[x] = "part" => Kind[Parent[x]] = "keyboard"
           /\ Kind[x] = "kit" => Kind[Parent[x]] = "set"
           /\ Kind[x] = "slot" => Kind[Parent[x]] \in {"switch", "kit"}
           /\ Kind[x] \in {"image", "end"} => Kind[Parent[x]] \in {"keyboard", "build"}
           /\ Parent[x] \in Nodes /\ Refs[x] \subseteq Nodes
           /\ Kind[x] # "build" => Refs[x] = {}
           /\ \A r \in Refs[x] : Kind[r] \in Created \ {"build"}
<1>1. Range(Collections) = {"keyboard", "switch", "set", "profile", "build"}
  BY DEF Range, Collections
<1>2. DOMAIN Holders = {"avatar", "part", "kit", "slot", "image", "end"}
  BY DEF Holders
<1>3. x \notin Items => Kind[Parent[x]] \in Holders[Kind[x]]
  BY Kinds
<1>4. /\ Kind[x] = "avatar" /\ x \notin Items => Kind[Parent[x]] = "profile"
      /\ Kind[x] = "part" /\ x \notin Items => Kind[Parent[x]] = "keyboard"
      /\ Kind[x] = "kit" /\ x \notin Items => Kind[Parent[x]] = "set"
      /\ Kind[x] = "slot" /\ x \notin Items => Kind[Parent[x]] \in {"switch", "kit"}
      /\ Kind[x] \in {"image", "end"} /\ x \notin Items => Kind[Parent[x]] \in {"keyboard", "build"}
  BY <1>3 DEF Holders
<1>5. Kind[x] \in Range(Collections) \cup DOMAIN Holders
  BY Tables
<1>6. x \in Items <=> Kind[x] \in Range(Collections)
  BY Kinds
<1>7. \A r \in Refs[x] : Kind[x] = "build" /\ Kind[r] \in Created \ {"build"}
  BY Kinds DEF Referable, Created
<1> QED
  BY <1>1, <1>2, <1>4, <1>5, <1>6, <1>7, Tables

(* What a node is of comes before it. *)
LEMMA ParentFirst ==
    ASSUME NEW x \in Nodes
    PROVE  /\ Position[Parent[x]] <= Position[x]
           /\ x \notin Items => Position[Parent[x]] < Position[x]
<1>1. Position[Parent[x]] <= Position[x]
  BY WholeItems
<1>2. ASSUME Position[Parent[x]] = Position[x]
      PROVE  Parent[x] = x
  BY <1>2, WalkFacts, KindFacts
<1>3. Position[Parent[x]] \in Nat /\ Position[x] \in Nat
  BY WalkFacts, KindFacts
<1> QED
  BY <1>1, <1>2, <1>3 DEF Items

LEMMA NodesFinite == IsFiniteSet(Nodes)
<1>1. IsFiniteSet(1..Len(Walk))
  BY WalkFacts, FS_Interval
<1>2. Walk \in Surjection(1..Len(Walk), Nodes)
  BY WalkFacts, Tables DEF Surjection, Nodes, Range
<1> QED
  BY <1>1, <1>2, FS_Surjection

LEMMA TreeIs ==
    ASSUME NEW x \in Items
    PROVE  Tree[x] = {y \in Nodes : Top(y) = x}
<1>1. x \in Nodes
  BY DEF Items
<1> QED
  BY <1>1 DEF Tree

LEMMA TreeFacts ==
    ASSUME NEW x \in Items
    PROVE  /\ Tree[x] \subseteq Nodes /\ x \in Tree[x]
           /\ \A y \in Tree[x] : Position[x] <= Position[y]
           /\ \A y \in Tree[x] : Parent[y] \in Tree[x]
<1>1. x \in Nodes /\ Parent[x] = x
  BY DEF Items
<1>2. Tree[x] = {y \in Nodes : Parent[Parent[y]] = x}
  BY TreeIs DEF Top
<1>3. \A y \in Tree[x] : Position[x] <= Position[y]
  <2> SUFFICES ASSUME NEW y \in Tree[x] PROVE Position[x] <= Position[y]
    OBVIOUS
  <2>1. y \in Nodes /\ Parent[y] \in Nodes /\ Parent[Parent[y]] = x
    BY <1>2, KindFacts
  <2>2. Position[Parent[Parent[y]]] <= Position[Parent[y]] /\ Position[Parent[y]] <= Position[y]
    BY <2>1, ParentFirst
  <2>3. Position[x] \in Nat /\ Position[Parent[y]] \in Nat /\ Position[y] \in Nat
    BY <1>1, <2>1, WalkFacts
  <2> QED
    BY <2>1, <2>2, <2>3
<1>4. ASSUME NEW y \in Tree[x] PROVE Parent[y] \in Tree[x]
  <2>1. y \in Nodes /\ Parent[y] \in Nodes /\ Parent[Parent[y]] = x
    BY <1>2, KindFacts
  <2> QED
    BY <1>1, <1>2, <2>1
<1> QED
  BY <1>1, <1>2, <1>3, <1>4

LEMMA IntervalSize ==
    ASSUME NEW a \in Nat, NEW n \in Nat, n # 0
    PROVE  IsFiniteSet(a..(a + n - 1)) /\ Cardinality(a..(a + n - 1)) = n
<1> DEFINE b == a + n - 1
<1>1. a \in Int /\ b \in Int /\ ~(a > b) /\ b - a + 1 = n
  OBVIOUS
<1> HIDE DEF b
<1>2. IsFiniteSet(a..b) /\ Cardinality(a..b) = n
  BY <1>1, FS_Interval
<1> QED
  BY <1>2 DEF b

(* The nodes of an item are those that follow it, as many as there are. *)
LEMMA TreeIsInterval ==
    ASSUME NEW x \in Items
    PROVE  /\ Cardinality(Tree[x]) \in Nat /\ Cardinality(Tree[x]) > 0
           /\ \A i \in Position[x]..(Position[x] + Cardinality(Tree[x]) - 1) :
                i \in DOMAIN Walk /\ Walk[i] \in Tree[x]
<1> DEFINE T == Tree[x]
           n == Cardinality(T)
           P == {Position[y] : y \in T}
           I == Position[x]..(Position[x] + n - 1)
           f == [y \in T |-> Position[y]]
<1>1. T \subseteq Nodes /\ x \in T /\ Position[x] \in Nat
  BY TreeFacts, WalkFacts
<1>2. IsFiniteSet(T)
  BY <1>1, NodesFinite, FS_Subset
<1>3. n \in Nat
  BY <1>2, FS_CardinalityType
<1>4. n # 0
  BY <1>1, <1>2, FS_EmptySet
<1>5. f \in Injection(T, P)
  <2>1. \A y, z \in T : f[y] = f[z] => y = z
    BY <1>1, WalkFacts
  <2>2. f \in [T -> P]
    OBVIOUS
  <2> QED
    BY <2>1, <2>2 DEF Injection, IsInjective
<1>6. f \in Surjection(T, P)
  BY DEF Surjection
<1>7. Cardinality(P) = n /\ IsFiniteSet(P)
  <2>1. /\ IsFiniteSet(P) /\ Cardinality(P) <= n
        /\ Cardinality(P) = n <=> f \in Injection(T, P)
    BY <1>2, <1>6, FS_Surjection
  <2> QED
    BY <1>5, <2>1
<1>8. P \subseteq I
  <2> SUFFICES ASSUME NEW y \in T PROVE Position[y] \in I
    OBVIOUS
  <2>1. Position[y] \in Nat /\ Position[x] <= Position[y]
    BY <1>1, TreeFacts, WalkFacts
  <2>2. Top(y) = x
    BY TreeIs
  <2>3. Position[y] < Position[x] + n
    BY <1>1, <2>2, WholeItems
  <2> QED
    BY <1>1, <1>3, <2>1, <2>3
<1>9. IsFiniteSet(I) /\ Cardinality(I) = n
  BY <1>1, <1>3, <1>4, IntervalSize
<1>10. P = I
  BY <1>7, <1>8, <1>9, FS_Subset
<1>11. \A i \in I : i \in DOMAIN Walk /\ Walk[i] \in T
  <2> SUFFICES ASSUME NEW y \in T
               PROVE  Position[y] \in DOMAIN Walk /\ Walk[Position[y]] \in T
    BY <1>10
  <2> QED
    BY <1>1, WalkFacts
<1> QED
  BY <1>3, <1>4, <1>11

(* A build holds but images, and the end of them. *)
LEMMA BuildTree ==
    ASSUME NEW b \in Items, Kind[b] = "build", NEW y \in Tree[b], y # b
    PROVE  Kind[y] \in {"image", "end"}
<1>1. b \in Nodes /\ Parent[b] = b /\ y \in Nodes /\ Parent[Parent[y]] = b
  BY TreeIs DEF Items, Top
<1> DEFINE z == Parent[y]
<1>2. z \in Nodes
  BY <1>1, KindFacts
<1>3. CASE z = b
  <2>1. y \notin Items
    BY <1>1, <1>3 DEF Items
  <2> QED
    BY <1>1, <1>3, <2>1, KindFacts
<1>4. CASE z # b
  <2>1. z \notin Items
    BY <1>1, <1>2, <1>4 DEF Items
  <2>2. Kind[z] \in {"image", "end"}
    BY <1>1, <1>2, <2>1, KindFacts
  <2>3. y # z => y \notin Items
    BY DEF Items
  <2>4. y = z
    BY <1>1, <1>2, <2>2, <2>3, KindFacts
  <2> QED
    BY <2>2, <2>4
<1> QED
  BY <1>3, <1>4

-----------------------------------------------------------------------------
(* Pages of a listing                                                      *)

LEMMA FirstAndLast ==
    ASSUME NEW S \in SUBSET Nodes, S # {}
    PROVE  /\ \E x \in S : \A y \in S : Position[x] <= Position[y]
           /\ \E x \in S : \A y \in S : Position[y] <= Position[x]
<1> DEFINE R == StrictSubsetOrdering(Nodes)
           F == FiniteSubsetsOf(Nodes)
           Before(x) == {y \in Nodes : Position[y] <= Position[x]}
           After(x) == {y \in Nodes : Position[x] <= Position[y]}
<1>1. IsWellFoundedOn(R, F)
  BY FS_StrictSubsetOrderingWellFounded
<1>2. \A x \in Nodes : Position[x] \in Nat
  BY WalkFacts
<1>3. \A T \in SUBSET Nodes : T \in F
  BY NodesFinite, FS_Subset DEF FiniteSubsetsOf
<1>4. \E x \in S : \A y \in S : Position[x] <= Position[y]
  <2> DEFINE T == {Before(x) : x \in S}
  <2>1. T \subseteq F /\ T # {}
    BY <1>3
  <2> HIDE DEF T, R, F
  <2>2. PICK t \in T : \A u \in T : ~(<<u, t>> \in R)
    BY <1>1, <2>1, WFMin
  <2>3. PICK x \in S : t = Before(x)
    BY <2>2 DEF T
  <2>4. ASSUME NEW y \in S, Position[y] < Position[x]
        PROVE  FALSE
    <3>1. Before(y) \in T /\ Before(y) \subseteq Before(x)
      BY <1>2, <2>4 DEF T
    <3>2. x \in Before(x) /\ x \notin Before(y)
      BY <1>2, <2>4
    <3>3. <<Before(y), Before(x)>> \in R
      BY <3>1, <3>2 DEF R, StrictSubsetOrdering
    <3> QED
      BY <2>2, <2>3, <3>1, <3>3
  <2> QED
    BY <1>2, <2>4
<1>5. \E x \in S : \A y \in S : Position[y] <= Position[x]
  <2> DEFINE T == {After(x) : x \in S}
  <2>1. T \subseteq F /\ T # {}
    BY <1>3
  <2> HIDE DEF T, R, F
  <2>2. PICK t \in T : \A u \in T : ~(<<u, t>> \in R)
    BY <1>1, <2>1, WFMin
  <2>3. PICK x \in S : t = After(x)
    BY <2>2 DEF T
  <2>4. ASSUME NEW y \in S, Position[x] < Position[y]
        PROVE  FALSE
    <3>1. After(y) \in T /\ After(y) \subseteq After(x)
      BY <1>2, <2>4 DEF T
    <3>2. x \in After(x) /\ x \notin After(y)
      BY <1>2, <2>4
    <3>3. <<After(y), After(x)>> \in R
      BY <3>1, <3>2 DEF R, StrictSubsetOrdering
    <3> QED
      BY <2>2, <2>3, <3>1, <3>3
  <2> QED
    BY <1>2, <2>4
<1> QED
  BY <1>4, <1>5

LEMMA MaxPosition ==
    ASSUME NEW S \in SUBSET Nodes, S # {}
    PROVE  \E m \in S : /\ Max({Position[x] : x \in S}) = Position[m]
                        /\ \A y \in S : Position[y] <= Position[m]
<1>1. PICK m \in S : \A y \in S : Position[y] <= Position[m]
  BY FirstAndLast
<1> DEFINE P == {Position[x] : x \in S}
<1>2. \A p \in P : p \in Nat
  BY WalkFacts
<1>3. Position[m] \in P /\ \A p \in P : Position[m] >= p
  BY <1>1, <1>2
<1> HIDE DEF P
<1>4. \A k \in P : (\A p \in P : k >= p) => k = Position[m]
  BY <1>2, <1>3
<1>5. Max(P) \in P /\ \A p \in P : Max(P) >= p
  BY <1>3 DEF Max
<1> QED
  BY <1>1, <1>4, <1>5 DEF P

(* A page is all that a listing has up to its last item; a page that is    *)
(* not full is all there is.                                               *)
LEMMA PageFacts ==
    ASSUME source \subseteq Items
    PROVE  /\ Page \subseteq Listed /\ Listed \subseteq source
           /\ \A x \in Page : \A y \in Listed : Position[y] <= Position[x] => y \in Page
           /\ Cardinality(Page) # PageLimit => Page = Listed
           /\ Cardinality(Page) = PageLimit => Page # {}
<1> DEFINE UpTo(x) == {y \in Listed : Position[y] <= Position[x]}
<1>1. Page \subseteq Listed /\ Listed \subseteq source /\ Listed \subseteq Nodes
  BY DEF Page, Listed, Items
<1>2. \A x \in Listed : x \in Page <=> Cardinality(UpTo(x)) <= PageLimit
  BY DEF Page
<1>3. \A T \in SUBSET Listed : IsFiniteSet(T) /\ Cardinality(T) \in Nat
  BY <1>1, NodesFinite, FS_Subset, FS_CardinalityType
<1>4. \A x \in Nodes : Position[x] \in Nat
  BY WalkFacts
<1>5. PageLimit \in Nat /\ PageLimit > 0
  BY Bounds
<1>6. \A x \in Page : \A y \in Listed : Position[y] <= Position[x] => y \in Page
  <2> SUFFICES ASSUME NEW x \in Page, NEW y \in Listed, Position[y] <= Position[x]
               PROVE  y \in Page
    OBVIOUS
  <2>1. UpTo(y) \subseteq UpTo(x) /\ UpTo(x) \subseteq Listed
    BY <1>1, <1>4
  <2>2. /\ IsFiniteSet(UpTo(x)) /\ Cardinality(UpTo(y)) <= Cardinality(UpTo(x))
        /\ Cardinality(UpTo(y)) \in Nat /\ Cardinality(UpTo(x)) \in Nat
    BY <1>3, <2>1, FS_Subset
  <2>3. Cardinality(UpTo(x)) <= PageLimit
    BY <1>1, <1>2
  <2>4. Cardinality(UpTo(y)) <= PageLimit
    BY <1>5, <2>2, <2>3
  <2> QED
    BY <1>2, <2>4
<1>7. Cardinality(Page) <= PageLimit
  <2>1. CASE Page = {}
    BY <1>5, <2>1, FS_EmptySet
  <2>2. CASE Page # {}
    <3>1. PICK m \in Page : \A y \in Page : Position[y] <= Position[m]
      BY <1>1, <2>2, FirstAndLast
    <3>2. Page \subseteq UpTo(m) /\ UpTo(m) \subseteq Listed
      BY <1>1, <3>1
    <3>3. /\ Cardinality(Page) <= Cardinality(UpTo(m)) /\ Cardinality(UpTo(m)) <= PageLimit
          /\ Cardinality(Page) \in Nat /\ Cardinality(UpTo(m)) \in Nat
      BY <1>1, <1>2, <1>3, <3>2, FS_Subset
    <3> QED
      BY <1>5, <3>3
  <2> QED
    BY <2>1, <2>2
<1>8. ASSUME Page # Listed PROVE Cardinality(Page) >= PageLimit
  <2>1. Listed \ Page \in SUBSET Nodes /\ Listed \ Page # {}
    BY <1>1, <1>8
  <2>2. PICK x \in Listed \ Page : \A y \in Listed \ Page : Position[x] <= Position[y]
    BY <2>1, FirstAndLast
  <2>3. UpTo(x) \ {x} \subseteq Page /\ x \in UpTo(x)
    <3>1. ASSUME NEW y \in UpTo(x), y # x PROVE y \in Page
      <4>1. Position[y] # Position[x]
        BY <1>1, <3>1, WalkFacts
      <4> QED
        BY <1>1, <1>4, <2>2, <3>1, <4>1
    <3> QED
      BY <1>1, <1>4, <3>1
  <2>4. ~(Cardinality(UpTo(x)) <= PageLimit)
    BY <1>2, <2>2
  <2>5. IsFiniteSet(UpTo(x)) /\ Cardinality(UpTo(x)) \in Nat
    BY <1>3
  <2>6. Cardinality(UpTo(x) \ {x}) = Cardinality(UpTo(x)) - 1
    BY <2>3, <2>5, FS_RemoveElement
  <2>7. Cardinality(UpTo(x) \ {x}) <= Cardinality(Page) /\ Cardinality(Page) \in Nat
    BY <1>1, <1>3, <2>3, FS_Subset
  <2> QED
    BY <1>5, <2>4, <2>5, <2>6, <2>7
<1>9. Cardinality(Page) \in Nat
  BY <1>1, <1>3
<1>10. Cardinality(Page) # PageLimit => Page = Listed
  BY <1>5, <1>7, <1>8, <1>9
<1>11. Cardinality(Page) = PageLimit => Page # {}
  BY <1>5, FS_EmptySet
<1> QED
  BY <1>1, <1>6, <1>10, <1>11

-----------------------------------------------------------------------------
(* The types, by what they are about                                       *)

DumpTypes ==
    /\ source \subseteq Items /\ stable \subseteq source /\ todo \subseteq Items
    /\ edits \in 0..MaxEdits /\ dir \subseteq Nodes /\ manifest \in BOOLEAN
    /\ broken \subseteq Items \cap dir
    /\ cursor \in 0..Len(Walk)

ToolTypes ==
    /\ taken \in BOOLEAN /\ fits \in BOOLEAN /\ verified \in BOOLEAN
    /\ cuts \in 0..MaxCuts /\ outcome \in {"none", "ok", "error"}

PlaceTypes ==
    /\ pc \in {"idle", "list", "fetch", "next", "put", "save"}
    /\ Running <=> mem # NoMap
    /\ at \in 0..(IF Dumping THEN Len(Collections) ELSE Len(Walk) + 1)

LEMMA Types ==
    /\ TypeOK => DumpTypes /\ ToolTypes /\ PlaceTypes
    /\ DumpTypes /\ ToolTypes /\ PlaceTypes /\ FunctionsOK => TypeOK
<1>1. TypeOK => DumpTypes /\ ToolTypes /\ PlaceTypes
  BY DEF TypeOK, DumpTypes, ToolTypes, PlaceTypes, Running, Dumping
<1>2. ASSUME FunctionsOK
      PROVE  /\ DOMAIN live \subseteq Ids
             /\ \A c \in DOMAIN live : /\ live[c].under \in Ids \cup {NoMap}
                                       /\ live[c].refs \subseteq Ids
                                       /\ live[c].bytes \in {"none", "dumped", "other"}
  BY <1>2 DEF FunctionsOK, LiveOK, Copy
<1>3. ASSUME NEW m, IsMapping(m)
      PROVE  IsMap(m)
  BY <1>3 DEF IsMapping, IsMap, Range
<1>4. FunctionsOK => (disk \in {NoMap, Torn} \/ IsMap(disk)) /\ (mem = NoMap \/ IsMap(mem))
  BY <1>3 DEF FunctionsOK
<1>5. DumpTypes /\ ToolTypes /\ PlaceTypes /\ FunctionsOK => TypeOK
  BY <1>2, <1>4 DEF TypeOK, DumpTypes, ToolTypes, PlaceTypes, Running, Dumping
<1> QED
  BY <1>1, <1>5

LEMMA TypesNext == DumpTypes' /\ ToolTypes' /\ PlaceTypes' /\ FunctionsOK' => TypeOK'
BY Types, PTL

LEMMA MapIsNoMark ==
    ASSUME NEW m, IsMapping(m)
    PROVE  m # NoMap /\ m # Torn
BY Marks DEF IsMapping

-----------------------------------------------------------------------------
(* dump *)

(* What a step of the dump, or of the source's owner, leaves as it was. *)
LEMMA DumpLeaves ==
    ASSUME Inv, ~Running, pc' \in {"idle", "list", "fetch"},
           UNCHANGED <<live, disk, mem, cuts>>,
           \A x \in dir' : Parent[x] \in dir'
    PROVE  FunctionsOK' /\ WalkInv' /\ MapInv' /\ OneSurplusPerCut'
<1>1. ~Running'
  BY DEF Running
<1>2. FunctionsOK'
  BY DEF Inv, FunctionsOK, LiveOK
<1>3. WalkInv'
  BY <1>1 DEF WalkInv, Running
<1>4. MapInv'
  BY <1>1 DEF MapInv
<1>5. OneSurplusPerCut'
  BY DEF Inv, OneSurplusPerCut
<1> QED
  BY <1>2, <1>3, <1>4, <1>5

LEMMA OwnerKeeps ==
    ASSUME Inv, NEW x \in Items, OwnerAdds(x) \/ OwnerDeletes(x)
    PROVE  Inv'
<1>1. /\ UNCHANGED <<dir, broken, manifest, todo, cursor, live, target, disk, mem, pc, at,
                     outcome, verified, cuts>>
      /\ stable' \subseteq stable
  BY DEF OwnerAdds, OwnerDeletes, EditsOnly
<1>2. DumpTypes'
  <2>1. DumpTypes
    BY Types DEF Inv
  <2>2. edits' \in 0..MaxEdits
    BY <2>1, Bounds DEF OwnerAdds, OwnerDeletes, Edited, DumpTypes
  <2>3. source' \subseteq Items /\ stable' \subseteq source'
    BY <2>1 DEF OwnerAdds, OwnerDeletes, DumpTypes
  <2> QED
    BY <1>1, <2>1, <2>2, <2>3 DEF DumpTypes
<1>3. ToolTypes' /\ PlaceTypes' /\ FunctionsOK'
  <2>1. ToolTypes /\ PlaceTypes /\ FunctionsOK
    BY Types DEF Inv
  <2> QED
    BY <1>1, <2>1 DEF ToolTypes, PlaceTypes, FunctionsOK, LiveOK, Running, Dumping, target
<1>4. DumpInv'
  BY <1>1 DEF Inv, DumpInv, Dumping, Accounted, Written
<1>5. WalkInv' /\ MapInv'
  BY <1>1 DEF Inv, WalkInv, MapInv, Running, Node
<1>6. OneSurplusPerCut'
  BY <1>1 DEF Inv, OneSurplusPerCut
<1>7. TypeOK'
  BY <1>2, <1>3, TypesNext
<1> QED
  BY <1>3, <1>4, <1>5, <1>6, <1>7 DEF Inv

LEMMA CollectionFacts == Len(Collections) = 5 /\ DOMAIN Collections = 1..5
BY DEF Collections

LEMMA ParentHolds ==
    ASSUME NEW x \in Nodes
    PROVE  Parent[x] \in Nodes /\ Parent[x] \notin Images
<1>1. x \in Items => Parent[x] = x
  BY DEF Items
<1>2. Kind[Parent[x]] \in {"keyboard", "switch", "set", "profile", "build", "kit"}
  BY <1>1, KindFacts
<1>3. Parent[x] \in Nodes
  BY KindFacts
<1> QED
  BY <1>2, <1>3 DEF Images, Slots

LEMMA DumpStepKeeps ==
    ASSUME Inv, ~Running, NEW c \in {"idle", "list", "fetch"}, NEW a, Dump(c, a),
           IF c = "idle" THEN a = 0 ELSE a \in 1..5,
           DumpTypes', DumpInv', \A x \in dir' : Parent[x] \in dir'
    PROVE  Inv'
<1>1. pc' = c /\ at' = a /\ UNCHANGED <<live, target, disk, mem, outcome, verified, cuts>>
  BY DEF Dump
<1>2. ToolTypes /\ PlaceTypes
  BY Types DEF Inv
<1>3. ToolTypes'
  BY <1>1, <1>2 DEF ToolTypes, target
<1>4. PlaceTypes'
  <2>1. ~Running' /\ mem' = NoMap
    BY <1>1, <1>2 DEF PlaceTypes, Running
  <2>2. at' \in 0..(IF Dumping' THEN Len(Collections) ELSE Len(Walk) + 1)
    BY <1>1, CollectionFacts, WalkFacts DEF Dumping
  <2> QED
    BY <1>1, <2>1, <2>2 DEF PlaceTypes, Dumping
<1>5. FunctionsOK' /\ WalkInv' /\ MapInv' /\ OneSurplusPerCut'
  BY <1>1, DumpLeaves
<1> QED
  BY <1>3, <1>4, <1>5, TypesNext DEF Inv

LEMMA DumpRunKeeps == ASSUME Inv, DumpRun PROVE Inv'
<1>1. /\ ~Running /\ Dump("list", 1) /\ UNCHANGED <<source, edits, dir, broken, manifest>>
      /\ stable' = source /\ todo' = {} /\ cursor' = 0 /\ pc' = "list" /\ at' = 1
  BY DEF DumpRun, Dump, Running
<1>2. DumpTypes
  BY Types DEF Inv
<1>3. DumpTypes'
  BY <1>1, <1>2, WalkFacts DEF DumpTypes
<1>4. DumpInv'
  <2>1. ASSUME NEW x \in stable', NEW i \in DOMAIN Collections
        PROVE  Accounted(x, i)'
    <3>1. Position[x] > 0
      BY <1>1, <1>2, <2>1, WalkFacts DEF DumpTypes, Items
    <3> QED
      BY <1>1, <3>1, CollectionFacts DEF Accounted
  <2> QED
    BY <1>1, <2>1, CollectionFacts DEF DumpInv
<1>5. \A x \in dir' : Parent[x] \in dir'
  BY <1>1 DEF Inv, WalkInv
<1> QED
  BY <1>1, <1>3, <1>4, <1>5, DumpStepKeeps

LEMMA ListKeeps == ASSUME Inv, listAll PROVE Inv'
<1>1. /\ ~Running /\ pc = "list" /\ todo' = todo \cup Page
      /\ UNCHANGED <<source, edits, stable, dir, broken, manifest>>
  BY DEF listAll, Dump, Running
<1>2. DumpTypes /\ at \in 1..5
  BY <1>1, Types, CollectionFacts DEF Inv, DumpInv, Dumping
<1>3. source \subseteq Nodes
  BY <1>2 DEF DumpTypes, Items
<1>4. /\ Page \subseteq Listed /\ Listed \subseteq source
      /\ \A x \in Page : \A y \in Listed : Position[y] <= Position[x] => y \in Page
      /\ Cardinality(Page) # PageLimit => Page = Listed
      /\ Cardinality(Page) = PageLimit => Page # {}
  BY <1>2, PageFacts DEF DumpTypes
<1>5. \A x \in source : Position[x] \in 1..Len(Walk)
  BY <1>3, WalkFacts
<1>6. cursor \in Nat
  BY <1>2, WalkFacts DEF DumpTypes
<1>8. ASSUME NEW x \in stable, NEW i \in DOMAIN Collections, Kind[x] = Collections[i]
      PROVE  /\ i \in 1..5 /\ x \in source
             /\ i < at => Tree[x] \subseteq Written
             /\ i = at => Tree[x] \subseteq Written \/ x \in todo \/ x \in Listed
  <2>1. Accounted(x, i) /\ x \in source
    BY <1>1, <1>2, <1>8 DEF Inv, DumpInv, Dumping, DumpTypes
  <2>2. i \in 1..5
    BY CollectionFacts
  <2> QED
    BY <1>2, <1>8, <2>1, <2>2 DEF Accounted, Listed
<1>9. CASE Cardinality(Page) = PageLimit
  <2>1. Page \in SUBSET Nodes /\ Page # {}
    BY <1>3, <1>4, <1>9
  <2>2. PICK m \in Page : /\ Max({Position[x] : x \in Page}) = Position[m]
                          /\ \A y \in Page : Position[y] <= Position[m]
    BY <2>1, MaxPosition
  <2>3. cursor' = Position[m] /\ Dump("list", at) /\ pc' = "list" /\ at' = at
    BY <1>9, <2>2 DEF listAll, Dump
  <2>4. \A y \in Listed : y \in Page \/ Position[y] > Position[m]
    BY <1>4, <1>5, <2>2
  <2>5. DumpTypes'
    BY <1>1, <1>2, <1>4, <1>5, <2>2, <2>3 DEF DumpTypes
  <2>6. DumpInv'
    <3>1. ASSUME NEW x \in stable', NEW i \in DOMAIN Collections, Kind[x] = Collections[i]
          PROVE  Accounted(x, i)'
      BY <1>1, <1>2, <1>8, <2>3, <2>4, <3>1 DEF Accounted, Written
    <3> QED
      BY <1>2, <2>3, <3>1, CollectionFacts DEF DumpInv
  <2>7. \A x \in dir' : Parent[x] \in dir'
    BY <1>1 DEF Inv, WalkInv
  <2> QED
    BY <1>1, <1>2, <2>3, <2>5, <2>6, <2>7, DumpStepKeeps
<1>10. CASE Cardinality(Page) # PageLimit
  <2>1. cursor' = 0 /\ Dump("fetch", at) /\ pc' = "fetch" /\ at' = at /\ Page = Listed
    BY <1>4, <1>10 DEF listAll, Dump
  <2>2. DumpTypes'
    BY <1>1, <1>2, <1>4, <2>1, WalkFacts DEF DumpTypes
  <2>3. DumpInv'
    <3>1. ASSUME NEW x \in stable', NEW i \in DOMAIN Collections, Kind[x] = Collections[i]
          PROVE  Accounted(x, i)'
      BY <1>1, <1>2, <1>8, <2>1, <3>1 DEF Accounted, Written
    <3> QED
      BY <1>2, <2>1, <3>1, CollectionFacts DEF DumpInv
  <2>4. \A x \in dir' : Parent[x] \in dir'
    BY <1>1 DEF Inv, WalkInv
  <2> QED
    BY <1>1, <1>2, <2>1, <2>2, <2>3, <2>4, DumpStepKeeps
<1> QED
  BY <1>9, <1>10

(* An item holds no other. *)
LEMMA ItemTree ==
    ASSUME NEW x \in Items
    PROVE  Tree[x] \cap Items = {x}
<1>1. x \in Tree[x]
  BY TreeFacts
<1>2. \A y \in Tree[x] \cap Items : y = x
  BY TreeIs DEF Items, Top
<1> QED
  BY <1>1, <1>2

LEMMA ItemKeeps ==
    ASSUME Inv, NEW x \in Items, dumpItem(x)
    PROVE  Inv'
<1>1. /\ ~Running /\ pc = "fetch" /\ x \in todo /\ Dump("fetch", at)
      /\ pc' = "fetch" /\ at' = at /\ UNCHANGED <<source, edits, stable, manifest, cursor>>
      /\ dir' = dir \cup Tree[x] /\ todo' = todo \ {x} /\ broken' = broken \ {x}
  BY DEF dumpItem, Fetches, IsNext, Dump, Running
<1>2. DumpTypes /\ at \in 1..5 /\ cursor = 0
  BY <1>1, Types, CollectionFacts DEF Inv, DumpInv, Dumping
<1>3. DumpTypes'
  BY <1>1, <1>2, TreeFacts DEF DumpTypes
<1>4. DumpInv'
  <2>1. ASSUME NEW y \in stable', NEW i \in DOMAIN Collections, Kind[y] = Collections[i]
        PROVE  Accounted(y, i)'
    <3>1. Accounted(y, i)
      BY <1>1, <2>1 DEF Inv, DumpInv, Dumping
    <3>2. Written \subseteq Written' /\ Tree[x] \subseteq Written'
      BY <1>1, <1>2, ItemTree DEF Written, DumpTypes
    <3> QED
      BY <1>1, <3>1, <3>2 DEF Accounted
  <2> QED
    BY <1>1, <1>2, <2>1, CollectionFacts DEF DumpInv
<1>5. \A y \in dir' : Parent[y] \in dir'
  BY <1>1, TreeFacts DEF Inv, WalkInv
<1> QED
  BY <1>1, <1>2, <1>3, <1>4, <1>5, DumpStepKeeps

(* A dump that stops in an item leaves it without images at most. *)
LEMMA ItemStopsKeeps ==
    ASSUME Inv, NEW x \in Items, dumpItemStops(x)
    PROVE  Inv'
<1>1. PICK S \in SUBSET {y \in Tree[x] : Kind[y] \in Slots} :
        dir' = dir \cup S \cup (Tree[x] \ Images)
  BY DEF dumpItemStops
<1>2. /\ ~Running /\ Dump("idle", 0) /\ pc' = "idle" /\ todo' = {} /\ broken' = broken \ {x}
      /\ UNCHANGED <<source, edits, stable, manifest, cursor>>
  BY DEF dumpItemStops, Fetches, IsNext, Dump, Running
<1>3. DumpTypes
  BY Types DEF Inv
<1>4. DumpTypes'
  BY <1>1, <1>2, <1>3, TreeFacts DEF DumpTypes
<1>5. DumpInv'
  BY <1>2 DEF DumpInv, Dumping
<1>6. \A y \in dir' : Parent[y] \in dir'
  <2>1. \A y \in Tree[x] : Parent[y] \in Tree[x] \ Images
    BY TreeFacts, ParentHolds
  <2> QED
    BY <1>1, <2>1 DEF Inv, WalkInv
<1> QED
  BY <1>2, <1>4, <1>5, <1>6, DumpStepKeeps

(* One that stops before it has written an item leaves its directory. *)
LEMMA ItemUnwrittenKeeps ==
    ASSUME Inv, NEW x \in Items, dumpItemUnwritten(x)
    PROVE  Inv'
<1>1. /\ ~Running /\ Dump("idle", 0) /\ pc' = "idle" /\ todo' = {}
      /\ dir' = dir \cup {x} /\ broken' = broken \cup {x}
      /\ UNCHANGED <<source, edits, stable, manifest, cursor>>
  BY DEF dumpItemUnwritten, IsNext, Dump, Running
<1>2. x \in Nodes /\ Parent[x] = x
  BY DEF Items
<1>3. DumpTypes'
  BY <1>1, <1>2, Types DEF Inv, DumpTypes
<1>4. DumpInv'
  BY <1>1 DEF DumpInv, Dumping
<1>5. \A y \in dir' : Parent[y] \in dir'
  BY <1>1, <1>2 DEF Inv, WalkInv
<1> QED
  BY <1>1, <1>3, <1>4, <1>5, DumpStepKeeps

LEMMA DumpStopsKeeps == ASSUME Inv, dumpStops PROVE Inv'
<1>1. /\ ~Running /\ Dump("idle", 0) /\ pc' = "idle" /\ todo' = {} /\ cursor' = 0
      /\ UNCHANGED <<source, edits, stable, dir, broken, manifest>>
  BY DEF dumpStops, Dump, Running
<1>2. DumpTypes'
  BY <1>1, Types, WalkFacts DEF Inv, DumpTypes
<1>3. DumpInv'
  BY <1>1 DEF DumpInv, Dumping
<1>4. \A y \in dir' : Parent[y] \in dir'
  BY <1>1 DEF Inv, WalkInv
<1> QED
  BY <1>1, <1>2, <1>3, <1>4, DumpStepKeeps

LEMMA NextCollectionKeeps == ASSUME Inv, nextCollection PROVE Inv'
<1>1. /\ ~Running /\ pc = "fetch" /\ todo = {} /\ at < 5 /\ Dump("list", at + 1)
      /\ pc' = "list" /\ at' = at + 1
      /\ UNCHANGED <<source, edits, stable, dir, broken, manifest, todo, cursor>>
  BY CollectionFacts DEF nextCollection, Dump, Running
<1>2. DumpTypes /\ at \in 1..5 /\ cursor = 0
  BY <1>1, Types, CollectionFacts DEF Inv, DumpInv, Dumping
<1>3. DumpTypes'
  BY <1>1, <1>2 DEF DumpTypes
<1>4. at + 1 \in 1..5
  BY <1>1, <1>2
<1>5. DumpInv'
  <2>1. ASSUME NEW y \in stable', NEW i \in DOMAIN Collections, Kind[y] = Collections[i]
        PROVE  Accounted(y, i)'
    <3>1. Accounted(y, i)
      BY <1>1, <2>1 DEF Inv, DumpInv, Dumping
    <3>2. Position[y] > 0
      BY <1>2, <1>1, WalkFacts DEF DumpTypes, Items
    <3>3. i \in 1..5
      BY CollectionFacts
    <3> QED
      BY <1>1, <1>2, <3>1, <3>2, <3>3 DEF Accounted, Written
  <2> QED
    BY <1>1, <1>4, <2>1, CollectionFacts DEF DumpInv
<1>6. \A y \in dir' : Parent[y] \in dir'
  BY <1>1 DEF Inv, WalkInv
<1> QED
  BY <1>1, <1>3, <1>4, <1>5, <1>6, DumpStepKeeps

LEMMA ManifestKeeps == ASSUME Inv, writeManifest PROVE Inv'
<1>1. /\ ~Running /\ pc' = "idle" /\ at' = 0
      /\ UNCHANGED <<source, dir, broken, todo, cursor, live, taken, disk, mem, outcome, verified, cuts>>
      /\ manifest' = TRUE /\ fits' \in BOOLEAN /\ stable' = {} /\ edits' = MaxEdits
  BY DEF writeManifest, Running
<1>2. DumpTypes /\ ToolTypes /\ PlaceTypes
  BY Types DEF Inv
<1>3. DumpTypes' /\ ToolTypes'
  BY <1>1, <1>2, Bounds DEF DumpTypes, ToolTypes
<1>4. PlaceTypes'
  <2>1. ~Running' /\ ~Dumping' /\ mem' = NoMap
    BY <1>1, <1>2 DEF PlaceTypes, Running, Dumping
  <2> QED
    BY <1>1, <2>1, WalkFacts DEF PlaceTypes
<1>5. DumpInv'
  BY <1>1 DEF DumpInv, Dumping
<1>6. \A y \in dir' : Parent[y] \in dir'
  BY <1>1 DEF Inv, WalkInv
<1>7. FunctionsOK' /\ WalkInv' /\ MapInv' /\ OneSurplusPerCut'
  BY <1>1, <1>6, DumpLeaves
<1> QED
  BY <1>3, <1>4, <1>5, <1>7, TypesNext DEF Inv

LEMMA DumpKeeps == ASSUME Inv, DumpNext PROVE Inv'
<1>1. ASSUME NEW x \in Items,
             \/ OwnerAdds(x) \/ OwnerDeletes(x)
             \/ dumpSimpleCollection(x) \/ dumpKeycapSets(x) \/ dumpProfile(x)
             \/ dumpItemStops(x) \/ dumpItemUnwritten(x)
      PROVE  Inv'
  BY <1>1, OwnerKeeps, ItemKeeps, ItemStopsKeeps, ItemUnwrittenKeeps
     DEF dumpSimpleCollection, dumpKeycapSets, dumpProfile
<1> QED
  BY <1>1, DumpRunKeeps, ListKeeps, DumpStopsKeeps, NextCollectionKeeps, ManifestKeeps
     DEF DumpNext

-----------------------------------------------------------------------------
(* Maps and what they name                                                 *)

LEMMA WithFacts ==
    ASSUME NEW f, NEW x, NEW y
    PROVE  /\ DOMAIN With(f, x, y) = DOMAIN f \cup {x}
           /\ With(f, x, y)[x] = y
           /\ \A z \in DOMAIN f : z # x => With(f, x, y)[z] = f[z]
BY DEF With

LEMMA WithMap ==
    ASSUME NEW m, IsMapping(m), NEW x \in Nodes, NEW c \in Ids, c.of = x
    PROVE  IsMapping(With(m, x, c))
<1>1. With(m, x, c) \in [DOMAIN m \cup {x} -> Ids]
  BY DEF With, IsMapping
<1> DEFINE w == With(m, x, c)
<1>2. DOMAIN w = DOMAIN m \cup {x} /\ w[x] = c /\ \A z \in DOMAIN m : z # x => w[z] = m[z]
  BY DEF With
<1> HIDE DEF w
<1>3. w \in [DOMAIN w -> Ids]
  BY <1>1, <1>2 DEF w
<1>4. DOMAIN w \subseteq Nodes /\ \A z \in DOMAIN w : w[z].of = z
  BY <1>2 DEF IsMapping
<1> QED
  BY <1>3, <1>4 DEF IsMapping, w

LEMMA WithLive ==
    ASSUME LiveOK, NEW c \in Ids, NEW t \in Copy, live' = With(live, c, t)
    PROVE  LiveOK' /\ DOMAIN live' = DOMAIN live \cup {c}
<1>1. DOMAIN live' = DOMAIN live \cup {c}
  BY WithFacts
<1>2. IsFiniteSet(DOMAIN live \cup {c})
  BY FS_AddElement DEF LiveOK
<1>3. live' \in [DOMAIN live \cup {c} -> Copy]
  BY DEF With, LiveOK
<1> QED
  BY <1>1, <1>2, <1>3 DEF LiveOK

LEMMA CopiesFinite ==
    ASSUME LiveOK, NEW x \in Nodes
    PROVE  NewCopy(x) \in Ids /\ NewCopy(x).of = x /\ Cardinality(Copies(x)) \in Nat
<1>1. Copies(x) \subseteq DOMAIN live
  BY DEF Copies
<1>2. Cardinality(Copies(x)) \in Nat
  BY <1>1, FS_Subset, FS_CardinalityType DEF LiveOK
<1> QED
  BY <1>2 DEF NewCopy, Ids

Names(m, c) == \E y \in DOMAIN m : m[y] = c

(* The copies that no map names. *)
Stray(c) == /\ c \in DOMAIN live /\ Kind[c.of] \in Created
            /\ ~(disk # NoMap /\ Names(disk, c)) /\ ~(mem # NoMap /\ Names(mem, c))

Strays == {c \in DOMAIN live : Stray(c)}

(* OneSurplusPerCut is about the strays. *)
StraysCounted ==
    FunctionsOK /\ disk # Torn => (OneSurplusPerCut <=> Cardinality(Strays) <= cuts)

LEMMA StraysAreCounted == StraysCounted /\ StraysCounted'
<1>1. StraysCounted
  <2> SUFFICES ASSUME FunctionsOK, disk # Torn
               PROVE  OneSurplusPerCut <=> Cardinality(Strays) <= cuts
    BY DEF StraysCounted
  <2> DEFINE known == UNION {Range(m) : m \in {disk, mem} \ {NoMap, Torn}}
  <2>1. mem # Torn
    BY Marks, MapIsNoMark DEF FunctionsOK
  <2>2. \A c : c \in known <=> (disk # NoMap /\ Names(disk, c)) \/ (mem # NoMap /\ Names(mem, c))
    BY <2>1 DEF Range, Names
  <2>3. {c \in DOMAIN live : Kind[c.of] \in Created} \ known = Strays
    BY <2>2 DEF Stray, Strays
  <2> HIDE DEF known
  <2> QED
    BY <2>3 DEF OneSurplusPerCut, known
<1> QED
  BY <1>1, PTL

(* A step that leaves no new stray copies, or one and is a cut. *)
LEMMA StrayStep ==
    ASSUME Inv, FunctionsOK', disk # Torn, NEW d,
           \/ cuts' = cuts /\ \A c \in DOMAIN live' : Stray(c)' => Stray(c)
           \/ cuts' = cuts + 1 /\ \A c \in DOMAIN live' : Stray(c)' => Stray(c) \/ c = d
    PROVE  OneSurplusPerCut'
<1> DEFINE S == Strays
           N == Strays'
<1>1. cuts \in Nat
  BY Types, Bounds DEF Inv, ToolTypes
<1>2. Cardinality(S) <= cuts
  BY StraysAreCounted DEF Inv, StraysCounted
<1>3. IsFiniteSet(S) /\ Cardinality(S) \in Nat
  BY FS_Subset, FS_CardinalityType DEF Inv, FunctionsOK, LiveOK, Strays
<1>4. CASE disk' = Torn
  BY <1>4 DEF OneSurplusPerCut
<1>5. CASE disk' # Torn /\ cuts' = cuts /\ N \subseteq S
  <2>1. Cardinality(N) <= Cardinality(S) /\ Cardinality(N) \in Nat
    BY <1>3, <1>5, FS_Subset, FS_CardinalityType
  <2>2. Cardinality(N) <= cuts'
    BY <1>1, <1>2, <1>3, <1>5, <2>1
  <2> QED
    BY <1>5, <2>2, StraysAreCounted DEF StraysCounted
<1>6. CASE disk' # Torn /\ cuts' = cuts + 1 /\ N \subseteq S \cup {d}
  <2>1. IsFiniteSet(S \cup {d}) /\ Cardinality(S \cup {d}) <= Cardinality(S) + 1
    BY <1>3, FS_AddElement
  <2>2. Cardinality(S \cup {d}) \in Nat
    BY <2>1, FS_CardinalityType
  <2>3. Cardinality(N) <= Cardinality(S \cup {d}) /\ Cardinality(N) \in Nat
    BY <1>6, <2>1, FS_Subset, FS_CardinalityType
  <2>4. Cardinality(N) <= cuts'
    BY <1>1, <1>2, <1>3, <1>6, <2>1, <2>2, <2>3
  <2> QED
    BY <1>6, <2>4, StraysAreCounted DEF StraysCounted
<1>7. \/ cuts' = cuts /\ N \subseteq S
      \/ cuts' = cuts + 1 /\ N \subseteq S \cup {d}
  BY DEF Strays, Stray
<1> QED
  BY <1>4, <1>5, <1>6, <1>7

-----------------------------------------------------------------------------
(* restore: how a step may leave the tool                                  *)

LEMMA ToolLeavesDump ==
    ASSUME Inv, ~Dumping', UNCHANGED dumping
    PROVE  DumpTypes' /\ DumpInv' /\ \A x \in dir' : Parent[x] \in dir'
<1>1. DumpTypes'
  BY Types DEF Inv, DumpTypes, dumping
<1>2. DumpInv'
  BY DEF DumpInv, Dumping
<1>3. \A x \in dir' : Parent[x] \in dir'
  BY DEF Inv, WalkInv, dumping
<1> QED
  BY <1>1, <1>2, <1>3

(* It goes on. *)
LEMMA OnKeeps ==
    ASSUME Inv, UNCHANGED <<dumping, target, cuts>>,
           outcome' \in {"none", "ok", "error"}, verified' \in BOOLEAN,
           pc' \in {"next", "put", "save"}, at' \in 1..(Len(Walk) + 1),
           LiveOK', disk' \in {NoMap, Torn} \/ IsMapping(disk'), IsMapping(mem'),
           WalkInv', MapInv', disk # Torn, \A c \in DOMAIN live' : Stray(c)' => Stray(c)
    PROVE  Inv'
<1>1. Running' /\ ~Dumping'
  BY DEF Running, Dumping
<1>2. mem' # NoMap
  BY MapIsNoMark
<1>3. FunctionsOK'
  BY DEF FunctionsOK
<1>4. ToolTypes'
  BY Types DEF Inv, ToolTypes, target
<1>5. PlaceTypes'
  BY <1>1, <1>2, WalkFacts DEF PlaceTypes
<1>6. DumpTypes' /\ DumpInv'
  BY <1>1, ToolLeavesDump
<1>7. OneSurplusPerCut'
  BY <1>3, StrayStep
<1> QED
  BY <1>3, <1>4, <1>5, <1>6, <1>7, TypesNext DEF Inv

(* It ends.  What memory alone names of what the API gave an id to, is     *)
(* what was about to be saved.                                             *)
LEMMA OnlyPending ==
    ASSUME Inv, Running, NEW c, Kind[c.of] \in Created, Names(mem, c)
    PROVE  (disk # NoMap /\ Names(disk, c)) \/ (pc = "save" /\ c = mem[Node])
<1>1. PICK y \in DOMAIN mem : mem[y] = c
  BY DEF Names
<1>2. IsMapping(mem)
  BY Types DEF Inv, FunctionsOK, PlaceTypes
<1>3. Kind[y] \in Created
  BY <1>1, <1>2 DEF IsMapping
<1>4. (pc = "save" /\ y = Node) \/ (disk # NoMap /\ y \in DOMAIN disk)
  BY <1>3 DEF Inv, MapInv
<1>5. disk # NoMap /\ y \in DOMAIN disk => disk[y] = c
  BY <1>1 DEF Inv, MapInv
<1> QED
  BY <1>1, <1>4, <1>5 DEF Names

LEMMA EndKeeps ==
    ASSUME Inv, Running, UNCHANGED <<dumping, target, verified>>,
           pc' = "idle", at' = 0, mem' = NoMap, outcome' \in {"ok", "error"},
           LiveOK', disk' \in {disk, mem, Torn}, NEW d,
           IF disk' = mem THEN cuts' \in {cuts, cuts + 1}
                          ELSE cuts' = cuts + 1 \/ (cuts' = cuts /\ pc # "save"),
           cuts' <= MaxCuts,
           \A c \in DOMAIN live' : \/ c \in DOMAIN live \/ Kind[c.of] \notin Created
                                   \/ c = d /\ cuts' = cuts + 1 /\ pc # "save"
    PROVE  Inv'
<1>1. ~Running' /\ ~Dumping'
  BY DEF Running, Dumping
<1>2. mem # NoMap /\ IsMapping(mem)
  BY Types DEF Inv, FunctionsOK, PlaceTypes
<1>3. FunctionsOK'
  BY <1>2 DEF Inv, FunctionsOK
<1>4. ToolTypes'
  <2>1. cuts \in Nat /\ MaxCuts \in Nat /\ ToolTypes
    BY Types, Bounds DEF Inv, ToolTypes
  <2> QED
    BY <2>1 DEF ToolTypes, target
<1>5. PlaceTypes'
  BY <1>1, WalkFacts DEF PlaceTypes
<1>6. DumpTypes' /\ DumpInv' /\ \A x \in dir' : Parent[x] \in dir'
  BY <1>1, ToolLeavesDump
<1>7. WalkInv' /\ MapInv'
  BY <1>1, <1>6 DEF WalkInv, MapInv, Running
<1>8. disk # Torn
  BY DEF Inv, MapInv
<1>9. OneSurplusPerCut'
  <2>1. CASE disk' = Torn
    BY <2>1 DEF OneSurplusPerCut
  <2>2. CASE disk' = mem
    <3>1. \A c : Names(disk, c) /\ disk # NoMap => Names(mem, c)
      BY DEF Names, Inv, MapInv
    <3>2. \A c \in DOMAIN live' : Stray(c)' => Stray(c) \/ (c = d /\ cuts' = cuts + 1)
      BY <1>2, <2>2, <3>1 DEF Stray, Names
    <3> QED
      BY <1>3, <1>8, <2>2, <3>2, StrayStep
  <2>3. CASE disk' = disk /\ disk' # mem
    <3>1. \A c \in DOMAIN live' : Stray(c)' =>
             \/ Stray(c) \/ (pc = "save" /\ c = mem[Node])
             \/ (c = d /\ cuts' = cuts + 1 /\ pc # "save")
      BY <2>3, OnlyPending DEF Stray, Names
    <3>2. CASE cuts' = cuts /\ pc # "save"
      BY <1>3, <1>8, <3>1, <3>2, StrayStep
    <3>3. CASE cuts' = cuts + 1 /\ pc = "save"
      BY <1>3, <1>8, <3>1, <3>3, StrayStep
    <3>4. CASE cuts' = cuts + 1 /\ pc # "save"
      BY <1>3, <1>8, <3>1, <3>4, StrayStep
    <3> QED
      BY <2>3, <3>2, <3>3, <3>4
  <2> QED
    BY <2>1, <2>2, <2>3
<1> QED
  BY <1>3, <1>4, <1>5, <1>6, <1>7, <1>9, TypesNext DEF Inv

LEMMA CutKeeps ==
    ASSUME Inv, Running, IsCut, LiveOK', disk' \in {disk, mem, Torn}, NEW d,
           \A c \in DOMAIN live' : \/ c \in DOMAIN live \/ Kind[c.of] \notin Created
                                   \/ c = d /\ pc # "save"
    PROVE  Inv'
<1>1. /\ UNCHANGED <<dumping, target, verified>> /\ pc' = "idle" /\ at' = 0
      /\ mem' = NoMap /\ outcome' = "error" /\ cuts' = cuts + 1 /\ cuts < MaxCuts
  BY DEF IsCut, Ended
<1>2. cuts' <= MaxCuts
  BY <1>1, Types, Bounds DEF Inv, ToolTypes
<1> QED
  BY <1>1, <1>2, EndKeeps

LEMMA FailsKeeps ==
    ASSUME Inv, pc = "next", Fails
    PROVE  Inv'
<1>1. /\ UNCHANGED <<dumping, target, verified, live, disk, cuts>> /\ pc' = "idle" /\ at' = 0
      /\ mem' = NoMap /\ outcome' = "error"
  BY DEF Fails, Ended
<1>2. cuts' <= MaxCuts /\ Running
  BY <1>1, Types, Bounds DEF Inv, ToolTypes, Running
<1>3. LiveOK'
  BY <1>1 DEF Inv, FunctionsOK, LiveOK
<1> QED
  BY <1>1, <1>2, <1>3, EndKeeps

(* A step past n nodes: what an image was uploaded as may be in the map    *)
(* then, and nothing is new in the account that has an id of the API's.    *)
LEMMA PassKeeps ==
    ASSUME Inv, Running, pc # "save", at \in DOMAIN Walk, NEW n \in Nat \ {0}, at + n <= Len(Walk) + 1,
           Go("next", at + n), UNCHANGED disk, LiveOK',
           \A c \in DOMAIN live' : c \in DOMAIN live \/ Kind[c.of] \notin Created,
           \/ mem' = mem
           \/ /\ Kind[Node] = "image" /\ Node \notin DOMAIN mem
              /\ \E c \in Ids : c.of = Node /\ mem' = With(mem, Node, c),
           \A i \in at..(at + n - 1) :
              Walk[i] \in dir /\ Kind[Walk[i]] \in Created => Walk[i] \in DOMAIN mem
    PROVE  Inv'
<1>1. /\ UNCHANGED <<dumping, target, outcome, verified, cuts>> /\ pc' = "next" /\ at' = at + n
      /\ dir' = dir
  BY DEF Go, Restoring, dumping
<1>2. IsMapping(mem) /\ disk # Torn /\ Node \in Nodes
  BY Types, WalkFacts DEF Inv, FunctionsOK, PlaceTypes, MapInv, Node
<1>3. /\ IsMapping(mem')
      /\ \A y \in DOMAIN mem : y \in DOMAIN mem' /\ mem'[y] = mem[y]
      /\ \A y \in DOMAIN mem' : y \in DOMAIN mem \/ Kind[y] = "image"
  <2>1. CASE mem' = mem
    BY <1>2, <2>1
  <2>2. ASSUME NEW c \in Ids, c.of = Node, mem' = With(mem, Node, c), Node \notin DOMAIN mem,
               Kind[Node] = "image"
        PROVE  <1>3
    <3>1. IsMapping(mem')
      BY <1>2, <2>2, WithMap
    <3>2. DOMAIN mem' = DOMAIN mem \cup {Node} /\ \A y \in DOMAIN mem : y # Node => mem'[y] = mem[y]
      BY <2>2 DEF With
    <3> QED
      BY <2>2, <3>1, <3>2
  <2> QED
    BY <2>1, <2>2
<1>4. at + n \in 1..(Len(Walk) + 1)
  BY WalkFacts
<1>5. WalkInv'
  <2>1. ASSUME NEW y \in dir, Position[y] < at + n, Kind[y] \in Created
        PROVE  y \in DOMAIN mem
    <3>1. y \in Nodes
      BY Types DEF Inv, DumpTypes
    <3>2. Position[y] \in DOMAIN Walk /\ Walk[Position[y]] = y
      BY <3>1, WalkFacts
    <3>3. CASE Position[y] < at
      BY <2>1, <3>3 DEF Inv, WalkInv
    <3>4. CASE Position[y] \in at..(at + n - 1)
      BY <2>1, <3>2, <3>4
    <3> QED
      BY <2>1, <3>2, <3>3, <3>4, WalkFacts
  <2>2. \A y \in dir' : Position[y] < at' /\ Kind[y] \in Created => y \in DOMAIN mem'
    BY <1>1, <1>3, <2>1
  <2> QED
    BY <1>1, <1>4, <2>2 DEF WalkInv, Inv
<1>6. MapInv'
  <2>1. disk' # NoMap => \A y \in DOMAIN disk' : y \in DOMAIN mem' /\ mem'[y] = disk'[y]
    BY <1>3 DEF Inv, MapInv
  <2>2. \A y \in DOMAIN mem' : Kind[y] \in Created => disk' # NoMap /\ y \in DOMAIN disk'
    BY <1>3 DEF Inv, MapInv, Created
  <2> QED
    BY <1>2, <2>1, <2>2 DEF MapInv
<1>7. \A c \in DOMAIN live' : Stray(c)' => Stray(c)
  <2>1. \A c : Names(mem, c) => Names(mem, c)'
    BY <1>3 DEF Names
  <2>2. mem' # NoMap
    BY <1>3, MapIsNoMark
  <2> QED
    BY <2>1, <2>2 DEF Stray, Names
<1>8. disk' \in {NoMap, Torn} \/ IsMapping(disk')
  BY DEF Inv, FunctionsOK
<1>9. outcome' \in {"none", "ok", "error"} /\ verified' \in BOOLEAN
  BY <1>1, Types DEF Inv, ToolTypes
<1> QED
  BY <1>1, <1>2, <1>3, <1>4, <1>5, <1>6, <1>7, <1>8, <1>9, OnKeeps

(* The API has been asked for a slot, or a place, of an image. *)
LEMMA AskKeeps ==
    ASSUME Inv, pc = "next", at \in DOMAIN Walk, Kind[Node] \in Slots \cup {"image"},
           Kind[Node] = "image" => Node \notin DOMAIN mem,
           Go("put", at), UNCHANGED <<disk, mem>>, LiveOK',
           \A c \in DOMAIN live' : c \in DOMAIN live \/ Kind[c.of] \notin Created
    PROVE  Inv'
<1>1. /\ UNCHANGED <<dumping, target, outcome, verified, cuts>> /\ pc' = "put" /\ at' = at
      /\ dir' = dir
  BY DEF Go, Restoring, dumping
<1>2. IsMapping(mem) /\ disk # Torn /\ Running
  BY Types DEF Inv, FunctionsOK, PlaceTypes, MapInv, Running
<1>3. at' \in 1..(Len(Walk) + 1)
  BY <1>1, <1>2 DEF Inv, WalkInv
<1>4. WalkInv'
  BY <1>1, <1>2, <1>3 DEF Inv, WalkInv, Node
<1>5. MapInv'
  BY <1>1, <1>2 DEF Inv, MapInv
<1>6. \A c \in DOMAIN live' : Stray(c)' => Stray(c)
  BY DEF Stray, Names
<1>7. disk' \in {NoMap, Torn} \/ IsMapping(disk')
  BY DEF Inv, FunctionsOK
<1>8. outcome' \in {"none", "ok", "error"} /\ verified' \in BOOLEAN
  BY <1>1, Types DEF Inv, ToolTypes
<1>9. IsMapping(mem')
  BY <1>2
<1> QED
  BY <1>1, <1>2, <1>3, <1>4, <1>5, <1>6, <1>7, <1>8, <1>9, OnKeeps

-----------------------------------------------------------------------------
(* restore: its steps                                                      *)

LEMMA AtNode ==
    ASSUME Inv, pc = "next", NEW kinds, Takes(kinds)
    PROVE  /\ Running /\ pc # "save" /\ at \in 1..Len(Walk) /\ at \in DOMAIN Walk
           /\ Node \in Nodes /\ Node \in dir /\ Node \in Written /\ Kind[Node] \in kinds
           /\ Position[Node] = at
BY WalkFacts DEF Takes, Node, Running, Written

(* What a node is restored to is there already. *)
LEMMA HomeThere ==
    ASSUME Inv, Running, at \in DOMAIN Walk, Node \in dir, Node \notin Items
    PROVE  Home(Node) \in Ids
<1>1. Node \in Nodes /\ Position[Node] = at /\ Parent[Node] \in dir /\ Parent[Node] \in Nodes
  BY WalkFacts, KindFacts DEF Node, Inv, WalkInv
<1>2. Position[Parent[Node]] < at
  BY <1>1, ParentFirst
<1>3. Kind[Parent[Node]] = "profile" \/ Kind[Parent[Node]] \in Created
  BY <1>1, KindFacts DEF Created
<1>4. IsMapping(mem)
  BY Types DEF Inv, FunctionsOK, PlaceTypes
<1>5. CASE Kind[Parent[Node]] = "profile"
  BY <1>1, <1>5 DEF Home, Ids
<1>6. CASE Kind[Parent[Node]] # "profile"
  <2>1. Parent[Node] \in DOMAIN mem
    BY <1>1, <1>2, <1>3, <1>6 DEF Inv, WalkInv
  <2> QED
    BY <1>4, <1>6, <2>1 DEF Home, IsMapping
<1> QED
  BY <1>5, <1>6

LEMMA StartKeeps == ASSUME Inv, RestoreRun PROVE Inv'
<1>1. /\ UNCHANGED <<dumping, target, live, disk, cuts>> /\ pc = "idle" /\ disk # Torn
      /\ mem' = Load /\ pc' = "next" /\ at' = 1 /\ outcome' = "none" /\ verified' = FALSE
  BY DEF RestoreRun
<1>2. mem = NoMap /\ ~Running
  BY <1>1, Types DEF Inv, PlaceTypes, Running
<1>3. IsMapping(mem') /\ (disk # NoMap => mem' = disk) /\ (disk = NoMap => DOMAIN mem' = {})
  BY <1>1 DEF Load, Inv, FunctionsOK, IsMapping
<1>4. 1 \in 1..(Len(Walk) + 1)
  BY WalkFacts
<1>5. WalkInv'
  <2>1. \A y \in dir' : ~(Position[y] < 1)
    BY <1>1, Types, WalkFacts DEF Inv, DumpTypes, dumping
  <2> QED
    BY <1>1, <1>4, <2>1 DEF Inv, WalkInv, dumping
<1>6. MapInv'
  BY <1>1, <1>3 DEF MapInv
<1>7. \A c \in DOMAIN live' : Stray(c)' => Stray(c)
  BY <1>1, <1>2 DEF Stray, Names
<1>8. LiveOK' /\ (disk' \in {NoMap, Torn} \/ IsMapping(disk'))
  BY <1>1 DEF Inv, FunctionsOK, LiveOK
<1> QED
  BY <1>1, <1>3, <1>4, <1>5, <1>6, <1>7, <1>8, OnKeeps

LEMMA RestoredKeeps == ASSUME Inv, restored PROVE Inv'
<1>1. /\ UNCHANGED <<dumping, live, target, verified, cuts>> /\ pc = "next"
      /\ disk' = mem /\ mem' = NoMap /\ pc' = "idle" /\ at' = 0 /\ outcome' = "ok"
  BY DEF restored
<1>2. cuts' <= MaxCuts /\ Running
  BY <1>1, Types, Bounds DEF Inv, ToolTypes, Running
<1>3. LiveOK'
  BY <1>1 DEF Inv, FunctionsOK, LiveOK
<1> QED
  BY <1>1, <1>2, <1>3, EndKeeps

(* The steps that only go past nodes. *)
LEMMA SkipsKeep ==
    ASSUME Inv, pc = "next", NEW n \in Nat \ {0}, Skip(n), at \in DOMAIN Walk,
           at + n <= Len(Walk) + 1,
           \A i \in at..(at + n - 1) :
              Walk[i] \in dir /\ Kind[Walk[i]] \in Created => Walk[i] \in DOMAIN mem
    PROVE  Inv'
<1>1. Go("next", at + n) /\ UNCHANGED <<live, disk, mem>>
  BY DEF Skip
<1>2. LiveOK' /\ Running
  BY <1>1 DEF Inv, FunctionsOK, LiveOK, Running
<1> QED
  BY <1>1, <1>2, PassKeeps

LEMMA SkipOneKeeps ==
    ASSUME Inv, pc = "next", at \in DOMAIN Walk, Skip(1),
           Node \in dir /\ Kind[Node] \in Created => Node \in DOMAIN mem
    PROVE  Inv'
<1>1. at \in 1..Len(Walk) /\ Len(Walk) \in Nat
  BY WalkFacts
<1>2. at + 1 <= Len(Walk) + 1 /\ at..(at + 1 - 1) = {at}
  BY <1>1
<1> QED
  BY <1>2, SkipsKeep DEF Node

LEMMA PassingKeeps ==
    ASSUME Inv, NotDumped \/ updateProfile \/ slotFilled \/ avatarMatches
    PROVE  Inv'
<1>1. CASE NotDumped
  BY <1>1, SkipOneKeeps DEF NotDumped
<1>2. ASSUME NEW kinds, Takes(kinds), kinds \cap Created = {}, Skip(1)
      PROVE  Inv'
  BY <1>2, AtNode, SkipOneKeeps DEF Takes
<1>3. CASE updateProfile
  BY <1>2, <1>3 DEF updateProfile, Created
<1>4. CASE slotFilled
  BY <1>2, <1>4 DEF slotFilled, Created
<1>5. CASE avatarMatches
  BY <1>2, <1>5 DEF avatarMatches, Created
<1> QED
  BY <1>1, <1>3, <1>4, <1>5

LEMMA ResumeKeeps == ASSUME Inv, resume PROVE Inv'
<1>1. /\ Takes(Created \cup {"image"}) /\ Node \in DOMAIN mem /\ pc = "next"
      /\ Skip(IF Kind[Node] = "build" THEN Cardinality(Tree[Node]) ELSE 1)
  BY DEF resume, Takes
<1>2. at \in 1..Len(Walk) /\ at \in DOMAIN Walk /\ Node \in Nodes /\ Position[Node] = at
  BY <1>1, AtNode
<1>3. CASE Kind[Node] # "build"
  BY <1>1, <1>2, <1>3, SkipOneKeeps
<1>4. CASE Kind[Node] = "build"
  <2> DEFINE n == Cardinality(Tree[Node])
  <2>1. Node \in Items
    BY <1>2, <1>4, KindFacts
  <2>2. n \in Nat \ {0} /\ \A i \in at..(at + n - 1) : i \in DOMAIN Walk /\ Walk[i] \in Tree[Node]
    BY <1>2, <2>1, TreeIsInterval
  <2>3. at + n <= Len(Walk) + 1
    <3>1. at + n - 1 \in DOMAIN Walk
      BY <1>2, <2>2
    <3> QED
      BY <1>2, <2>2, <3>1, WalkFacts
  <2>4. \A i \in at..(at + n - 1) : Kind[Walk[i]] \in Created => Walk[i] = Node
    BY <1>4, <2>1, <2>2, BuildTree DEF Created
  <2>5. Skip(n)
    BY <1>1, <1>4
  <2> HIDE DEF n
  <2> QED
    BY <1>1, <1>2, <2>2, <2>3, <2>4, <2>5, SkipsKeep
<1> QED
  BY <1>3, <1>4

LEMMA RefusedKeeps ==
    ASSUME Inv, itemUnreadable \/ profileConflict \/ buildRefused \/ avatarUnreadable \/ imagesFull
    PROVE  Inv'
BY FailsKeeps DEF itemUnreadable, profileConflict, buildRefused, avatarUnreadable, imagesFull, Takes

LEMMA CreateProfileKeeps == ASSUME Inv, createProfile PROVE Inv'
<1>1. /\ Takes({"profile"}) /\ pc = "next" /\ Running /\ pc # "save"
      /\ at \in 1..Len(Walk) /\ at \in DOMAIN Walk /\ Node \in Nodes /\ Kind[Node] = "profile"
  BY AtNode DEF createProfile, Takes
<1>2. /\ live' = With(live, NewCopy(Node), Thing(NoMap, {}, "none"))
      /\ Answered(mem, "next", at + 1)
  BY DEF createProfile
<1>3. NewCopy(Node) \in Ids /\ NewCopy(Node).of = Node
  BY <1>1, CopiesFinite DEF Inv, FunctionsOK
<1>4. Thing(NoMap, {}, "none") \in Copy
  BY DEF Thing, Copy
<1>5. LiveOK' /\ DOMAIN live' = DOMAIN live \cup {NewCopy(Node)}
  BY <1>2, <1>3, <1>4, WithLive DEF Inv, FunctionsOK
<1>6. \A c \in DOMAIN live' : c \in DOMAIN live \/ Kind[c.of] \notin Created
  BY <1>1, <1>3, <1>5 DEF Created
<1>7. CASE IsCut
  BY <1>1, <1>2, <1>5, <1>6, <1>7, CutKeeps DEF Answered
<1>8. CASE mem' = mem /\ Go("next", at + 1)
  <2>1. at + 1 <= Len(Walk) + 1 /\ at..(at + 1 - 1) = {at}
    BY <1>1, WalkFacts
  <2>2. \A i \in at..(at + 1 - 1) : Kind[Walk[i]] \notin Created
    BY <1>1, <2>1 DEF Node, Created
  <2>3. UNCHANGED disk
    BY <1>2 DEF Answered
  <2> QED
    BY <1>1, <1>5, <1>6, <1>8, <2>1, <2>2, <2>3, PassKeeps
<1> QED
  BY <1>2, <1>7, <1>8 DEF Answered

(* An item, a part or a kit is created: the map names it, to be saved      *)
(* next, or the run is cut and nothing names it.                           *)
LEMMA CreateKeeps ==
    ASSUME Inv, NEW kinds \in SUBSET Created, create(kinds)
    PROVE  Inv'
<1> DEFINE refs == {mem[r] : r \in Refs[Node]}
           new == NewCopy(Node)
           thing == Thing(Holder(Node), refs, "none")
<1>1. /\ pc = "next" /\ Running /\ pc # "save" /\ at \in 1..Len(Walk) /\ at \in DOMAIN Walk
      /\ Node \in Nodes /\ Node \in dir /\ Kind[Node] \in Created /\ Position[Node] = at
      /\ Node \notin DOMAIN mem
  BY AtNode DEF create, Takes
<1>2. /\ live' = With(live, new, thing) /\ Answered(With(mem, Node, new), "save", at)
      /\ Mapped(Node) /\ UNCHANGED disk
  BY DEF create, Answered
<1>3. IsMapping(mem) /\ disk # Torn
  BY <1>1, Types DEF Inv, FunctionsOK, PlaceTypes, MapInv
<1>4. new \in Ids /\ new.of = Node
  BY <1>1, CopiesFinite DEF Inv, FunctionsOK
<1>5. thing \in Copy
  <2>1. Holder(Node) \in Ids \cup {NoMap}
    BY <1>1, HomeThere DEF Holder
  <2>2. Refs[Node] \subseteq DOMAIN mem
    BY <1>1, <1>2, KindFacts DEF Mapped
  <2>3. refs \subseteq Ids
    BY <1>3, <2>2 DEF IsMapping
  <2> QED
    BY <2>1, <2>3 DEF Thing, Copy
<1> HIDE DEF refs, new, thing
<1>6. LiveOK' /\ DOMAIN live' = DOMAIN live \cup {new}
  BY <1>2, <1>4, <1>5, WithLive DEF Inv, FunctionsOK
<1>7. CASE IsCut
  BY <1>1, <1>2, <1>6, <1>7, CutKeeps
<1>8. CASE mem' = With(mem, Node, new) /\ Go("save", at)
  <2>1. /\ UNCHANGED <<dumping, target, outcome, verified, cuts>> /\ pc' = "save" /\ at' = at
        /\ dir' = dir
    BY <1>8 DEF Go, Restoring, dumping
  <2>2. IsMapping(mem')
    BY <1>1, <1>3, <1>4, <1>8, WithMap
  <2>3. /\ DOMAIN mem' = DOMAIN mem \cup {Node} /\ mem'[Node] = new
        /\ \A y \in DOMAIN mem : mem'[y] = mem[y]
    BY <1>1, <1>8 DEF With
  <2>4. at' \in 1..(Len(Walk) + 1)
    BY <1>1, <2>1 DEF Inv, WalkInv
  <2>5. WalkInv'
    <3>1. \A y \in dir' : Position[y] < at' /\ Kind[y] \in Created => y \in DOMAIN mem'
      BY <1>1, <2>1, <2>3 DEF Inv, WalkInv
    <3>2. at' \in DOMAIN Walk /\ Kind[Node'] \in Created /\ Node' \in DOMAIN mem'
      BY <1>1, <2>1, <2>3 DEF Node
    <3> QED
      BY <2>1, <2>4, <3>1, <3>2 DEF Inv, WalkInv
  <2>6. MapInv'
    <3>1. disk' # NoMap => \A y \in DOMAIN disk' : y \in DOMAIN mem' /\ mem'[y] = disk'[y]
      BY <1>1, <1>2, <2>3 DEF Inv, MapInv
    <3>2. \A y \in DOMAIN mem' : Kind[y] \in Created =>
             (pc' = "save" /\ y = Node') \/ (disk' # NoMap /\ y \in DOMAIN disk')
      BY <1>1, <1>2, <2>1, <2>3 DEF Inv, MapInv, Node
    <3> QED
      BY <1>2, <1>3, <3>1, <3>2 DEF MapInv
  <2>7. \A c \in DOMAIN live' : Stray(c)' => Stray(c)
    <3>1. \A c : Names(mem, c) => Names(mem', c)
      BY <2>3 DEF Names
    <3>2. mem' # NoMap /\ Names(mem', new)
      BY <2>2, <2>3, MapIsNoMark DEF Names
    <3> QED
      BY <1>2, <1>6, <3>1, <3>2 DEF Stray, Names
  <2>8. disk' \in {NoMap, Torn} \/ IsMapping(disk')
    BY <1>2 DEF Inv, FunctionsOK
  <2>9. outcome' \in {"none", "ok", "error"} /\ verified' \in BOOLEAN
    BY <2>1, Types DEF Inv, ToolTypes
  <2> QED
    BY <1>3, <1>6, <2>1, <2>2, <2>4, <2>5, <2>6, <2>7, <2>8, <2>9, OnKeeps
<1> QED
  BY <1>2, <1>7, <1>8 DEF Answered

LEMMA SaveKeeps == ASSUME Inv, save PROVE Inv'
<1>1. Running /\ at \in DOMAIN Walk /\ at \in 1..Len(Walk) /\ UNCHANGED live
  BY WalkFacts DEF save, Takes, Running, Inv, WalkInv
<1>2. LiveOK'
  BY <1>1 DEF Inv, FunctionsOK, LiveOK
<1>3. CASE IsCut
  <2>1. disk' \in {disk, mem, Torn}
    BY <1>3, Types DEF save, Go, IsCut, Ended, Inv, ToolTypes, PlaceTypes
  <2> QED
    BY <1>1, <1>2, <1>3, <2>1, CutKeeps
<1>4. CASE disk' = mem /\ UNCHANGED mem /\ Go("next", at + 1)
  <2>1. /\ UNCHANGED <<dumping, target, outcome, verified, cuts>> /\ pc' = "next"
        /\ at' = at + 1 /\ dir' = dir
    BY <1>4 DEF Go, Restoring, dumping
  <2>2. IsMapping(mem) /\ disk # Torn /\ mem # NoMap
    BY <1>1, Types DEF Inv, FunctionsOK, PlaceTypes, MapInv
  <2>3. at' \in 1..(Len(Walk) + 1)
    BY <1>1, <2>1, WalkFacts
  <2>4. WalkInv'
    <3>1. ASSUME NEW y \in dir, Position[y] < at + 1, Kind[y] \in Created
          PROVE  y \in DOMAIN mem
      <4>1. Position[y] \in Nat /\ Walk[Position[y]] = y
        BY Types, WalkFacts DEF Inv, DumpTypes
      <4>2. CASE Position[y] < at
        BY <1>1, <3>1, <4>2 DEF Inv, WalkInv
      <4>3. CASE Position[y] = at
        <5>1. y = Node
          BY <4>1, <4>3 DEF Node
        <5>2. pc = "save"
          BY <3>1, <5>1 DEF save, Takes, Created
        <5> QED
          BY <5>1, <5>2 DEF Inv, WalkInv
      <4> QED
        BY <1>1, <3>1, <4>1, <4>2, <4>3
    <3>2. \A y \in dir' : Position[y] < at' /\ Kind[y] \in Created => y \in DOMAIN mem'
      BY <1>4, <2>1, <3>1
    <3> QED
      BY <2>1, <2>3, <3>2 DEF Inv, WalkInv
  <2>5. MapInv'
    BY <1>4, <2>2, MapIsNoMark DEF MapInv
  <2>6. \A c \in DOMAIN live' : Stray(c)' => Stray(c)
    <3>1. \A c : disk # NoMap /\ Names(disk, c) => Names(mem, c)
      BY <1>1 DEF Inv, MapInv, Names
    <3> QED
      BY <1>1, <1>4, <2>2, <3>1 DEF Stray, Names
  <2>7. outcome' \in {"none", "ok", "error"} /\ verified' \in BOOLEAN
    BY <2>1, Types DEF Inv, ToolTypes
  <2> QED
    BY <1>2, <1>4, <2>1, <2>2, <2>3, <2>4, <2>5, <2>6, <2>7, OnKeeps
<1> QED
  BY <1>3, <1>4 DEF save

(* What the API is asked for, for an image. *)
LEMMA AnsweredAsk ==
    ASSUME Inv, pc = "next", at \in DOMAIN Walk, Kind[Node] \in Slots \cup {"image"},
           Kind[Node] = "image" => Node \notin DOMAIN mem,
           NEW c \in Ids, c.of = Node, NEW t \in Copy, live' = With(live, c, t),
           Answered(mem, "put", at)
    PROVE  Inv'
<1>1. LiveOK' /\ DOMAIN live' = DOMAIN live \cup {c}
  BY WithLive DEF Inv, FunctionsOK
<1>2. \A d \in DOMAIN live' : d \in DOMAIN live \/ Kind[d.of] \notin Created
  BY <1>1 DEF Created, Slots
<1>3. UNCHANGED disk /\ Running
  BY DEF Answered, Running
<1>4. CASE IsCut
  BY <1>1, <1>2, <1>3, <1>4, CutKeeps
<1>5. CASE mem' = mem /\ Go("put", at)
  BY <1>1, <1>2, <1>3, <1>5, AskKeeps
<1> QED
  BY <1>4, <1>5 DEF Answered

LEMMA SlotKeeps ==
    ASSUME Inv, NEW holders, uploadSingleSlot(holders)
    PROVE  Inv'
<1>1. /\ pc = "next" /\ Running /\ at \in DOMAIN Walk /\ Node \in dir /\ Node \in Nodes
      /\ Kind[Node] \in Slots
  BY AtNode DEF uploadSingleSlot, WantsSlot, Takes
<1>2. Node \notin Items
  BY <1>1, KindFacts DEF Slots
<1>3. Home(Node) \in Ids
  BY <1>1, <1>2, HomeThere
<1>4. SlotOf(Node) \in Ids /\ SlotOf(Node).of = Node
  BY <1>1, <1>3 DEF SlotOf, Ids
<1>5. Thing(Home(Node), {}, "none") \in Copy
  BY <1>3 DEF Thing, Copy
<1> QED
  BY <1>1, <1>4, <1>5, AnsweredAsk DEF uploadSingleSlot, Slots

LEMMA ArrayKeeps == ASSUME Inv, restoreArrayImages PROVE Inv'
<1>1. /\ pc = "next" /\ Running /\ at \in DOMAIN Walk /\ Node \in dir /\ Node \in Nodes
      /\ Kind[Node] = "image" /\ Node \notin DOMAIN mem
  BY AtNode DEF restoreArrayImages, Takes
<1>2. Node \notin Items
  BY <1>1, KindFacts
<1>3. Home(Node) \in Ids
  BY <1>1, <1>2, HomeThere
<1>4. NewCopy(Node) \in Ids /\ NewCopy(Node).of = Node
  BY <1>1, CopiesFinite DEF Inv, FunctionsOK
<1>5. Thing(Home(Node), {}, "none") \in Copy
  BY <1>3 DEF Thing, Copy
<1> QED
  BY <1>1, <1>4, <1>5, AnsweredAsk DEF restoreArrayImages

LEMMA UploadKeeps == ASSUME Inv, uploadImage PROVE Inv'
<1> DEFINE copy == IF Kind[Node] = "image" THEN [of |-> Node, nth |-> Cardinality(Copies(Node))]
                                           ELSE SlotOf(Node)
<1>1. /\ pc = "put" /\ live' = [live EXCEPT ![copy].bytes = "dumped"]
      /\ Answered(IF Kind[Node] = "image" THEN With(mem, Node, copy) ELSE mem, "next", at + 1)
  BY DEF uploadImage
<1>2. /\ Running /\ pc # "save" /\ at \in DOMAIN Walk /\ at \in 1..Len(Walk) /\ Node \in Nodes
      /\ Kind[Node] \in Slots \cup {"image"}
      /\ Kind[Node] = "image" => Node \notin DOMAIN mem
  BY <1>1, WalkFacts DEF Inv, WalkInv, Running, Node
<1>3. Kind[Node] = "image" => copy \in Ids /\ copy.of = Node
  BY <1>2, CopiesFinite DEF Inv, FunctionsOK, Ids
<1> HIDE DEF copy
<1>4. DOMAIN live' = DOMAIN live /\ LiveOK'
  <2>1. DOMAIN live' = DOMAIN live
    BY <1>1
  <2>2. ASSUME NEW c \in DOMAIN live PROVE live'[c] \in Copy
    <3>1. live[c] \in Copy /\ live \in [DOMAIN live -> Copy]
      BY DEF Inv, FunctionsOK, LiveOK
    <3>2. live'[c] = IF c = copy THEN [live[c] EXCEPT !.bytes = "dumped"] ELSE live[c]
      BY <1>1, <3>1
    <3> QED
      BY <3>1, <3>2 DEF Copy
  <2>3. live' \in [DOMAIN live -> Copy]
    BY <1>1, <2>2
  <2> QED
    BY <2>1, <2>3 DEF Inv, FunctionsOK, LiveOK
<1>5. UNCHANGED disk
  BY <1>1 DEF Answered
<1>6. CASE IsCut
  BY <1>2, <1>4, <1>5, <1>6, CutKeeps
<1>7. CASE /\ mem' = IF Kind[Node] = "image" THEN With(mem, Node, copy) ELSE mem
           /\ Go("next", at + 1)
  <2>1. at + 1 <= Len(Walk) + 1 /\ at..(at + 1 - 1) = {at}
    BY <1>2, WalkFacts
  <2>2. \A i \in at..(at + 1 - 1) : Kind[Walk[i]] \notin Created
    BY <1>2, <2>1 DEF Node, Created, Slots
  <2>3. \A c \in DOMAIN live' : c \in DOMAIN live
    BY <1>4
  <2>4. \/ mem' = mem
        \/ /\ Kind[Node] = "image" /\ Node \notin DOMAIN mem
           /\ \E c \in Ids : c.of = Node /\ mem' = With(mem, Node, c)
    BY <1>2, <1>3, <1>7
  <2> QED
    BY <1>2, <1>4, <1>5, <1>7, <2>1, <2>2, <2>3, <2>4, PassKeeps
<1> QED
  BY <1>1, <1>6, <1>7 DEF Answered

LEMMA RestoreKeeps == ASSUME Inv, RestoreNext PROVE Inv'
<1>1. CASE cut
  <2>1. Running /\ LiveOK' /\ UNCHANGED <<live, disk>> /\ IsCut
    BY <1>1 DEF cut, Running, Inv, FunctionsOK, LiveOK
  <2> QED
    BY <2>1, CutKeeps
<1>2. CASE restoreKeyboards \/ restoreKeyboardParts \/ restoreSwitches
           \/ restoreKeycapSets \/ restoreKits \/ restoreBuilds
  BY <1>2, CreateKeeps DEF restoreKeyboards, restoreKeyboardParts, restoreSwitches,
                           restoreKeycapSets, restoreKits, restoreBuilds, Created
<1>3. CASE restoreAvatar \/ restoreSwitchImage \/ restoreKitImage
  BY <1>3, SlotKeeps DEF restoreAvatar, restoreSwitchImage, restoreKitImage
<1> QED
  BY <1>1, <1>2, <1>3, StartKeeps, RestoredKeeps, PassingKeeps, ResumeKeeps, RefusedKeeps,
     CreateProfileKeeps, SaveKeeps, ArrayKeeps, UploadKeeps DEF RestoreNext, RestoreStep

-----------------------------------------------------------------------------
(* The account restored to, and verify                                     *)

LEMMA ProfileTree ==
    ASSUME NEW x \in Items, Kind[x] = "profile", NEW y \in Tree[x]
    PROVE  Kind[y] \in {"profile", "avatar"}
<1>1. x \in Nodes /\ Parent[x] = x /\ y \in Nodes /\ Parent[Parent[y]] = x
  BY TreeIs DEF Items, Top
<1> DEFINE z == Parent[y]
<1>2. z \in Nodes
  BY <1>1, KindFacts
<1>3. CASE y = x
  BY <1>3
<1>4. CASE y # x /\ z = x
  <2>1. y \notin Items
    BY <1>1, <1>4 DEF Items
  <2> QED
    BY <1>1, <1>4, <2>1, KindFacts
<1>5. CASE z # x
  <2>1. z \notin Items
    BY <1>1, <1>2, <1>5 DEF Items
  <2>2. Kind[z] = "avatar"
    BY <1>1, <1>2, <2>1, KindFacts
  <2>3. y # z => y \notin Items
    BY DEF Items
  <2>4. y = z
    BY <1>1, <1>2, <2>2, <2>3, KindFacts
  <2> QED
    BY <2>2, <2>4
<1> QED
  BY <1>3, <1>4, <1>5

(* Steps that leave the tool where it is, when no restore runs. *)
LEMMA ElsewhereKeeps ==
    ASSUME Inv, pc = "idle", UNCHANGED <<dumping, fits, disk, mem, pc, at, outcome, cuts>>,
           taken' \in BOOLEAN, verified' \in BOOLEAN, LiveOK',
           \A c \in DOMAIN live' : c \in DOMAIN live \/ Kind[c.of] \notin Created
    PROVE  Inv'
<1>1. ~Running' /\ ~Dumping' /\ ~Running
  BY DEF Running, Dumping
<1>2. ToolTypes' /\ PlaceTypes'
  BY <1>1, Types DEF Inv, ToolTypes, PlaceTypes, Running, Dumping
<1>3. DumpTypes' /\ DumpInv' /\ \A x \in dir' : Parent[x] \in dir'
  BY <1>1, ToolLeavesDump
<1>4. WalkInv' /\ MapInv'
  BY <1>1, <1>3 DEF WalkInv, MapInv, Running
<1>5. FunctionsOK'
  BY DEF Inv, FunctionsOK
<1>6. OneSurplusPerCut'
  <2>1. CASE disk = Torn
    BY <2>1 DEF OneSurplusPerCut
  <2>2. CASE disk # Torn
    <3>1. \A c \in DOMAIN live' : Stray(c)' => Stray(c)
      BY DEF Stray, Names
    <3> QED
      BY <1>5, <2>2, <3>1, StrayStep
  <2> QED
    BY <2>1, <2>2
<1> QED
  BY <1>2, <1>3, <1>4, <1>5, <1>6, TypesNext DEF Inv

LEMMA SignUpKeeps ==
    ASSUME Inv, NEW x \in Items, TargetSignsUp(x)
    PROVE  Inv'
<1> DEFINE id == [y \in Tree[x] |-> [of |-> y, nth |-> 1]]
           ids == {[of |-> y, nth |-> 1] : y \in Tree[x]}
<1>1. /\ pc = "idle" /\ Kind[x] = "profile" /\ UNCHANGED taken
      /\ UNCHANGED <<dumping, fits, disk, mem, pc, at, outcome, verified, cuts>>
      /\ live' = [c \in ids |-> IF c.of = x THEN Thing(NoMap, {}, "none")
                                ELSE Thing([of |-> x, nth |-> 1], {}, "other")]
  BY DEF TargetSignsUp, NoProfile, Elsewhere
<1>2. Tree[x] \subseteq Nodes /\ x \in Nodes
  BY TreeFacts DEF Items
<1>3. ids \subseteq Ids /\ \A c \in ids : c.of \in Tree[x]
  BY <1>2 DEF Ids
<1>4. IsFiniteSet(ids)
  <2>1. IsFiniteSet(Tree[x])
    BY <1>2, NodesFinite, FS_Subset
  <2>2. id \in Surjection(Tree[x], ids)
    BY DEF Surjection
  <2> QED
    BY <2>1, <2>2, FS_Surjection
<1>5. Thing(NoMap, {}, "none") \in Copy /\ Thing([of |-> x, nth |-> 1], {}, "other") \in Copy
  BY <1>2 DEF Thing, Copy, Ids
<1> HIDE DEF ids
<1>6. LiveOK' /\ DOMAIN live' = ids
  BY <1>1, <1>3, <1>4, <1>5 DEF LiveOK
<1>7. \A c \in DOMAIN live' : Kind[c.of] \notin Created
  BY <1>1, <1>3, <1>6, ProfileTree DEF Created
<1>8. taken' \in BOOLEAN /\ verified' \in BOOLEAN
  BY <1>1, Types DEF Inv, ToolTypes
<1> QED
  BY <1>1, <1>6, <1>7, <1>8, ElsewhereKeeps

LEMMA TargetKeeps == ASSUME Inv, TargetNext \/ VerifyRun PROVE Inv'
<1>1. CASE UsernameTaken
  <2>1. LiveOK' /\ verified' \in BOOLEAN
    BY <1>1, Types DEF UsernameTaken, Elsewhere, Inv, FunctionsOK, LiveOK, ToolTypes
  <2> QED
    BY <1>1, <2>1, ElsewhereKeeps DEF UsernameTaken, NoProfile, Elsewhere
<1>2. CASE VerifyRun
  <2>1. VerifyPasses \in BOOLEAN
    BY DEF VerifyPasses
  <2>2. LiveOK' /\ taken' \in BOOLEAN
    BY <1>2, Types DEF VerifyRun, target, Inv, FunctionsOK, LiveOK, ToolTypes
  <2> QED
    BY <1>2, <2>1, <2>2, ElsewhereKeeps DEF VerifyRun, target
<1> QED
  BY <1>1, <1>2, SignUpKeeps DEF TargetNext

-----------------------------------------------------------------------------
(* The invariant, and what it proves                                       *)

LEMMA InvInitially == ASSUME Init PROVE Inv
<1> DEFINE none == [c \in {} |-> NoMap]
<1>1. live = none /\ disk = NoMap /\ mem = NoMap /\ pc = "idle" /\ at = 0
  BY DEF Init
<1>2. DOMAIN none = {} /\ none \in [{} -> Copy]
  OBVIOUS
<1>3. FunctionsOK
  <2>1. IsFiniteSet({})
    BY FS_EmptySet
  <2> HIDE DEF none
  <2> QED
    BY <1>1, <1>2, <2>1 DEF FunctionsOK, LiveOK
<1>4. DumpTypes /\ ToolTypes /\ PlaceTypes
  <2>1. Len(Walk) \in Nat /\ MaxEdits \in Nat /\ MaxCuts \in Nat
    <3>1. Len(Walk) \in Nat
      BY WalkFacts
    <3>2. {PageLimit, MaxImagesPerItem, MaxEdits, MaxCuts} \subseteq Nat
      BY Bounds
    <3> QED
      BY <3>1, <3>2
  <2>2. DumpTypes
    <3>1. source \subseteq Items /\ stable = {} /\ todo = {} /\ dir = {} /\ broken = {}
      BY Tables DEF Init
    <3>2. edits \in 0..MaxEdits /\ cursor \in 0..Len(Walk)
      BY <2>1 DEF Init
    <3>3. manifest \in BOOLEAN
      BY Zenon DEF Init
    <3> QED
      BY <3>1, <3>2, <3>3 DEF DumpTypes
  <2>3. ToolTypes
    <3>1. cuts \in 0..MaxCuts /\ outcome \in {"none", "ok", "error"}
      BY <2>1 DEF Init
    <3>2. taken \in BOOLEAN /\ fits \in BOOLEAN /\ verified \in BOOLEAN
      BY Zenon DEF Init
    <3> QED
      BY <3>1, <3>2 DEF ToolTypes
  <2>4. PlaceTypes
    BY <1>1, <2>1 DEF PlaceTypes, Running, Dumping
  <2> QED
    BY <2>2, <2>3, <2>4
<1>5. DumpInv /\ WalkInv /\ MapInv
  BY DEF Init, DumpInv, WalkInv, MapInv, Running, Dumping
<1>6. OneSurplusPerCut
  <2>1. Strays = {}
    BY <1>1, <1>2 DEF Strays
  <2>2. cuts = 0 /\ Cardinality(Strays) = 0
    BY <2>1, FS_EmptySet DEF Init
  <2>3. disk # Torn
    BY <1>1, Marks
  <2> QED
    BY <1>3, <2>2, <2>3, StraysAreCounted DEF StraysCounted
<1> QED
  BY <1>3, <1>4, <1>5, <1>6, Types DEF Inv

LEMMA InvInductive == Inv /\ [Next]_vars => Inv'
<1>1. ASSUME Inv, UNCHANGED vars
      PROVE  Inv'
  <2>1. DumpTypes' /\ ToolTypes' /\ PlaceTypes' /\ FunctionsOK'
    BY <1>1, Types DEF vars, dumping, target, Inv, DumpTypes, ToolTypes, PlaceTypes, FunctionsOK,
                       LiveOK, Running, Dumping
  <2>2. DumpInv' /\ WalkInv' /\ MapInv'
    BY <1>1 DEF Written, vars, dumping, target, Inv, DumpInv, Accounted, WalkInv, MapInv, Running,
                Dumping, Node
  <2>3. OneSurplusPerCut'
    BY <1>1 DEF vars, dumping, target, Inv, OneSurplusPerCut
  <2> QED
    BY <2>1, <2>2, <2>3, TypesNext DEF Inv
<1> QED
  BY <1>1, DumpKeeps, TargetKeeps, RestoreKeeps DEF Next

LEMMA Invariant == Spec => []Inv
BY InvInitially, InvInductive, PTL DEF Spec

(* The tool is at a place that its collections and its walk have, holds a  *)
(* map while it restores and only then, and the API has ids of what was    *)
(* dumped and nothing else (dump.go, restore.go).                          *)
THEOREM TypeCorrect == Spec => []TypeOK
<1>1. Inv => TypeOK
  BY DEF Inv
<1> QED
  BY <1>1, Invariant, PTL

(* However often a restore is cut short, between whatever calls, it leaves *)
(* at most one item, part or kit that the map does not have for each cut   *)
(* (restore.go:20), for as long as id-map.json was not torn.               *)
THEOREM OneSurplus == Spec => []OneSurplusPerCut
<1>1. Inv => OneSurplusPerCut
  BY DEF Inv
<1> QED
  BY <1>1, Invariant, PTL

(* Restore does not touch the dump.                                        *)
LEMMA RestoreLeavesDump == RestoreNext => UNCHANGED dumping
<1>1. \A n : Skip(n) => UNCHANGED dumping
  BY DEF Skip, Go, Restoring
<1>2. Fails \/ IsCut \/ Ended => UNCHANGED dumping
  BY DEF Fails, IsCut, Ended
<1>3. \A mem1, pc1, at1 : Answered(mem1, pc1, at1) => UNCHANGED dumping
  BY <1>2 DEF Answered, Go, Restoring
<1>4. CASE NotDumped \/ updateProfile \/ slotFilled \/ avatarMatches \/ resume
  BY <1>1, <1>4 DEF NotDumped, updateProfile, slotFilled, avatarMatches, resume
<1>5. CASE itemUnreadable \/ profileConflict \/ buildRefused \/ avatarUnreadable \/ imagesFull \/ cut
  BY <1>2, <1>5 DEF itemUnreadable, profileConflict, buildRefused, avatarUnreadable, imagesFull, cut
<1>6. CASE uploadImage \/ createProfile \/ restoreArrayImages
  BY <1>3, <1>6 DEF uploadImage, createProfile, restoreArrayImages
<1>7. \A kinds : create(kinds) \/ uploadSingleSlot(kinds) => UNCHANGED dumping
  BY <1>3 DEF create, uploadSingleSlot
<1>8. CASE \/ restoreKeyboards \/ restoreKeyboardParts \/ restoreSwitches
           \/ restoreKeycapSets \/ restoreKits \/ restoreBuilds
           \/ restoreAvatar \/ restoreSwitchImage \/ restoreKitImage
  BY <1>7, <1>8 DEF restoreKeyboards, restoreKeyboardParts, restoreSwitches, restoreKeycapSets,
                    restoreKits, restoreBuilds, restoreAvatar, restoreSwitchImage, restoreKitImage
<1>9. CASE RestoreRun \/ save \/ restored
  BY <1>2, <1>9 DEF RestoreRun, save, restored, Go, Restoring
<1> QED
  BY <1>4, <1>5, <1>6, <1>8, <1>9 DEF RestoreNext, RestoreStep

(* The dump that gets its manifest has all that was in the account since   *)
(* it began, on however many pages and whatever its owner changed between  *)
(* them (dump.go:86, client.go:149).                                       *)
THEOREM DumpWhole == Spec => DumpIsWhole
<1> DEFINE Whole == manifest' /\ ~manifest => \A x \in stable : Tree[x] \subseteq dir \ broken
<1>1. ASSUME Inv, writeManifest
      PROVE  Whole
  <2> SUFFICES ASSUME NEW x \in stable
               PROVE  Tree[x] \subseteq dir \ broken
    OBVIOUS
  <2>1. pc = "fetch" /\ todo = {} /\ at = 5
    BY <1>1, CollectionFacts DEF writeManifest
  <2>2. x \in Items
    BY <1>1, Types DEF Inv, DumpTypes
  <2>3. PICK i \in DOMAIN Collections : Kind[x] = Collections[i]
    BY <2>2, Kinds DEF Items, Range
  <2>4. Accounted(x, i)
    BY <1>1, <2>1, <2>3 DEF Inv, DumpInv, Dumping
  <2>5. i \in 1..5
    BY CollectionFacts
  <2> QED
    BY <2>1, <2>4, <2>5 DEF Accounted, Written
<1>2. ASSUME Next, ~writeManifest
      PROVE  manifest' = manifest
  <2>1. CASE \E x \in Items : OwnerAdds(x) \/ OwnerDeletes(x)
    BY <2>1 DEF OwnerAdds, OwnerDeletes, EditsOnly
  <2>2. CASE \E x \in Items : \/ dumpSimpleCollection(x) \/ dumpKeycapSets(x) \/ dumpProfile(x)
                              \/ dumpItemStops(x) \/ dumpItemUnwritten(x)
    BY <2>2 DEF dumpSimpleCollection, dumpKeycapSets, dumpProfile, dumpItem, dumpItemStops,
                dumpItemUnwritten
  <2>3. CASE DumpRun \/ listAll \/ dumpStops \/ nextCollection
    BY <2>3 DEF DumpRun, listAll, dumpStops, nextCollection
  <2>4. CASE TargetNext \/ VerifyRun
    BY <2>4 DEF TargetNext, UsernameTaken, TargetSignsUp, Elsewhere, VerifyRun, dumping
  <2>5. CASE RestoreNext
    BY <2>5, RestoreLeavesDump DEF dumping
  <2> QED
    BY <1>2, <2>1, <2>2, <2>3, <2>4, <2>5 DEF Next, DumpNext
<1>3. Inv /\ [Next]_vars => [Whole]_vars
  BY <1>1, <1>2
<1> QED
  BY <1>3, Invariant, PTL DEF Spec, DumpIsWhole

-----------------------------------------------------------------------------
(* A restore that succeeds                                                 *)

IsAMap(m) == m \notin {NoMap, Torn}

(* A dump with a manifest is not written again, and only such a one is     *)
(* restored.  An item that is written is in it with all that comes without *)
(* an image.                                                               *)
DumpDone ==
    /\ Running \/ outcome = "ok" \/ IsAMap(disk) => manifest
    /\ Dumping => ~manifest
    /\ \A y \in dir : Top(y) \in Written => Tree[Top(y)] \ Images \subseteq dir

(* What a map m has for a node is a copy of it in the account l, below the *)
(* copy of its parent, with the right references or with its image.        *)
HasId == Created \cup {"image"}
FaithfulIn(m, l, d) ==
    \A y \in DOMAIN m :
        /\ y \in d /\ Kind[y] \in HasId /\ m[y] \in DOMAIN l
        /\ y \notin Items => Parent[y] \in DOMAIN m /\ l[m[y]].under = m[Parent[y]]
        /\ Kind[y] \in Created => Refs[y] \subseteq DOMAIN m /\ l[m[y]].refs = {m[r] : r \in Refs[y]}
        /\ Kind[y] = "image" => l[m[y]].bytes = "dumped"

Faithful ==
    /\ IsAMap(disk) => FaithfulIn(disk, live, Written)
    /\ IsAMap(mem) => FaithfulIn(mem, live, Written)

(* The API gives new ids. *)
NumberedIn(l) ==
    \A c \in DOMAIN l : Kind[c.of] \in HasId => c.nth <= Cardinality({d \in DOMAIN l : d.of = c.of})
Numbered == NumberedIn(live)

(* The slot, or the place, that the API has for the image to come. *)
PutCopy == IF Kind[Node] = "image" THEN [of |-> Node, nth |-> Cardinality(Copies(Node))]
                                   ELSE SlotOf(Node)
Asked ==
    pc = "put" =>
        /\ Node \in dir /\ PutCopy \in DOMAIN live
        /\ Kind[Node] = "image" => live[PutCopy].under = Home(Node)

(* A slot without its image is that of a run that was cut, or is about to  *)
(* be filled.                                                              *)
SlotsFilled ==
    \A c \in DOMAIN live : Kind[c.of] = "slot" =>
        /\ live[c].bytes \in {"none", "dumped"}
        /\ live[c].bytes = "none" => cuts > 0 \/ (pc = "put" /\ c = PutCopy)

(* What a restore that goes past a node has for it: k runs were cut.       *)
PastIn(m, l, k, y) ==
    /\ Kind[y] \in Created => y \in DOMAIN m
    /\ Kind[y] = "profile" => \E c \in DOMAIN l : c.of = y
    /\ Kind[y] = "avatar" => LET c == [of |-> y, nth |-> 1]
                             IN  c \in DOMAIN l /\ l[c].bytes = "dumped"
    /\ Kind[y] = "slot" => /\ Parent[y] \in DOMAIN m
                           /\ [of |-> y, nth |-> m[Parent[y]].nth] \in DOMAIN l
    /\ Kind[y] = "image" => y \in DOMAIN m \/ (Kind[Parent[y]] = "build" /\ k > 0)

Behind ==
    /\ Running => \A y \in dir : Position[y] < at => PastIn(mem, live, cuts, y)
    /\ pc = "idle" /\ outcome = "ok" =>
         IsAMap(disk) /\ \A y \in dir : PastIn(disk, live, cuts, y)

(* Until a run is cut, an item's images are in the map, and on disk, but   *)
(* for those of the item that the restore is at.                           *)
Begun(y) == Position[Parent[y]] < at \/ (Position[Parent[y]] = at /\ pc = "save")
Closes(e, y) == Kind[e] = "end" /\ Parent[e] = Parent[y] /\ Position[y] < Position[e]
Open(y) == Running /\ Begun(y) /\ \E e \in Nodes : Closes(e, y) /\ at <= Position[e]

ImagesOf(m) == {y \in dir : Kind[y] = "image" /\ Parent[y] \in DOMAIN m}

ImagesMapped ==
    cuts = 0 =>
        /\ Running => \A y \in ImagesOf(mem) : y \in DOMAIN mem \/ (Begun(y) /\ at <= Position[y])
        /\ IsAMap(disk) => \A y \in ImagesOf(disk) : y \in DOMAIN disk \/ Open(y)

(* Until then, too, the account has no image that the map does not have.   *)
Maps(m, c) == c.of \in DOMAIN m /\ m[c.of] = c
NoSurplusImage ==
    cuts = 0 =>
        \A c \in DOMAIN live : Kind[c.of] = "image" =>
            \/ Running /\ (Maps(mem, c) \/ (pc = "put" /\ c = PutCopy))
            \/ ~Running /\ IsAMap(disk) /\ Maps(disk, c)

(* What is not an item is on a copy of what holds it in the dump.          *)
PlacedIn(l) ==
    \A c \in DOMAIN l : c.of \notin Items => l[c].under \in Ids /\ l[c].under.of = Parent[c.of]
Placed == PlacedIn(live)

(* What verify found holds until the next restore.                         *)
Compared == /\ Running => ~verified
            /\ pc = "idle" /\ outcome = "ok" /\ verified => VerifyPasses

RInv ==
    /\ DumpDone /\ Faithful /\ Numbered /\ Asked /\ SlotsFilled /\ Behind
    /\ ImagesMapped /\ NoSurplusImage /\ Placed /\ Compared

(* What the API's calls do to the account: ids stay, and images.           *)
Grows(l, l2) ==
    \A c \in DOMAIN l :
        /\ c \in DOMAIN l2
        /\ l[c].bytes = "dumped" => l2[c].bytes = "dumped"
        /\ Kind[c.of] \in HasId => l2[c].under = l[c].under /\ l2[c].refs = l[c].refs

(* A map that goes on from another. *)
Extends(m, m2) == \A y \in DOMAIN m : y \in DOMAIN m2 /\ m2[y] = m[y]

LEMMA FaithfulGrows ==
    ASSUME NEW m, IsMapping(m), NEW l, NEW l2, NEW d, FaithfulIn(m, l, d), Grows(l, l2)
    PROVE  FaithfulIn(m, l2, d)
<1> SUFFICES ASSUME NEW y \in DOMAIN m
             PROVE  /\ y \in d /\ Kind[y] \in HasId /\ m[y] \in DOMAIN l2
                    /\ y \notin Items => Parent[y] \in DOMAIN m /\ l2[m[y]].under = m[Parent[y]]
                    /\ Kind[y] \in Created => /\ Refs[y] \subseteq DOMAIN m
                                              /\ l2[m[y]].refs = {m[r] : r \in Refs[y]}
                    /\ Kind[y] = "image" => l2[m[y]].bytes = "dumped"
  BY DEF FaithfulIn
<1>1. m[y].of = y /\ m[y] \in DOMAIN l /\ Kind[y] \in HasId
  BY DEF IsMapping, FaithfulIn
<1>2. /\ m[y] \in DOMAIN l2
      /\ l[m[y]].bytes = "dumped" => l2[m[y]].bytes = "dumped"
      /\ l2[m[y]].under = l[m[y]].under /\ l2[m[y]].refs = l[m[y]].refs
  BY <1>1 DEF Grows
<1> QED
  BY <1>1, <1>2 DEF FaithfulIn

LEMMA FaithfulWith ==
    ASSUME NEW m, IsMapping(m), NEW l, NEW d, FaithfulIn(m, l, d),
           NEW x \in d, x \notin DOMAIN m, Kind[x] \in HasId, NEW c \in DOMAIN l,
           x \notin Items => Parent[x] \in DOMAIN m /\ l[c].under = m[Parent[x]],
           Kind[x] \in Created => Refs[x] \subseteq DOMAIN m /\ l[c].refs = {m[r] : r \in Refs[x]},
           Kind[x] = "image" => l[c].bytes = "dumped"
    PROVE  FaithfulIn(With(m, x, c), l, d)
<1> DEFINE w == With(m, x, c)
<1>1. DOMAIN w = DOMAIN m \cup {x} /\ w[x] = c /\ \A y \in DOMAIN m : w[y] = m[y]
  BY DEF With
<1> HIDE DEF w
<1> SUFFICES ASSUME NEW y \in DOMAIN w
             PROVE  /\ y \in d /\ Kind[y] \in HasId /\ w[y] \in DOMAIN l
                    /\ y \notin Items => Parent[y] \in DOMAIN w /\ l[w[y]].under = w[Parent[y]]
                    /\ Kind[y] \in Created => /\ Refs[y] \subseteq DOMAIN w
                                              /\ l[w[y]].refs = {w[r] : r \in Refs[y]}
                    /\ Kind[y] = "image" => l[w[y]].bytes = "dumped"
  BY DEF FaithfulIn, w
<1>2. CASE y = x
  <2>1. Kind[x] \in Created => {w[r] : r \in Refs[x]} = {m[r] : r \in Refs[x]}
    BY <1>1
  <2> QED
    BY <1>1, <1>2, <2>1
<1>3. CASE y \in DOMAIN m
  <2>1. /\ y \in d /\ Kind[y] \in HasId /\ m[y] \in DOMAIN l
        /\ y \notin Items => Parent[y] \in DOMAIN m /\ l[m[y]].under = m[Parent[y]]
        /\ Kind[y] \in Created => Refs[y] \subseteq DOMAIN m /\ l[m[y]].refs = {m[r] : r \in Refs[y]}
        /\ Kind[y] = "image" => l[m[y]].bytes = "dumped"
    BY <1>3 DEF FaithfulIn
  <2>2. Kind[y] \in Created => {w[r] : r \in Refs[y]} = {m[r] : r \in Refs[y]}
    BY <1>1, <2>1
  <2> QED
    BY <1>1, <1>3, <2>1, <2>2
<1> QED
  BY <1>1, <1>2, <1>3

LEMMA PastGrows ==
    ASSUME NEW m, NEW m2, NEW l, NEW l2, NEW k, NEW k2, NEW y,
           PastIn(m, l, k, y), Extends(m, m2), Grows(l, l2), k > 0 => k2 > 0
    PROVE  PastIn(m2, l2, k2, y)
<1>1. /\ Kind[y] \in Created => y \in DOMAIN m2
      /\ Kind[y] = "image" => y \in DOMAIN m2 \/ (Kind[Parent[y]] = "build" /\ k2 > 0)
  BY DEF PastIn, Extends
<1>2. Kind[y] = "profile" => \E c \in DOMAIN l2 : c.of = y
  BY DEF PastIn, Grows
<1>3. Kind[y] = "avatar" => LET c == [of |-> y, nth |-> 1]
                            IN  c \in DOMAIN l2 /\ l2[c].bytes = "dumped"
  BY DEF PastIn, Grows
<1>4. Kind[y] = "slot" => /\ Parent[y] \in DOMAIN m2
                          /\ [of |-> y, nth |-> m2[Parent[y]].nth] \in DOMAIN l2
  BY DEF PastIn, Grows, Extends
<1> QED
  BY <1>1, <1>2, <1>3, <1>4 DEF PastIn

(* A new copy has a new id. *)
LEMMA NumberedNew ==
    ASSUME LiveOK, Numbered, NEW x \in Nodes, Kind[x] \in HasId, NEW t,
           live' = With(live, NewCopy(x), t)
    PROVE  /\ NewCopy(x) \notin DOMAIN live /\ Numbered'
           /\ Cardinality({d \in DOMAIN live' : d.of = x}) = Cardinality(Copies(x)) + 1
<1> DEFINE n == Cardinality(Copies(x))
           new == NewCopy(x)
           Of(l, y) == {d \in DOMAIN l : d.of = y}
<1>1. n \in Nat /\ new.of = x /\ new.nth = n + 1 /\ IsFiniteSet(Copies(x))
  <2>1. Copies(x) \subseteq DOMAIN live
    BY DEF Copies
  <2> QED
    BY <2>1, FS_Subset, FS_CardinalityType DEF LiveOK, NewCopy
<1>2. new \notin DOMAIN live
  <2> SUFFICES ASSUME new \in DOMAIN live
               PROVE  FALSE
    OBVIOUS
  <2>1. new.nth <= Cardinality(Of(live, new.of))
    BY <1>1 DEF Numbered, NumberedIn
  <2>2. Of(live, new.of) = Copies(x)
    BY <1>1 DEF Copies
  <2> HIDE DEF new, Of, n
  <2>3. n + 1 <= n
    BY <1>1, <2>1, <2>2 DEF n
  <2> QED
    BY <1>1, <2>3
<1>3. DOMAIN live' = DOMAIN live \cup {new}
  BY WithFacts
<1> HIDE DEF n, new
<1>4. Of(live', x) = Copies(x) \cup {new} /\ \A y : y # x => Of(live', y) = Of(live, y)
  <2>1. Of(live', x) = Of(live, x) \cup {new}
    BY <1>1, <1>3
  <2>2. ASSUME NEW y, y # x
        PROVE  Of(live', y) = Of(live, y)
    BY <1>1, <1>3, <2>2
  <2> QED
    BY <2>1, <2>2 DEF Copies
<1>5. Cardinality(Of(live', x)) = n + 1
  <2>1. new \notin Copies(x)
    BY <1>2 DEF Copies
  <2> QED
    BY <1>1, <1>4, <2>1, FS_AddElement DEF n
<1> HIDE DEF Of
<1>6. Numbered'
  <2> SUFFICES ASSUME NEW c \in DOMAIN live', Kind[c.of] \in HasId
               PROVE  c.nth <= Cardinality(Of(live', c.of))
    BY DEF Numbered, NumberedIn, Of
  <2>1. CASE c = new
    BY <1>1, <1>5, <2>1
  <2>2. CASE c # new
    <3>1. c \in DOMAIN live /\ c \in Ids
      BY <1>3, <2>2 DEF LiveOK
    <3>2. c.nth \in Nat /\ c.nth <= Cardinality(Of(live, c.of))
      BY <3>1 DEF Numbered, NumberedIn, Ids, Of
    <3>3. CASE c.of = x
      <4>1. Of(live, c.of) = Copies(x)
        BY <3>3 DEF Copies, Of
      <4>2. c.nth <= n
        BY <3>2, <4>1 DEF n
      <4> QED
        BY <1>1, <1>5, <3>2, <3>3, <4>2
    <3>4. CASE c.of # x
      BY <1>4, <3>2, <3>4
    <3> QED
      BY <3>3, <3>4
  <2> QED
    BY <2>1, <2>2
<1> QED
  BY <1>2, <1>5, <1>6 DEF n, new, Of

LEMMA NumberedOld ==
    ASSUME Numbered, \A c \in DOMAIN live' : c \in DOMAIN live \/ Kind[c.of] \notin HasId,
           DOMAIN live \subseteq DOMAIN live'
    PROVE  Numbered'
<1> SUFFICES ASSUME NEW c \in DOMAIN live', Kind[c.of] \in HasId
             PROVE  c.nth <= Cardinality({d \in DOMAIN live' : d.of = c.of})
  BY DEF Numbered, NumberedIn
<1>1. {d \in DOMAIN live' : d.of = c.of} = {d \in DOMAIN live : d.of = c.of}
  OBVIOUS
<1>2. c \in DOMAIN live
  OBVIOUS
<1> QED
  BY <1>1, <1>2 DEF Numbered, NumberedIn

(* What comes behind an item, and not behind something it holds, is held   *)
(* by it too.                                                              *)
LEMMA Inside ==
    ASSUME NEW p \in Items, NEW e \in Nodes, Parent[e] = p, NEW z \in Nodes,
           Position[p] < Position[z], Position[z] <= Position[e]
    PROVE  z \in Tree[p] /\ z \notin Items
<1>1. p \in Nodes /\ Parent[p] = p
  BY DEF Items
<1>2. Top(e) = p
  BY <1>1 DEF Top
<1>3. Position[e] < Position[p] + Cardinality(Tree[p])
  BY <1>2, WholeItems
<1>4. /\ Position[p] \in Nat /\ Position[z] \in Nat /\ Position[e] \in Nat
      /\ Walk[Position[z]] = z
  BY <1>1, WalkFacts
<1>5. Cardinality(Tree[p]) \in Nat
  BY TreeIsInterval
<1>6. Position[z] \in Position[p]..(Position[p] + Cardinality(Tree[p]) - 1)
  BY <1>3, <1>4, <1>5
<1>7. z \in Tree[p]
  BY <1>4, <1>6, TreeIsInterval
<1>8. z \notin Items
  <2> SUFFICES ASSUME z \in Items
               PROVE  FALSE
    OBVIOUS
  <2>1. Parent[z] = z /\ Parent[Parent[z]] = p
    BY <1>7, TreeIs DEF Items, Top
  <2> QED
    BY <1>4, <2>1
<1> QED
  BY <1>7, <1>8

(* Images are on items. *)
LEMMA ImageFacts ==
    ASSUME NEW y \in Nodes, Kind[y] \in {"image", "end"}
    PROVE  /\ Parent[y] \in Items /\ Top(y) = Parent[y] /\ y \notin Items
           /\ Kind[Parent[y]] \in {"keyboard", "build"} /\ Position[Parent[y]] < Position[y]
           /\ y \in Tree[Parent[y]]
<1>1. y \notin Items /\ Parent[y] \in Nodes /\ Kind[Parent[y]] \in {"keyboard", "build"}
  BY KindFacts
<1>2. Parent[y] \in Items
  BY <1>1, KindFacts
<1>3. Top(y) = Parent[y]
  BY <1>2 DEF Top, Items
<1> QED
  BY <1>1, <1>2, <1>3, ParentFirst, TreeIs

(* No images are on their way where an item or an avatar is next. *)
LEMMA NoneOpen ==
    ASSUME pc = "next", at \in DOMAIN Walk, Node \in Items \/ Kind[Node] = "avatar",
           NEW y \in Nodes, Kind[y] = "image"
    PROVE  ~Open(y)
<1> SUFFICES ASSUME Open(y)
             PROVE  FALSE
  OBVIOUS
<1>1. PICK e \in Nodes : Closes(e, y) /\ at <= Position[e]
  BY DEF Open
<1>2. Position[Parent[y]] < at
  BY DEF Open, Begun
<1>3. /\ Parent[y] \in Items /\ Kind[Parent[y]] \in {"keyboard", "build"}
      /\ Kind[e] = "end" /\ Parent[e] = Parent[y]
  BY <1>1, ImageFacts DEF Closes
<1>4. Node \in Nodes /\ Position[Node] = at
  BY WalkFacts DEF Node
<1>5. Node \in Tree[Parent[y]] /\ Node \notin Items
  BY <1>1, <1>2, <1>3, <1>4, Inside
<1>6. Kind[Parent[Node]] = "profile" /\ Parent[Node] \in Nodes
  BY <1>4, <1>5, KindFacts
<1>7. Parent[Node] \in Items
  BY <1>6, KindFacts
<1>8. Parent[Parent[Node]] = Parent[y]
  BY <1>3, <1>5, TreeIs DEF Top
<1> QED
  BY <1>3, <1>6, <1>7, <1>8 DEF Items

-----------------------------------------------------------------------------
(* How a step of a restore keeps it                                        *)

LEMMA WhileRunning ==
    ASSUME Inv, RInv, Running
    PROVE  /\ IsMapping(mem) /\ IsAMap(mem) /\ FaithfulIn(mem, live, Written)
           /\ LiveOK /\ dir \subseteq Nodes /\ Written \subseteq dir /\ manifest /\ disk # Torn
           /\ cuts \in Nat /\ at \in Nat
<1>1. IsMapping(mem) /\ mem # NoMap
  BY Types DEF Inv, FunctionsOK, PlaceTypes
<1>2. IsAMap(mem)
  BY <1>1, MapIsNoMark DEF IsAMap
<1>3. cuts \in Nat
  BY Types, Bounds DEF Inv, ToolTypes
<1>4. at \in Nat
  BY WalkFacts DEF Inv, WalkInv
<1>5. dir \subseteq Nodes /\ Written \subseteq dir
  BY Types DEF Inv, DumpTypes, Written
<1>6. manifest
  BY DEF RInv, DumpDone
<1>7. LiveOK /\ disk # Torn
  BY DEF Inv, FunctionsOK, MapInv
<1> QED
  BY <1>1, <1>2, <1>3, <1>4, <1>5, <1>6, <1>7 DEF RInv, Faithful

(* It goes on. *)
LEMMA GoesOn ==
    ASSUME Inv, Inv', RInv, Running, Running', UNCHANGED <<dumping, target, outcome, verified, cuts>>,
           disk' \in {disk, mem}, Extends(mem, mem'), Grows(live, live'),
           FaithfulIn(mem', live', Written), Numbered', Placed', Asked', SlotsFilled',
           ImagesMapped', NoSurplusImage',
           \A y \in dir : at <= Position[y] /\ Position[y] < at' => PastIn(mem', live', cuts, y)
    PROVE  RInv'
<1>1. /\ dir' = dir /\ Written' = Written
      /\ manifest' = manifest /\ cuts' = cuts /\ verified' = verified
      /\ ~Dumping' /\ pc' # "idle"
  BY DEF dumping, Written, Running, Dumping
<1>2. /\ IsMapping(mem) /\ IsAMap(mem) /\ FaithfulIn(mem, live, Written) /\ manifest
      /\ dir \subseteq Nodes /\ cuts \in Nat /\ at \in Nat
  BY WhileRunning
<1>3. DumpDone'
  BY <1>1, <1>2 DEF RInv, DumpDone
<1>4. Faithful'
  <2>1. CASE disk' = mem
    BY <1>1, <1>2, <2>1, FaithfulGrows DEF Faithful
  <2>2. ASSUME disk' = disk, IsAMap(disk)
        PROVE  FaithfulIn(disk', live', Written')
    <3>1. IsMapping(disk) /\ FaithfulIn(disk, live, Written)
      BY <2>2 DEF RInv, Faithful, Inv, FunctionsOK, IsAMap
    <3> QED
      BY <1>1, <2>2, <3>1, FaithfulGrows
  <2> QED
    BY <1>1, <2>1, <2>2 DEF Faithful
<1>5. Behind'
  <2>1. ASSUME NEW y \in dir, Position[y] < at'
        PROVE  PastIn(mem', live', cuts, y)
    <3>1. CASE Position[y] < at
      <4>1. PastIn(mem, live, cuts, y)
        BY <3>1 DEF RInv, Behind
      <4> QED
        BY <4>1, PastGrows
    <3>2. CASE at <= Position[y]
      BY <2>1, <3>2
    <3>3. Position[y] \in Nat
      BY <1>2, WalkFacts
    <3> QED
      BY <1>2, <3>1, <3>2, <3>3
  <2> QED
    BY <1>1, <2>1 DEF Behind
<1>6. Compared'
  BY <1>1 DEF RInv, Compared
<1> QED
  BY <1>3, <1>4, <1>5, <1>6 DEF RInv

(* It is cut, and may have had an answer coming. *)
LEMMA CutLeaves ==
    ASSUME Inv, RInv, Running, IsCut, disk' \in {disk, mem, Torn}, Grows(live, live'),
           Numbered', Placed',
           \A c \in DOMAIN live' : Kind[c.of] = "slot" => live'[c].bytes \in {"none", "dumped"}
    PROVE  RInv'
<1>1. /\ dir' = dir /\ Written' = Written
      /\ manifest' = manifest /\ cuts' = cuts + 1 /\ verified' = verified
      /\ pc' = "idle" /\ ~Dumping' /\ ~Running' /\ outcome' = "error" /\ mem' = NoMap
  BY DEF IsCut, Ended, dumping, Written, Running, Dumping
<1>2. /\ IsMapping(mem) /\ IsAMap(mem) /\ FaithfulIn(mem, live, Written) /\ manifest /\ cuts \in Nat
  BY WhileRunning
<1>3. DumpDone'
  BY <1>1, <1>2 DEF RInv, DumpDone
<1>4. Faithful'
  <2>1. CASE disk' = mem
    BY <1>1, <1>2, <2>1, FaithfulGrows DEF Faithful, IsAMap
  <2>2. ASSUME disk' = disk, IsAMap(disk)
        PROVE  FaithfulIn(disk', live', Written')
    <3>1. IsMapping(disk) /\ FaithfulIn(disk, live, Written)
      BY <2>2 DEF RInv, Faithful, Inv, FunctionsOK, IsAMap
    <3> QED
      BY <1>1, <2>2, <3>1, FaithfulGrows
  <2> QED
    BY <1>1, <2>1, <2>2 DEF Faithful, IsAMap
<1>5. cuts' > 0 /\ cuts' # 0
  BY <1>1, <1>2
<1>6. SlotsFilled' /\ ImagesMapped' /\ NoSurplusImage'
  BY <1>5 DEF SlotsFilled, ImagesMapped, NoSurplusImage
<1>7. Asked' /\ Behind' /\ Compared'
  BY <1>1 DEF Asked, Behind, Compared
<1> QED
  BY <1>3, <1>4, <1>6, <1>7 DEF RInv

LEMMA SameLive ==
    ASSUME UNCHANGED live
    PROVE  Grows(live, live') /\ (Numbered => Numbered') /\ (Placed => Placed')
BY DEF Grows, Numbered, Placed

(* It fails, where the next run will too. *)
LEMMA FailsLeaves ==
    ASSUME Inv, RInv, pc = "next", Fails, at \in DOMAIN Walk,
           cuts = 0 => Node \in Items \/ Kind[Node] = "avatar"
    PROVE  RInv'
<1>1. /\ dir' = dir /\ Written' = Written
      /\ manifest' = manifest /\ cuts' = cuts /\ verified' = verified
      /\ pc' = "idle" /\ ~Dumping' /\ ~Running' /\ outcome' = "error" /\ mem' = NoMap
      /\ live' = live /\ disk' = disk
  BY DEF Fails, Ended, dumping, Written, Running, Dumping
<1>2. Running
  BY DEF Running
<1>3. /\ IsMapping(mem) /\ IsAMap(mem) /\ FaithfulIn(mem, live, Written) /\ manifest
      /\ dir \subseteq Nodes
  BY <1>2, WhileRunning
<1>4. DumpDone' /\ Faithful'
  BY <1>1, <1>3 DEF RInv, DumpDone, Faithful, IsAMap
<1>5. Asked' /\ Behind' /\ Compared' /\ Numbered' /\ Placed'
  BY <1>1, SameLive DEF RInv, Asked, Behind, Compared
<1>6. SlotsFilled'
  BY <1>1 DEF RInv, SlotsFilled
<1>7. cuts = 0 /\ IsAMap(disk) => \A y \in ImagesOf(disk) : y \in DOMAIN disk
  BY <1>3, NoneOpen DEF RInv, ImagesMapped, ImagesOf
<1>8. ImagesMapped'
  BY <1>1, <1>7 DEF ImagesMapped, ImagesOf
<1>9. NoSurplusImage'
  <2> SUFFICES ASSUME cuts = 0, NEW c \in DOMAIN live, Kind[c.of] = "image"
               PROVE  IsAMap(disk) /\ Maps(disk, c)
    BY <1>1 DEF NoSurplusImage
  <2>1. Maps(mem, c)
    BY <1>2 DEF RInv, NoSurplusImage
  <2>2. c.of \in dir /\ c.of \in Nodes
    BY <1>3, <2>1 DEF FaithfulIn, Maps, Written
  <2>3. Parent[c.of] \in DOMAIN mem /\ Kind[Parent[c.of]] \in Created
    BY <1>3, <2>1, <2>2, ImageFacts DEF FaithfulIn, Maps, Created
  <2>4. disk # NoMap /\ disk # Torn /\ Parent[c.of] \in DOMAIN disk
    BY <1>2, <2>3 DEF Inv, MapInv
  <2>5. c.of \in DOMAIN disk
    BY <1>7, <2>2, <2>4 DEF IsAMap, ImagesOf
  <2>6. disk[c.of] = mem[c.of]
    BY <1>2, <2>4, <2>5 DEF Inv, MapInv
  <2> QED
    BY <2>1, <2>4, <2>5, <2>6 DEF IsAMap, Maps
<1> QED
  BY <1>4, <1>5, <1>6, <1>8, <1>9 DEF RInv

LEMMA RestoredLeaves == ASSUME Inv, RInv, restored PROVE RInv'
<1>1. /\ dir' = dir /\ Written' = Written
      /\ manifest' = manifest /\ cuts' = cuts /\ verified' = verified
      /\ pc = "next" /\ at = Len(Walk) + 1
      /\ pc' = "idle" /\ ~Dumping' /\ ~Running' /\ outcome' = "ok" /\ mem' = NoMap
      /\ live' = live /\ disk' = mem
  BY DEF restored, dumping, Written, Running, Dumping
<1>2. Running
  BY <1>1 DEF Running
<1>3. /\ IsMapping(mem) /\ IsAMap(mem) /\ FaithfulIn(mem, live, Written) /\ manifest
      /\ dir \subseteq Nodes
  BY <1>2, WhileRunning
<1>4. DumpDone' /\ Faithful'
  BY <1>1, <1>3 DEF RInv, DumpDone, Faithful, IsAMap
<1>5. Asked' /\ Compared' /\ Numbered' /\ Placed'
  BY <1>1, <1>2, SameLive DEF RInv, Asked, Compared
<1>6. SlotsFilled'
  BY <1>1 DEF RInv, SlotsFilled
<1>7. \A y \in dir : Position[y] < at /\ ~(at <= Position[y])
  BY <1>1, <1>3, WalkFacts
<1>8. Behind'
  BY <1>1, <1>2, <1>3, <1>7 DEF RInv, Behind
<1>9. ImagesMapped' /\ NoSurplusImage'
  <2>1. cuts = 0 => \A y \in ImagesOf(mem) : y \in DOMAIN mem
    BY <1>2, <1>7 DEF RInv, ImagesMapped, ImagesOf
  <2>2. ImagesMapped'
    BY <1>1, <2>1 DEF ImagesMapped, ImagesOf
  <2>3. NoSurplusImage'
    BY <1>1, <1>2, <1>3 DEF RInv, NoSurplusImage
  <2> QED
    BY <2>2, <2>3
<1> QED
  BY <1>4, <1>5, <1>6, <1>8, <1>9 DEF RInv

LEMMA StartLeaves == ASSUME Inv, RInv, RestoreRun PROVE RInv'
<1>1. /\ dir' = dir /\ Written' = Written
      /\ manifest' = manifest /\ manifest /\ cuts' = cuts /\ live' = live /\ disk' = disk
      /\ disk # Torn /\ pc = "idle" /\ ~Running /\ pc' = "next" /\ at' = 1
      /\ ~Dumping' /\ Running' /\ mem' = Load /\ ~verified'
  BY DEF RestoreRun, dumping, Written, Running, Dumping
<1>2. (disk = NoMap => mem' = [x \in {} |-> NoMap]) /\ (IsAMap(disk) => mem' = disk)
  BY <1>1 DEF Load, IsAMap
<1>3. disk = NoMap \/ IsAMap(disk)
  BY <1>1 DEF IsAMap
<1>4. dir \subseteq Nodes
  BY Types DEF Inv, DumpTypes
<1>5. DumpDone'
  BY <1>1 DEF RInv, DumpDone
<1>6. Faithful'
  <2>1. disk = NoMap => FaithfulIn(mem', live', Written')
    BY <1>2 DEF FaithfulIn
  <2>2. IsAMap(disk) => FaithfulIn(mem', live', Written')
    BY <1>1, <1>2 DEF RInv, Faithful
  <2> QED
    BY <1>1, <1>3, <2>1, <2>2 DEF RInv, Faithful, IsAMap
<1>7. Asked' /\ Compared' /\ Numbered' /\ Placed'
  BY <1>1, SameLive DEF RInv, Asked, Compared
<1>8. SlotsFilled'
  BY <1>1 DEF RInv, SlotsFilled
<1>9. Behind'
  <2>1. \A y \in dir : ~(Position[y] < 1)
    BY <1>4, WalkFacts
  <2> QED
    BY <1>1, <2>1 DEF Behind
<1>10. ImagesMapped'
  <2>1. cuts = 0 /\ IsAMap(disk) => \A y \in ImagesOf(disk) : y \in DOMAIN disk
    BY <1>1 DEF RInv, ImagesMapped, Open
  <2>3. cuts = 0 => \A y \in ImagesOf(mem') : y \in DOMAIN mem'
    BY <1>2, <1>3, <2>1 DEF ImagesOf
  <2> QED
    BY <1>1, <2>1, <2>3 DEF ImagesMapped, ImagesOf
<1>11. NoSurplusImage'
  BY <1>1, <1>2 DEF RInv, NoSurplusImage
<1> QED
  BY <1>5, <1>6, <1>7, <1>8, <1>9, <1>10, <1>11 DEF RInv

(* It goes past a node, whose image may have come into the map. *)
LEMMA Passes ==
    ASSUME Inv, Inv', RInv, Running, pc # "save", at \in DOMAIN Walk, Go("next", at + 1),
           UNCHANGED disk, Grows(live, live'), Numbered', Placed', FaithfulIn(mem', live', Written),
           SlotsFilled', NoSurplusImage',
           \/ mem' = mem
           \/ Kind[Node] = "image" /\ Node \notin DOMAIN mem /\ \E c : mem' = With(mem, Node, c),
           Node \in dir => Kind[Node] # "end" /\ PastIn(mem', live', cuts, Node)
    PROVE  RInv'
<1>1. /\ dir' = dir /\ Written' = Written
      /\ manifest' = manifest /\ cuts' = cuts /\ pc' = "next" /\ at' = at + 1
      /\ UNCHANGED <<dumping, target, outcome, verified, cuts>> /\ Running'
  BY DEF Go, Restoring, dumping, Written, Running
<1>2. /\ IsMapping(mem) /\ IsAMap(mem) /\ dir \subseteq Nodes /\ at \in Nat
  BY WhileRunning
<1>3. Extends(mem, mem') /\ \A y \in DOMAIN mem' : y \in DOMAIN mem \/ Kind[y] = "image"
  <2>1. CASE mem' = mem
    BY <2>1 DEF Extends
  <2>2. ASSUME Kind[Node] = "image", Node \notin DOMAIN mem, NEW c, mem' = With(mem, Node, c)
        PROVE  <1>3
    <3>1. DOMAIN mem' = DOMAIN mem \cup {Node} /\ \A y \in DOMAIN mem : y # Node => mem'[y] = mem[y]
      BY <2>2 DEF With
    <3> QED
      BY <2>2, <3>1 DEF Extends
  <2> QED
    BY <2>1, <2>2
<1>4. \A y \in dir : y \in Nodes /\ Position[y] \in Nat /\ (Position[y] = at => y = Node)
  BY <1>2, WalkFacts DEF Node
<1>5. \A y \in dir : at <= Position[y] /\ Position[y] < at' => PastIn(mem', live', cuts, y)
  <2> SUFFICES ASSUME NEW y \in dir, at <= Position[y], Position[y] < at'
               PROVE  PastIn(mem', live', cuts, y)
    OBVIOUS
  <2>1. Position[y] = at
    BY <1>1, <1>2, <1>4
  <2> QED
    BY <1>4, <2>1
<1>6. ImagesMapped'
  <2> SUFFICES ASSUME cuts = 0
               PROVE  /\ \A y \in ImagesOf(mem)' : y \in DOMAIN mem' \/ (Begun(y)' /\ at' <= Position[y])
                      /\ IsAMap(disk) => \A y \in ImagesOf(disk) : y \in DOMAIN disk \/ Open(y)'
    BY <1>1 DEF ImagesMapped, ImagesOf
  <2>1. ASSUME NEW y \in Nodes, Begun(y)
        PROVE  Begun(y)'
    <3>1. Position[Parent[y]] \in Nat
      BY WalkFacts, KindFacts
    <3> QED
      BY <1>1, <1>2, <2>1, <3>1 DEF Begun
  <2>2. ASSUME NEW y \in ImagesOf(mem)', y \notin DOMAIN mem'
        PROVE  Begun(y)' /\ at' <= Position[y]
    <3>1. y \in dir /\ y \in Nodes /\ Kind[y] = "image" /\ Parent[y] \in DOMAIN mem' /\ y \notin DOMAIN mem
      BY <1>1, <1>3, <1>4, <2>2 DEF ImagesOf, Extends
    <3>2. Parent[y] \in DOMAIN mem
      BY <1>3, <3>1, ImageFacts
    <3>3. Begun(y) /\ at <= Position[y]
      BY <3>1, <3>2 DEF RInv, ImagesMapped, ImagesOf
    <3>4. Position[y] # at
      BY <1>4, <2>2, <3>1 DEF PastIn
    <3> QED
      BY <1>1, <1>2, <1>4, <2>1, <3>1, <3>3, <3>4
  <2>3. ASSUME IsAMap(disk), NEW y \in ImagesOf(disk), y \notin DOMAIN disk
        PROVE  Open(y)'
    <3>1. y \in dir /\ y \in Nodes /\ Kind[y] = "image" /\ Open(y)
      BY <1>2, <2>3 DEF RInv, ImagesMapped, ImagesOf
    <3>2. PICK e \in Nodes : Closes(e, y) /\ at <= Position[e]
      BY <3>1 DEF Open
    <3>3. e \in dir
      <4>1. Top(e) = Top(y) /\ Kind[e] = "end"
        BY <3>2 DEF Closes, Top
      <4>2. Top(y) \in Items /\ e \in Tree[Top(y)]
        BY <3>1, <3>2, <4>1, ImageFacts, TreeIs
      <4>3. e \notin Images
        BY <4>1 DEF Images, Slots
      <4>4. Top(y) \in Written
        BY <2>3, <3>1, ImageFacts DEF ImagesOf, RInv, Faithful, FaithfulIn
      <4> QED
        BY <3>1, <4>2, <4>3, <4>4 DEF RInv, DumpDone
    <3>4. Position[e] # at
      BY <1>4, <3>2, <3>3 DEF Closes
    <3>5. at' <= Position[e]
      BY <1>1, <1>2, <1>4, <3>2, <3>3, <3>4
    <3>6. Begun(y)'
      BY <2>1, <3>1 DEF Open
    <3> QED
      BY <1>1, <3>2, <3>5, <3>6 DEF Open, Closes
  <2> QED
    BY <2>2, <2>3
<1>7. Asked'
  BY <1>1 DEF Asked
<1> QED
  BY <1>1, <1>3, <1>5, <1>6, <1>7, GoesOn

(* The steps that only go past a node. *)
LEMMA SkipsPass ==
    ASSUME Inv, Inv', RInv, pc = "next", at \in DOMAIN Walk, Skip(1),
           Node \in dir => Kind[Node] # "end" /\ PastIn(mem, live, cuts, Node)
    PROVE  RInv'
<1>1. /\ Go("next", at + 1) /\ UNCHANGED <<live, disk, mem>> /\ pc' = "next" /\ cuts' = cuts
      /\ Running /\ Running'
  BY DEF Skip, Go, Restoring, Running
<1>2. Grows(live, live') /\ Numbered' /\ Placed'
  BY <1>1, SameLive DEF RInv
<1>3. FaithfulIn(mem', live', Written)
  BY <1>1, WhileRunning
<1>4. SlotsFilled'
  BY <1>1 DEF RInv, SlotsFilled
<1>5. NoSurplusImage'
  BY <1>1 DEF RInv, NoSurplusImage
<1> QED
  BY <1>1, <1>2, <1>3, <1>4, <1>5, Passes

-----------------------------------------------------------------------------
(* The steps of a restore                                                  *)

(* What holds a node is restored when the node's turn comes. *)
LEMMA HomeMapped ==
    ASSUME Inv, Running, at \in DOMAIN Walk, Node \in dir, Node \notin Items,
           Kind[Parent[Node]] # "profile"
    PROVE  Parent[Node] \in DOMAIN mem /\ Home(Node) = mem[Parent[Node]]
<1>1. Node \in Nodes /\ Position[Node] = at /\ Parent[Node] \in dir
  BY WalkFacts DEF Node, Inv, WalkInv
<1>2. Position[Parent[Node]] < at
  BY <1>1, ParentFirst
<1>3. Kind[Parent[Node]] \in Created
  BY <1>1, KindFacts DEF Created
<1> QED
  BY <1>1, <1>2, <1>3 DEF Home, Inv, WalkInv

LEMMA SkipsLeave ==
    ASSUME Inv, Inv', RInv, NotDumped \/ updateProfile \/ slotFilled \/ avatarMatches
    PROVE  RInv'
<1>1. CASE NotDumped
  BY <1>1, SkipsPass DEF NotDumped
<1>2. CASE updateProfile
  <2>1. pc = "next" /\ at \in DOMAIN Walk /\ Kind[Node] = "profile" /\ Copies(Node) # {} /\ Skip(1)
    BY <1>2 DEF updateProfile, Takes
  <2>2. PastIn(mem, live, cuts, Node)
    BY <2>1 DEF PastIn, Copies, Created
  <2> QED
    BY <2>1, <2>2, SkipsPass
<1>3. CASE slotFilled
  <2>1. /\ pc = "next" /\ Running /\ at \in DOMAIN Walk /\ Node \in dir /\ Node \in Nodes
        /\ Kind[Node] = "slot" /\ SlotOf(Node) \in DOMAIN live /\ Skip(1)
    BY <1>3, AtNode DEF slotFilled, Takes
  <2>2. Parent[Node] \in DOMAIN mem /\ Home(Node) = mem[Parent[Node]]
    BY <2>1, KindFacts, HomeMapped
  <2>3. PastIn(mem, live, cuts, Node)
    BY <2>1, <2>2 DEF PastIn, SlotOf, Created
  <2> QED
    BY <2>1, <2>3, SkipsPass
<1>4. CASE avatarMatches
  <2>1. /\ pc = "next" /\ at \in DOMAIN Walk /\ Node \in Nodes
        /\ Kind[Node] = "avatar" /\ SlotOf(Node) \in DOMAIN live
        /\ live[SlotOf(Node)].bytes = "dumped" /\ Skip(1)
    BY <1>4, AtNode DEF avatarMatches, Takes
  <2>2. SlotOf(Node) = [of |-> Node, nth |-> 1]
    BY <2>1, KindFacts DEF SlotOf, Home
  <2>3. PastIn(mem, live, cuts, Node)
    BY <2>1, <2>2 DEF PastIn, Created
  <2> QED
    BY <2>1, <2>3, SkipsPass
<1> QED
  BY <1>1, <1>2, <1>3, <1>4

(* A build is left out with its images: when no run was cut, they are all  *)
(* in the map.                                                             *)
LEMMA ResumeLeaves == ASSUME Inv, Inv', RInv, resume PROVE RInv'
<1>1. /\ pc = "next" /\ Running /\ at \in 1..Len(Walk) /\ at \in DOMAIN Walk
      /\ Node \in Nodes /\ Node \in dir /\ Kind[Node] \in Created \cup {"image"} /\ Position[Node] = at
      /\ Node \in DOMAIN mem /\ Skip(IF Kind[Node] = "build" THEN Cardinality(Tree[Node]) ELSE 1)
  BY AtNode DEF resume, Takes
<1>2. CASE Kind[Node] # "build"
  <2>1. PastIn(mem, live, cuts, Node) /\ Kind[Node] # "end"
    BY <1>1 DEF PastIn, Created
  <2> QED
    BY <1>1, <1>2, <2>1, SkipsPass
<1>3. CASE Kind[Node] = "build"
  <2> DEFINE n == Cardinality(Tree[Node])
  <2>1. Node \in Items
    BY <1>1, <1>3, KindFacts
  <2>2. n \in Nat \ {0} /\ \A i \in at..(at + n - 1) : i \in DOMAIN Walk /\ Walk[i] \in Tree[Node]
    BY <1>1, <2>1, TreeIsInterval
  <2>3. Skip(n)
    BY <1>1, <1>3
  <2> HIDE DEF n
  <2>4. /\ UNCHANGED <<dumping, target, outcome, verified, cuts, live, mem, disk>>
        /\ dir' = dir /\ Written' = Written
        /\ pc' = "next" /\ at' = at + n /\ Running'
    BY <2>3 DEF Skip, Go, Restoring, Running, dumping, Written
  <2>5. /\ IsMapping(mem) /\ IsAMap(mem) /\ FaithfulIn(mem, live, Written) /\ dir \subseteq Nodes
        /\ cuts \in Nat
    BY <1>1, WhileRunning
  <2>6. Extends(mem, mem') /\ Grows(live, live') /\ Numbered' /\ Placed' /\ FaithfulIn(mem', live', Written)
    BY <2>4, <2>5, SameLive DEF Extends, RInv
  <2>7. Asked' /\ SlotsFilled' /\ NoSurplusImage'
    <3>1. Asked'
      BY <2>4 DEF Asked
    <3>2. SlotsFilled'
      BY <1>1, <2>4 DEF RInv, SlotsFilled
    <3>3. NoSurplusImage'
      BY <1>1, <2>4 DEF RInv, NoSurplusImage
    <3> QED
      BY <3>1, <3>2, <3>3
  <2>8. ASSUME NEW y \in dir, at <= Position[y], Position[y] < at'
        PROVE  y \in Tree[Node]
    <3>1. Position[y] \in Nat /\ Walk[Position[y]] = y
      BY <2>5, WalkFacts
    <3>2. Position[y] \in at..(at + n - 1)
      BY <1>1, <2>2, <2>4, <2>8, <3>1
    <3> QED
      BY <2>2, <3>1, <3>2
  <2>9. ASSUME NEW y \in dir, y \in Tree[Node], Kind[y] = "image"
        PROVE  y \in DOMAIN mem \/ cuts > 0
    <3>1. y \in Nodes /\ Parent[y] = Node
      BY <2>1, <2>5, <2>9, ImageFacts, TreeIs
    <3>2. ~Begun(y)
      BY <1>1, <3>1 DEF Begun
    <3> QED
      BY <1>1, <2>5, <2>9, <3>1, <3>2 DEF RInv, ImagesMapped, ImagesOf
  <2>10. \A y \in dir : at <= Position[y] /\ Position[y] < at' => PastIn(mem', live', cuts, y)
    <3> SUFFICES ASSUME NEW y \in dir, at <= Position[y], Position[y] < at'
                 PROVE  PastIn(mem, live, cuts, y)
      BY <2>4
    <3>1. y \in Tree[Node]
      BY <2>8
    <3>2. CASE y = Node
      BY <1>1, <1>3, <3>2 DEF PastIn, Created
    <3>3. CASE y # Node
      <4>1. Kind[y] \in {"image", "end"}
        BY <1>3, <2>1, <3>1, <3>3, BuildTree
      <4>2. Kind[y] = "image" => Parent[y] = Node
        BY <2>1, <2>5, <3>1, <4>1, ImageFacts, TreeIs
      <4> QED
        BY <1>3, <2>9, <3>1, <4>1, <4>2 DEF PastIn, Created
    <3> QED
      BY <3>2, <3>3
  <2>11. ImagesMapped'
    <3> SUFFICES ASSUME cuts = 0
                 PROVE  /\ \A y \in ImagesOf(mem) : y \in DOMAIN mem \/ (Begun(y)' /\ at' <= Position[y])
                        /\ IsAMap(disk) => \A y \in ImagesOf(disk) : y \in DOMAIN disk
      BY <2>4 DEF ImagesMapped, ImagesOf
    <3>1. IsAMap(disk) => \A y \in ImagesOf(disk) : y \in DOMAIN disk
      BY <1>1, <2>1, <2>5, NoneOpen DEF RInv, ImagesMapped, ImagesOf
    <3>2. ASSUME NEW y \in ImagesOf(mem), y \notin DOMAIN mem
          PROVE  Begun(y)' /\ at' <= Position[y]
      <4>1. y \in dir /\ y \in Nodes /\ Kind[y] = "image"
        BY <2>5 DEF ImagesOf
      <4>2. Begun(y) /\ at <= Position[y]
        BY <1>1, <3>2 DEF RInv, ImagesMapped
      <4>3. ~(Position[y] < at')
        BY <2>8, <2>9, <3>2, <4>1, <4>2
      <4>4. Position[y] \in Nat /\ Position[Parent[y]] \in Nat
        BY <4>1, WalkFacts, KindFacts
      <4> QED
        BY <1>1, <2>2, <2>4, <4>2, <4>3, <4>4 DEF Begun
    <3> QED
      BY <3>1, <3>2
  <2> QED
    BY <1>1, <2>4, <2>6, <2>7, <2>10, <2>11, GoesOn
<1> QED
  BY <1>2, <1>3

(* The API makes a new copy. *)
LEMMA NewLive ==
    ASSUME RInv, NEW c, NEW t, live' = With(live, c, t), c \notin DOMAIN live,
           c.of \notin Items => t.under \in Ids /\ t.under.of = Parent[c.of],
           Kind[c.of] = "slot" => t.bytes = "none"
    PROVE  /\ Grows(live, live') /\ Placed'
           /\ \A d \in DOMAIN live' : Kind[d.of] = "slot" => live'[d].bytes \in {"none", "dumped"}
<1>1. DOMAIN live' = DOMAIN live \cup {c} /\ live'[c] = t /\ \A d \in DOMAIN live : live'[d] = live[d]
  BY DEF With
<1>2. Grows(live, live')
  BY <1>1 DEF Grows
<1>3. Placed'
  BY <1>1 DEF RInv, Placed, PlacedIn
<1> QED
  BY <1>1, <1>2, <1>3 DEF RInv, SlotsFilled

LEMMA CreateProfileLeaves == ASSUME Inv, Inv', RInv, createProfile PROVE RInv'
<1> DEFINE new == NewCopy(Node)
           thing == Thing(NoMap, {}, "none")
<1>1. /\ pc = "next" /\ Running /\ at \in DOMAIN Walk /\ Node \in Nodes /\ Node \in dir
      /\ Kind[Node] = "profile" /\ Node \in Items /\ Copies(Node) = {}
      /\ live' = With(live, new, thing) /\ Answered(mem, "next", at + 1)
  BY AtNode, KindFacts DEF createProfile, Takes
<1>2. new.of = Node
  BY DEF NewCopy
<1>3. new \notin DOMAIN live
  BY <1>1, <1>2 DEF Copies
<1> HIDE DEF new, thing
<1>4. /\ Grows(live, live') /\ Placed'
      /\ \A d \in DOMAIN live' : Kind[d.of] = "slot" => live'[d].bytes \in {"none", "dumped"}
  BY <1>1, <1>2, <1>3, NewLive
<1>5. DOMAIN live' = DOMAIN live \cup {new} /\ \A d \in DOMAIN live : live'[d] = live[d]
  BY <1>1, <1>3 DEF With
<1>6. Numbered'
  BY <1>1, <1>2, <1>5, NumberedOld DEF RInv, HasId, Created
<1>7. UNCHANGED disk
  BY <1>1 DEF Answered
<1>8. CASE IsCut
  BY <1>1, <1>4, <1>6, <1>7, <1>8, CutLeaves
<1>9. CASE mem' = mem /\ Go("next", at + 1)
  <2>1. IsMapping(mem) /\ FaithfulIn(mem, live, Written) /\ cuts' = cuts /\ Running' /\ pc' = "next"
    BY <1>1, <1>9, WhileRunning DEF Go, Restoring, Running
  <2>2. FaithfulIn(mem', live', Written)
    BY <1>4, <1>9, <2>1, FaithfulGrows
  <2>3. SlotsFilled'
    BY <1>1, <1>2, <1>5, <2>1 DEF RInv, SlotsFilled
  <2>4. NoSurplusImage'
    BY <1>1, <1>2, <1>5, <1>9, <2>1 DEF RInv, NoSurplusImage
  <2>5. PastIn(mem', live', cuts, Node)
    BY <1>1, <1>2, <1>5 DEF PastIn, Created
  <2> QED
    BY <1>1, <1>4, <1>6, <1>7, <1>9, <2>2, <2>3, <2>4, <2>5, Passes
<1> QED
  BY <1>1, <1>8, <1>9 DEF Answered

LEMMA CreateLeaves ==
    ASSUME Inv, Inv', RInv, NEW kinds \in SUBSET Created, create(kinds)
    PROVE  RInv'
<1> DEFINE refs == {mem[r] : r \in Refs[Node]}
           new == NewCopy(Node)
           thing == Thing(Holder(Node), refs, "none")
<1>1. /\ pc = "next" /\ Running /\ at \in DOMAIN Walk /\ Node \in Nodes /\ Node \in Written
      /\ Kind[Node] \in Created /\ Position[Node] = at /\ Node \notin DOMAIN mem /\ Node \in dir
      /\ live' = With(live, new, thing) /\ Answered(With(mem, Node, new), "save", at)
      /\ Mapped(Node) /\ UNCHANGED disk
  BY AtNode DEF create, Takes, Answered
<1>2. /\ IsMapping(mem) /\ FaithfulIn(mem, live, Written) /\ LiveOK /\ dir \subseteq Nodes /\ at \in Nat
  BY <1>1, WhileRunning
<1>3. new.of = Node /\ new \notin DOMAIN live /\ Numbered'
  BY <1>1, <1>2, NumberedNew DEF NewCopy, RInv, HasId
<1>4. Refs[Node] \subseteq DOMAIN mem
  BY <1>1, KindFacts DEF Mapped
<1>5. Node \notin Items => Parent[Node] \in DOMAIN mem /\ Holder(Node) = mem[Parent[Node]]
  <2> SUFFICES ASSUME Node \notin Items
               PROVE  Parent[Node] \in DOMAIN mem /\ Holder(Node) = mem[Parent[Node]]
    OBVIOUS
  <2>1. Kind[Parent[Node]] # "profile"
    BY <1>1, KindFacts DEF Created
  <2> QED
    BY <1>1, <2>1, HomeMapped DEF Holder
<1>6. thing.under = Holder(Node) /\ thing.refs = refs /\ thing.bytes = "none"
  BY DEF Thing
<1> HIDE DEF new, thing
<1>7. new.of \notin Items => thing.under \in Ids /\ thing.under.of = Parent[new.of]
  BY <1>2, <1>3, <1>5, <1>6 DEF IsMapping
<1>8. /\ Grows(live, live') /\ Placed'
      /\ \A d \in DOMAIN live' : Kind[d.of] = "slot" => live'[d].bytes \in {"none", "dumped"}
  BY <1>1, <1>3, <1>6, <1>7, NewLive
<1>9. /\ DOMAIN live' = DOMAIN live \cup {new} /\ live'[new] = thing
      /\ \A d \in DOMAIN live : live'[d] = live[d]
  BY <1>1, <1>3 DEF With
<1>10. CASE IsCut
  BY <1>1, <1>3, <1>8, <1>10, CutLeaves
<1>11. CASE mem' = With(mem, Node, new) /\ Go("save", at)
  <2>1. /\ UNCHANGED <<dumping, target, outcome, verified, cuts>>
        /\ dir' = dir /\ Written' = Written /\ Node' = Node
        /\ pc' = "save" /\ at' = at /\ Running'
    BY <1>11 DEF Go, Restoring, Running, dumping, Written, Node
  <2>2. /\ DOMAIN mem' = DOMAIN mem \cup {Node} /\ mem'[Node] = new
        /\ \A y \in DOMAIN mem : mem'[y] = mem[y]
    BY <1>1, <1>11 DEF With
  <2>3. Extends(mem, mem')
    BY <2>2 DEF Extends
  <2>4. FaithfulIn(mem', live', Written)
    <3>1. FaithfulIn(mem, live', Written)
      BY <1>2, <1>8, FaithfulGrows
    <3>2. live'[new].under = Holder(Node) /\ live'[new].refs = refs /\ new \in DOMAIN live'
      BY <1>6, <1>9
    <3>3. Kind[Node] \in HasId /\ Kind[Node] # "image"
      BY <1>1 DEF HasId, Created
    <3> HIDE DEF refs
    <3>4. /\ Node \notin Items => Parent[Node] \in DOMAIN mem /\ live'[new].under = mem[Parent[Node]]
          /\ Refs[Node] \subseteq DOMAIN mem /\ live'[new].refs = {mem[r] : r \in Refs[Node]}
      BY <1>4, <1>5, <3>2 DEF refs
    <3> QED
      BY <1>1, <1>2, <1>11, <3>1, <3>2, <3>3, <3>4, FaithfulWith
  <2>5. Asked'
    BY <2>1 DEF Asked
  <2>6. SlotsFilled'
    BY <1>1, <1>3, <1>9, <2>1 DEF RInv, SlotsFilled, Created
  <2>7. NoSurplusImage'
    <3>1. cuts = 0 => \A c \in DOMAIN live : Kind[c.of] = "image" => Maps(mem, c)
      BY <1>1 DEF RInv, NoSurplusImage
    <3>2. Kind[new.of] # "image"
      BY <1>1, <1>3 DEF Created
    <3> QED
      BY <1>9, <2>1, <2>2, <3>1, <3>2 DEF NoSurplusImage, Maps
  <2>8. ImagesMapped'
    <3> SUFFICES ASSUME cuts = 0
                 PROVE  /\ \A y \in ImagesOf(mem)' : y \in DOMAIN mem' \/ (Begun(y)' /\ at <= Position[y])
                        /\ IsAMap(disk) => \A y \in ImagesOf(disk) : y \in DOMAIN disk \/ Open(y)'
      BY <1>1, <2>1 DEF ImagesMapped, ImagesOf
    <3>1. \A y : Begun(y) => Begun(y)'
      BY <1>1, <2>1 DEF Begun
    <3>2. \A y : Open(y) => Open(y)'
      BY <2>1, <3>1 DEF Open, Closes
    <3>3. ASSUME NEW y \in ImagesOf(mem)', y \notin DOMAIN mem'
          PROVE  Begun(y)' /\ at <= Position[y]
      <4>1. y \in dir /\ y \in Nodes /\ Kind[y] = "image" /\ Parent[y] \in DOMAIN mem' /\ y \notin DOMAIN mem
        BY <1>2, <2>1, <2>2, <3>3 DEF ImagesOf
      <4>2. CASE Parent[y] = Node
        BY <1>1, <2>1, <4>1, <4>2, ParentFirst DEF Begun
      <4>3. CASE Parent[y] \in DOMAIN mem
        BY <1>1, <3>1, <4>1, <4>3 DEF RInv, ImagesMapped, ImagesOf
      <4> QED
        BY <2>2, <4>1, <4>2, <4>3
    <3> QED
      BY <1>1, <3>2, <3>3 DEF RInv, ImagesMapped
  <2>9. \A y \in dir : ~(at <= Position[y] /\ Position[y] < at')
    BY <1>2, <2>1, WalkFacts
  <2> QED
    BY <1>1, <1>3, <1>8, <2>1, <2>3, <2>4, <2>5, <2>6, <2>7, <2>8, <2>9, GoesOn
<1> QED
  BY <1>1, <1>10, <1>11 DEF Answered

LEMMA SaveLeaves == ASSUME Inv, Inv', RInv, save PROVE RInv'
<1>1. /\ Running /\ at \in DOMAIN Walk /\ at \in 1..Len(Walk) /\ UNCHANGED live
      /\ pc \in {"save", "next"} /\ (pc = "next" => Kind[Node] = "end")
  BY WalkFacts DEF save, Takes, Running, Inv, WalkInv
<1>2. /\ IsMapping(mem) /\ FaithfulIn(mem, live, Written) /\ dir \subseteq Nodes /\ at \in Nat
      /\ IsAMap(mem)
  BY <1>1, WhileRunning
<1>3. Grows(live, live') /\ Numbered' /\ Placed'
  BY <1>1, SameLive DEF RInv
<1>4. CASE IsCut
  <2>1. disk' \in {disk, mem, Torn}
    BY <1>4, Types DEF save, Go, IsCut, Ended, Inv, ToolTypes, PlaceTypes
  <2>2. \A d \in DOMAIN live' : Kind[d.of] = "slot" => live'[d].bytes \in {"none", "dumped"}
    BY <1>1 DEF RInv, SlotsFilled
  <2> QED
    BY <1>1, <1>3, <1>4, <2>1, <2>2, CutLeaves
<1>5. CASE disk' = mem /\ UNCHANGED mem /\ Go("next", at + 1)
  <2>1. /\ UNCHANGED <<dumping, target, outcome, verified, cuts>> /\ dir' = dir /\ Written' = Written
        /\ pc' = "next" /\ at' = at + 1 /\ Running' /\ disk' = mem /\ mem' = mem
    BY <1>5 DEF Go, Restoring, Running, dumping, Written
  <2>2. Extends(mem, mem') /\ FaithfulIn(mem', live', Written)
    BY <1>1, <1>2, <2>1 DEF Extends
  <2>3. Asked'
    BY <2>1 DEF Asked
  <2>4. SlotsFilled'
    BY <1>1, <2>1 DEF RInv, SlotsFilled
  <2>5. NoSurplusImage'
    BY <1>1, <2>1 DEF RInv, NoSurplusImage
  <2>6. ASSUME NEW y \in dir, at <= Position[y], Position[y] < at'
        PROVE  PastIn(mem', live', cuts, y)
    <3>1. Position[y] \in Nat /\ Walk[Position[y]] = y
      BY <1>2, WalkFacts
    <3>2. y = Node
      BY <1>2, <2>1, <2>6, <3>1 DEF Node
    <3>3. CASE pc = "next"
      BY <1>1, <3>2, <3>3 DEF PastIn, Created
    <3>4. CASE pc = "save"
      <4>1. Kind[Node] \in Created /\ Node \in DOMAIN mem
        BY <3>4 DEF Inv, WalkInv
      <4> QED
        BY <2>1, <3>2, <4>1 DEF PastIn, Created
    <3> QED
      BY <1>1, <3>3, <3>4
  <2>7. ImagesMapped'
    <3>1. ASSUME cuts = 0, NEW y \in ImagesOf(mem), y \notin DOMAIN mem
          PROVE  Begun(y)' /\ at' <= Position[y] /\ Open(y)'
      <4>1. y \in dir /\ y \in Nodes /\ Kind[y] = "image"
        BY <1>2 DEF ImagesOf
      <4>2. Begun(y) /\ at <= Position[y]
        BY <1>1, <3>1 DEF RInv, ImagesMapped
      <4>3. Position[y] \in Nat /\ Position[Parent[y]] \in Nat /\ Walk[Position[y]] = y
        BY <4>1, WalkFacts, KindFacts
      <4>4. y # Node
        BY <1>1, <4>1 DEF Inv, WalkInv, Created
      <4>5. at' <= Position[y]
        BY <1>2, <2>1, <4>2, <4>3, <4>4 DEF Node
      <4>6. Begun(y)'
        BY <1>2, <2>1, <4>2, <4>3 DEF Begun
      <4>7. PICK e \in Nodes : Closes(e, y)
        BY <4>1, ItemImages DEF Closes
      <4>8. at' <= Position[e]
        BY <1>2, <2>1, <4>3, <4>5, <4>7, WalkFacts DEF Closes
      <4> QED
        BY <2>1, <4>5, <4>6, <4>7, <4>8 DEF Open, Closes
    <3> QED
      BY <2>1, <3>1 DEF ImagesMapped, ImagesOf
  <2> QED
    BY <1>1, <1>3, <2>1, <2>2, <2>3, <2>4, <2>5, <2>6, <2>7, GoesOn
<1> QED
  BY <1>4, <1>5 DEF save

(* The API is asked for a slot, or for the place of an image. *)
LEMMA Asks ==
    ASSUME Inv, Inv', RInv, pc = "next", at \in DOMAIN Walk, Answered(mem, "put", at),
           Grows(live, live'), Numbered', Placed',
           \A d \in DOMAIN live' : Kind[d.of] = "slot" => live'[d].bytes \in {"none", "dumped"},
           pc' = "put" /\ Node' = Node /\ mem' = mem /\ cuts' = cuts /\ dir' = dir /\ Written' = Written =>
             Asked' /\ SlotsFilled' /\ NoSurplusImage'
    PROVE  RInv'
<1>1. Running /\ UNCHANGED disk
  BY DEF Running, Answered
<1>2. CASE IsCut
  BY <1>1, <1>2, CutLeaves
<1>3. CASE mem' = mem /\ Go("put", at)
  <2>1. /\ UNCHANGED <<dumping, target, outcome, verified, cuts>>
        /\ dir' = dir /\ Written' = Written /\ Node' = Node
        /\ pc' = "put" /\ at' = at /\ Running'
    BY <1>3 DEF Go, Restoring, Running, dumping, Written, Node
  <2>2. IsMapping(mem) /\ FaithfulIn(mem, live, Written) /\ dir \subseteq Nodes /\ at \in Nat
    BY <1>1, WhileRunning
  <2>3. Extends(mem, mem') /\ FaithfulIn(mem', live', Written)
    BY <1>3, <2>2, FaithfulGrows DEF Extends
  <2>4. Asked' /\ SlotsFilled' /\ NoSurplusImage'
    BY <1>3, <2>1
  <2>5. ImagesMapped'
    <3>1. \A y : Begun(y) => Begun(y)'
      BY <2>1 DEF Begun
    <3>2. \A y : Open(y) => Open(y)'
      BY <2>1, <3>1 DEF Open, Closes
    <3>3. ImagesOf(mem)' = ImagesOf(mem) /\ ImagesOf(disk)' = ImagesOf(disk)
      BY <1>1, <1>3, <2>1 DEF ImagesOf
    <3> QED
      BY <1>1, <1>3, <2>1, <3>1, <3>2, <3>3 DEF RInv, ImagesMapped
  <2>6. \A y \in dir : ~(at <= Position[y] /\ Position[y] < at')
    BY <2>1, <2>2, WalkFacts
  <2> QED
    BY <1>1, <2>1, <2>3, <2>4, <2>5, <2>6, GoesOn
<1> QED
  BY <1>2, <1>3 DEF Answered

LEMMA HomeIsParent ==
    ASSUME Inv, Running, at \in DOMAIN Walk, Node \in dir, Node \notin Items
    PROVE  Home(Node) \in Ids /\ Home(Node).of = Parent[Node]
<1>1. IsMapping(mem)
  BY Types DEF Inv, FunctionsOK, PlaceTypes
<1>2. CASE Kind[Parent[Node]] = "profile"
  BY <1>2, HomeThere DEF Home
<1>3. CASE Kind[Parent[Node]] # "profile"
  BY <1>1, <1>3, HomeThere, HomeMapped DEF IsMapping
<1> QED
  BY <1>2, <1>3

LEMMA SlotLeaves ==
    ASSUME Inv, Inv', RInv, NEW holders, uploadSingleSlot(holders)
    PROVE  RInv'
<1> DEFINE slot == SlotOf(Node)
           thing == Thing(Home(Node), {}, "none")
<1>1. /\ pc = "next" /\ Running /\ at \in DOMAIN Walk /\ Node \in Nodes /\ Node \in dir
      /\ Kind[Node] \in Slots /\ live' = With(live, slot, thing) /\ Answered(mem, "put", at)
      /\ slot \in DOMAIN live => Kind[Node] = "avatar" /\ live[slot].bytes = "other"
  BY AtNode DEF uploadSingleSlot, WantsSlot, Takes
<1>2. Node \notin Items
  BY <1>1, KindFacts DEF Slots
<1>3. Home(Node) \in Ids /\ Home(Node).of = Parent[Node]
  BY <1>1, <1>2, HomeIsParent
<1>4. /\ slot.of = Node /\ thing.bytes = "none" /\ thing.under = Home(Node)
      /\ Kind[Node] \notin HasId /\ Kind[Node] # "image"
  BY <1>1 DEF SlotOf, Thing, Slots, HasId, Created
<1> HIDE DEF slot, thing
<1>5. /\ DOMAIN live' = DOMAIN live \cup {slot} /\ live'[slot] = thing
      /\ \A d \in DOMAIN live : d # slot => live'[d] = live[d]
  BY <1>1 DEF With
<1>6. Grows(live, live')
  <2> SUFFICES ASSUME NEW c \in DOMAIN live
               PROVE  /\ c \in DOMAIN live'
                      /\ live[c].bytes = "dumped" => live'[c].bytes = "dumped"
                      /\ Kind[c.of] \in HasId =>
                           live'[c].under = live[c].under /\ live'[c].refs = live[c].refs
    BY DEF Grows
  <2>1. CASE c = slot
    BY <1>1, <1>4, <1>5, <2>1
  <2>2. CASE c # slot
    BY <1>5, <2>2
  <2> QED
    BY <2>1, <2>2
<1>7. Placed'
  BY <1>3, <1>4, <1>5 DEF RInv, Placed, PlacedIn
<1>8. Numbered'
  BY <1>4, <1>5, NumberedOld DEF RInv
<1>9. \A d \in DOMAIN live' : Kind[d.of] = "slot" => live'[d].bytes \in {"none", "dumped"}
  BY <1>4, <1>5 DEF RInv, SlotsFilled
<1>10. ASSUME pc' = "put", Node' = Node, mem' = mem, cuts' = cuts, dir' = dir /\ Written' = Written
       PROVE  Asked' /\ SlotsFilled' /\ NoSurplusImage'
  <2>1. PutCopy' = slot
    BY <1>4, <1>10 DEF PutCopy, SlotOf, Home, slot
  <2>2. Asked'
    BY <1>1, <1>4, <1>5, <1>10, <2>1 DEF Asked
  <2>3. SlotsFilled'
    BY <1>1, <1>5, <1>9, <1>10, <2>1 DEF RInv, SlotsFilled
  <2>4. NoSurplusImage'
    BY <1>1, <1>4, <1>5, <1>10 DEF RInv, NoSurplusImage, Running
  <2> QED
    BY <2>2, <2>3, <2>4
<1> QED
  BY <1>1, <1>6, <1>7, <1>8, <1>9, <1>10, Asks

LEMMA ArrayLeaves == ASSUME Inv, Inv', RInv, restoreArrayImages PROVE RInv'
<1> DEFINE new == NewCopy(Node)
           thing == Thing(Home(Node), {}, "none")
<1>1. /\ pc = "next" /\ Running /\ at \in DOMAIN Walk /\ Node \in Nodes /\ Node \in dir
      /\ Kind[Node] = "image" /\ Node \notin Items
      /\ live' = With(live, new, thing) /\ Answered(mem, "put", at)
  BY AtNode, KindFacts DEF restoreArrayImages, Takes
<1>2. Home(Node) \in Ids /\ Home(Node).of = Parent[Node]
  BY <1>1, HomeIsParent
<1>3. LiveOK
  BY DEF Inv, FunctionsOK
<1>4. /\ new.of = Node /\ new \notin DOMAIN live /\ Numbered'
      /\ Cardinality({d \in DOMAIN live' : d.of = Node}) = Cardinality(Copies(Node)) + 1
  <2>1. Kind[Node] \in HasId /\ Numbered
    BY <1>1 DEF HasId, RInv
  <2> QED
    BY <1>1, <1>3, <2>1, NumberedNew DEF NewCopy
<1>5. thing.under = Home(Node) /\ thing.bytes = "none"
  BY DEF Thing
<1>6. new = [of |-> Node, nth |-> Cardinality(Copies(Node)) + 1]
  BY DEF NewCopy
<1> HIDE DEF new, thing
<1>7. /\ Grows(live, live') /\ Placed'
      /\ \A d \in DOMAIN live' : Kind[d.of] = "slot" => live'[d].bytes \in {"none", "dumped"}
  BY <1>1, <1>2, <1>4, <1>5, NewLive
<1>8. /\ DOMAIN live' = DOMAIN live \cup {new} /\ live'[new] = thing
      /\ \A d \in DOMAIN live : live'[d] = live[d]
  BY <1>1, <1>4 DEF With
<1>9. ASSUME pc' = "put", Node' = Node, mem' = mem, cuts' = cuts, dir' = dir /\ Written' = Written
      PROVE  Asked' /\ SlotsFilled' /\ NoSurplusImage'
  <2>2. PutCopy' = new
    <3>1. PutCopy' = [of |-> Node', nth |-> Cardinality({d \in DOMAIN live' : d.of = Node'})]
      BY <1>1, <1>9 DEF PutCopy, Copies
    <3> QED
      BY <1>4, <1>6, <1>9, <3>1
  <2>3. Home(Node)' = Home(Node)
    BY <1>9 DEF Home
  <2>4. Asked'
    BY <1>1, <1>5, <1>8, <1>9, <2>2, <2>3 DEF Asked
  <2>5. SlotsFilled'
    BY <1>1, <1>4, <1>8, <1>9 DEF RInv, SlotsFilled
  <2>6. NoSurplusImage'
    BY <1>1, <1>8, <1>9, <2>2 DEF RInv, NoSurplusImage, Running
  <2> QED
    BY <2>4, <2>5, <2>6
<1> QED
  BY <1>1, <1>4, <1>7, <1>9, Asks

LEMMA UploadLeaves == ASSUME Inv, Inv', RInv, uploadImage PROVE RInv'
<1>1. /\ pc = "put" /\ live' = [live EXCEPT ![PutCopy].bytes = "dumped"]
      /\ Answered(IF Kind[Node] = "image" THEN With(mem, Node, PutCopy) ELSE mem, "next", at + 1)
      /\ UNCHANGED disk
  BY DEF uploadImage, PutCopy, Answered
<1>2. /\ Running /\ pc # "save" /\ at \in DOMAIN Walk /\ Node \in Nodes /\ Node \in dir
      /\ Kind[Node] \in Slots \cup {"image"} /\ Node \notin Items
      /\ PutCopy \in DOMAIN live /\ PutCopy.of = Node
      /\ Kind[Node] = "image" => Node \notin DOMAIN mem /\ live[PutCopy].under = Home(Node)
  <2>1. /\ Running /\ pc # "save" /\ at \in DOMAIN Walk /\ Node \in dir
        /\ Kind[Node] \in Slots \cup {"image"} /\ PutCopy \in DOMAIN live
        /\ Kind[Node] = "image" => Node \notin DOMAIN mem /\ live[PutCopy].under = Home(Node)
    BY <1>1 DEF Inv, WalkInv, Running, RInv, Asked
  <2>2. Node \in Nodes
    BY <2>1, WalkFacts DEF Node
  <2>3. PutCopy.of = Node
    BY DEF PutCopy, SlotOf
  <2> QED
    BY <2>1, <2>2, <2>3, KindFacts DEF Slots
<1> DEFINE copy == PutCopy
<1> HIDE DEF copy
<1>3. /\ DOMAIN live' = DOMAIN live /\ live'[copy].bytes = "dumped"
      /\ \A c \in DOMAIN live : /\ c # copy => live'[c] = live[c]
                                /\ live'[c].under = live[c].under /\ live'[c].refs = live[c].refs
  <2>1. live' = [live EXCEPT ![copy].bytes = "dumped"] /\ copy \in DOMAIN live
    BY <1>1, <1>2 DEF copy
  <2>2. \A c \in DOMAIN live : live[c] \in Copy
    BY DEF Inv, FunctionsOK, LiveOK
  <2>3. DOMAIN live' = DOMAIN live /\ live'[copy] = [live[copy] EXCEPT !.bytes = "dumped"]
    BY <2>1
  <2>4. \A c \in DOMAIN live : c # copy => live'[c] = live[c]
    BY <2>1
  <2> QED
    BY <2>1, <2>2, <2>3, <2>4 DEF Copy
<1>4. /\ copy \in DOMAIN live /\ copy.of = Node
      /\ Kind[Node] = "image" => live[copy].under = Home(Node)
  BY <1>2 DEF copy
<1>5. Grows(live, live')
  <2> SUFFICES ASSUME NEW c \in DOMAIN live
               PROVE  live[c].bytes = "dumped" => live'[c].bytes = "dumped"
    BY <1>3 DEF Grows
  <2> QED
    BY <1>3
<1>6. Placed' /\ Numbered'
  BY <1>3, NumberedOld DEF RInv, Placed, PlacedIn
<1>7. \A d \in DOMAIN live' : Kind[d.of] = "slot" => live'[d].bytes \in {"none", "dumped"}
  <2> SUFFICES ASSUME NEW d \in DOMAIN live, Kind[d.of] = "slot"
               PROVE  live'[d].bytes \in {"none", "dumped"}
    BY <1>3
  <2>1. live[d].bytes \in {"none", "dumped"}
    BY DEF RInv, SlotsFilled
  <2> QED
    BY <1>3, <2>1
<1>8. CASE IsCut
  BY <1>1, <1>2, <1>5, <1>6, <1>7, <1>8, CutLeaves
<1>9. CASE mem' = (IF Kind[Node] = "image" THEN With(mem, Node, copy) ELSE mem) /\ Go("next", at + 1)
  <2>1. /\ IsMapping(mem) /\ FaithfulIn(mem, live, Written) /\ cuts' = cuts /\ Running' /\ pc' = "next"
    BY <1>2, <1>9, WhileRunning DEF Go, Restoring, Running
  <2>2. Kind[Node] \in {"slot", "image"} => Parent[Node] \in DOMAIN mem /\ Home(Node) = mem[Parent[Node]]
    BY <1>2, KindFacts, HomeMapped
  <2>3. FaithfulIn(mem, live', Written)
    BY <1>5, <2>1, FaithfulGrows
  <2>4. FaithfulIn(mem', live', Written)
    <3>1. CASE Kind[Node] # "image"
      BY <1>9, <2>3, <3>1
    <3>2. CASE Kind[Node] = "image"
      <4>1. Kind[Node] \in HasId /\ Kind[Node] \notin Created
        BY <3>2 DEF HasId, Created
      <4>2. copy \in DOMAIN live' /\ live'[copy].under = mem[Parent[Node]]
        BY <1>3, <1>4, <2>2, <3>2
      <4>3. Node \in Written
        BY <1>2, Types DEF Inv, DumpTypes, Written
      <4> QED
        BY <1>2, <1>3, <1>9, <2>1, <2>2, <2>3, <3>2, <4>1, <4>2, <4>3, FaithfulWith
    <3> QED
      BY <3>1, <3>2
  <2>5. SlotsFilled'
    <3> SUFFICES ASSUME NEW c \in DOMAIN live, Kind[c.of] = "slot", live'[c].bytes = "none"
                 PROVE  cuts > 0
      BY <1>3, <1>7, <2>1 DEF SlotsFilled
    <3>1. c # copy /\ live[c].bytes = "none"
      BY <1>3
    <3> QED
      BY <3>1 DEF RInv, SlotsFilled, copy
  <2>6. NoSurplusImage'
    <3> SUFFICES ASSUME cuts = 0, NEW c \in DOMAIN live, Kind[c.of] = "image"
                 PROVE  Maps(mem', c)
      BY <1>3, <2>1 DEF NoSurplusImage
    <3>1. Maps(mem, c) \/ c = copy
      BY <1>2 DEF RInv, NoSurplusImage, copy
    <3>2. CASE c = copy
      <4>1. mem' = With(mem, Node, copy)
        BY <1>4, <1>9, <3>2
      <4> QED
        BY <1>4, <3>2, <4>1 DEF With, Maps
    <3>3. CASE Maps(mem, c) /\ c # copy
      <4>1. CASE Kind[Node] # "image"
        BY <1>9, <3>3, <4>1
      <4>2. CASE Kind[Node] = "image"
        <5>1. mem' = With(mem, Node, copy) /\ Node \notin DOMAIN mem
          BY <1>2, <1>9, <4>2
        <5> QED
          BY <3>3, <5>1 DEF With, Maps
      <4> QED
        BY <4>1, <4>2
    <3> QED
      BY <3>1, <3>2, <3>3
  <2>7. PastIn(mem', live', cuts, Node)
    <3>1. CASE Kind[Node] = "image"
      BY <1>9, <3>1 DEF With, PastIn, Created
    <3>2. CASE Kind[Node] = "slot"
      <4>1. copy = [of |-> Node, nth |-> mem[Parent[Node]].nth]
        BY <2>2, <3>2 DEF copy, PutCopy, SlotOf
      <4> QED
        BY <1>3, <1>4, <1>9, <2>2, <3>2, <4>1 DEF PastIn, Created
    <3>3. CASE Kind[Node] = "avatar"
      <4>1. copy = [of |-> Node, nth |-> 1]
        BY <1>2, <3>3, KindFacts DEF copy, PutCopy, SlotOf, Home
      <4> QED
        BY <1>3, <1>4, <3>3, <4>1 DEF PastIn, Created
    <3> QED
      BY <1>2, <3>1, <3>2, <3>3 DEF Slots
  <2>8. mem' = mem \/ (Kind[Node] = "image" /\ Node \notin DOMAIN mem /\ \E c : mem' = With(mem, Node, c))
    BY <1>2, <1>9
  <2>9. Kind[Node] # "end"
    BY <1>2 DEF Slots
  <2> QED
    BY <1>1, <1>2, <1>5, <1>6, <1>9, <2>4, <2>5, <2>6, <2>7, <2>8, <2>9, Passes
<1> QED
  BY <1>1, <1>8, <1>9 DEF Answered, copy

(* An item has room for all its images, unless a run was cut. *)
LEMMA RoomForImages ==
    ASSUME Inv, RInv, cuts = 0, pc = "next", at \in DOMAIN Walk, Node \in dir,
           Kind[Node] = "image", Node \notin DOMAIN mem
    PROVE  Cardinality(ImagesUnder(Home(Node))) < MaxImagesPerItem
<1> DEFINE p == Parent[Node]
           S == {y \in Nodes : Kind[y] = "image" /\ Parent[y] = p}
           there == ImagesUnder(Home(Node))
           f == [d \in there |-> d.of]
<1>1. /\ Running /\ IsMapping(mem) /\ FaithfulIn(mem, live, Written) /\ Node \in Nodes
      /\ Node \notin Items /\ p \in Nodes
  BY WhileRunning, WalkFacts, KindFacts DEF Running, Node
<1>2. p \in DOMAIN mem /\ Home(Node) = mem[p] /\ mem[p].of = p
  BY <1>1, KindFacts, HomeMapped DEF IsMapping
<1>3. ASSUME NEW d \in there
      PROVE  d.of \in S \ {Node} /\ d.of \in DOMAIN mem /\ mem[d.of] = d
  <2>1. d \in DOMAIN live /\ live[d].under = mem[p] /\ Kind[d.of] = "image"
    BY <1>2 DEF ImagesUnder
  <2>2. d.of \in DOMAIN mem /\ mem[d.of] = d
    BY <1>1, <2>1 DEF RInv, NoSurplusImage, Maps
  <2>3. d.of \in Nodes /\ d.of \notin Items
    BY <1>1, <2>1, <2>2, KindFacts DEF IsMapping
  <2>4. Parent[d.of] \in DOMAIN mem /\ mem[Parent[d.of]] = mem[p]
    BY <1>1, <2>1, <2>2, <2>3 DEF FaithfulIn
  <2>5. Parent[d.of] = p
    BY <1>1, <1>2, <2>4 DEF IsMapping
  <2> QED
    BY <2>1, <2>2, <2>3, <2>5
<1>4. IsFiniteSet(S) /\ Cardinality(S) <= MaxImagesPerItem /\ Cardinality(S) \in Nat /\ Node \in S
  <2>1. IsFiniteSet(S)
    BY NodesFinite, FS_Subset
  <2>2. Cardinality(S) <= MaxImagesPerItem
    BY <1>1, ItemImages
  <2> QED
    BY <1>1, <2>1, <2>2, FS_CardinalityType
<1> HIDE DEF S, there
<1>5. f \in Injection(there, S \ {Node})
  BY <1>3 DEF Injection, IsInjective
<1>6. IsFiniteSet(S \ {Node}) /\ Cardinality(S \ {Node}) = Cardinality(S) - 1
  BY <1>4, FS_RemoveElement
<1>7. Cardinality(there) <= Cardinality(S \ {Node}) /\ Cardinality(there) \in Nat
  BY <1>5, <1>6, FS_Injection, FS_CardinalityType
<1>8. MaxImagesPerItem \in Nat
  BY Bounds
<1> QED
  BY <1>4, <1>6, <1>7, <1>8 DEF there

LEMMA RefusedLeaves ==
    ASSUME Inv, RInv,
           itemUnreadable \/ profileConflict \/ buildRefused \/ avatarUnreadable \/ imagesFull
    PROVE  RInv'
<1>1. /\ pc = "next" /\ at \in DOMAIN Walk /\ Node \in dir /\ Node \in Nodes /\ Fails
      /\ Node \in Items \/ Kind[Node] \in {"profile", "build", "avatar", "image"}
      /\ Kind[Node] = "image" => imagesFull \/ Node \in Items
  BY WalkFacts, Types DEF Inv, DumpTypes, itemUnreadable,
                             profileConflict, buildRefused, avatarUnreadable, imagesFull, Takes, Node
<1>2. cuts = 0 => Kind[Node] # "image"
  <2> SUFFICES ASSUME cuts = 0, imagesFull, Kind[Node] = "image"
               PROVE  FALSE
    BY <1>1, KindFacts
  <2>1. /\ Node \notin DOMAIN mem
        /\ Cardinality(ImagesUnder(Home(Node))) = MaxImagesPerItem
    BY DEF imagesFull
  <2>2. MaxImagesPerItem \in Nat
    BY Bounds
  <2> QED
    BY <1>1, <2>1, <2>2, RoomForImages
<1>3. cuts = 0 => Node \in Items \/ Kind[Node] = "avatar"
  BY <1>1, <1>2, KindFacts
<1> QED
  BY <1>1, <1>3, FailsLeaves

LEMMA RestoreLeaves == ASSUME Inv, Inv', RInv, RestoreNext PROVE RInv'
<1>1. CASE cut
  <2>1. Running /\ UNCHANGED <<live, disk>> /\ IsCut
    BY <1>1 DEF cut, Running
  <2>2. \A d \in DOMAIN live' : Kind[d.of] = "slot" => live'[d].bytes \in {"none", "dumped"}
    BY <2>1 DEF RInv, SlotsFilled
  <2> QED
    BY <2>1, <2>2, SameLive, CutLeaves DEF RInv
<1>2. CASE restoreKeyboards \/ restoreKeyboardParts \/ restoreSwitches
           \/ restoreKeycapSets \/ restoreKits \/ restoreBuilds
  BY <1>2, CreateLeaves DEF restoreKeyboards, restoreKeyboardParts, restoreSwitches,
                            restoreKeycapSets, restoreKits, restoreBuilds, Created
<1>3. CASE restoreAvatar \/ restoreSwitchImage \/ restoreKitImage
  BY <1>3, SlotLeaves DEF restoreAvatar, restoreSwitchImage, restoreKitImage
<1> QED
  BY <1>1, <1>2, <1>3, StartLeaves, RestoredLeaves, SkipsLeave, ResumeLeaves, RefusedLeaves,
     CreateProfileLeaves, SaveLeaves, ArrayLeaves, UploadLeaves DEF RestoreNext, RestoreStep

-----------------------------------------------------------------------------
(* The other steps                                                         *)

(* The dump is written before any restore. *)
LEMMA DumpLeavesRestored == ASSUME Inv, RInv, DumpNext PROVE RInv'
<1>1. /\ ~manifest /\ pc \in {"idle", "list", "fetch"} /\ pc' \in {"idle", "list", "fetch"}
      /\ UNCHANGED <<live, disk, mem, cuts, outcome, verified>>
  <2>1. ASSUME NEW x \in Items, OwnerAdds(x) \/ OwnerDeletes(x)
        PROVE  <1>1
    <3>1. ~manifest /\ UNCHANGED <<live, disk, mem, pc, cuts, outcome, verified>>
      BY <2>1 DEF OwnerAdds, OwnerDeletes, Edited, EditsOnly
    <3>2. pc \in {"idle", "list", "fetch", "next", "put", "save"}
      BY DEF Inv, TypeOK
    <3> QED
      BY <3>1, <3>2 DEF RInv, DumpDone, Running
  <2>2. Dumping => ~manifest
    BY DEF RInv, DumpDone
  <2>3. ASSUME NEW x \in Items, dumpItem(x) \/ dumpItemStops(x) \/ dumpItemUnwritten(x)
        PROVE  <1>1
    BY <2>2, <2>3 DEF dumpItem, dumpItemStops, dumpItemUnwritten, Fetches, IsNext, Dump, Dumping
  <2>4. CASE DumpRun \/ listAll \/ dumpStops \/ nextCollection \/ writeManifest
    BY <2>2, <2>4 DEF DumpRun, listAll, dumpStops, nextCollection, writeManifest, Dump, Dumping
  <2> QED
    BY <2>1, <2>3, <2>4 DEF DumpNext, dumpSimpleCollection, dumpKeycapSets, dumpProfile
<1>2. ~Running /\ ~Running' /\ outcome # "ok" /\ ~IsAMap(disk) /\ mem = NoMap
  BY <1>1, Types DEF RInv, DumpDone, Running, Inv, PlaceTypes
<1>3. DumpDone'
  <2>1. \A y \in dir' : Top(y) \in Written' => Tree[Top(y)] \ Images \subseteq dir'
    <3>1. ASSUME NEW x \in Items, dir \subseteq dir', broken' = broken \ {x},
                 Tree[x] \ Images \subseteq dir', \A y \in dir' : y \in dir \/ y \in Tree[x]
          PROVE  <2>1
      <4>1. \A y \in Tree[x] : Top(y) = x
        BY TreeIs
      <4>2. \A z \in Written' : z \in Written \/ z \in Tree[x]
        BY <3>1, TreeFacts DEF Written
      <4>3. \A y \in dir' : Top(y) \in Written \/ Top(y) \in Tree[x] \/ Top(y) \notin Written'
        BY <4>2
      <4>4. \A y \in dir' : Top(y) \in Tree[x] => Top(y) = x
        <5>1. \A y \in dir' : Top(y) \in Items
          BY <3>1, Depth, TreeFacts, Types DEF Inv, DumpTypes
        <5> QED
          BY <5>1, ItemTree
      <4> QED
        BY <3>1, <4>1, <4>3, <4>4 DEF RInv, DumpDone
    <3>2. CASE dir' = dir /\ broken' = broken
      BY <3>2 DEF RInv, DumpDone, Written
    <3>3. ASSUME NEW x \in Items, dumpItem(x)
          PROVE  <2>1
      BY <3>1, <3>3 DEF dumpItem
    <3>4. ASSUME NEW x \in Items, dumpItemStops(x)
          PROVE  <2>1
      BY <3>1, <3>4 DEF dumpItemStops
    <3>5. ASSUME NEW x \in Items, dumpItemUnwritten(x)
          PROVE  <2>1
      <4>1. dir' = dir \cup {x} /\ broken' = broken \cup {x}
        BY <3>5 DEF dumpItemUnwritten
      <4>2. Top(x) = x
        BY DEF Top, Items
      <4>3. x \notin Written' /\ Written' \subseteq Written
        BY <4>1 DEF Written
      <4> QED
        BY <4>1, <4>2, <4>3 DEF RInv, DumpDone
    <3> QED
      BY <3>2, <3>3, <3>4, <3>5 DEF DumpNext, dumpSimpleCollection, dumpKeycapSets, dumpProfile,
         OwnerAdds, OwnerDeletes, EditsOnly, DumpRun, listAll, dumpStops, nextCollection, writeManifest
  <2>2. Dumping' => ~manifest'
    <3>1. CASE writeManifest
      BY <3>1 DEF writeManifest, Dumping
    <3>2. CASE manifest' = manifest
      BY <1>1, <3>2
    <3> QED
      BY <3>1, <3>2 DEF DumpNext, dumpSimpleCollection, dumpKeycapSets, dumpProfile, dumpItem,
         dumpItemStops, dumpItemUnwritten,
         OwnerAdds, OwnerDeletes, EditsOnly, DumpRun, listAll, dumpStops, nextCollection
  <2> QED
    BY <1>1, <1>2, <2>1, <2>2 DEF DumpDone
<1>4. Faithful' /\ Numbered' /\ Placed'
  BY <1>1, <1>2, SameLive DEF RInv, Faithful, IsAMap
<1>5. Asked' /\ Behind' /\ Compared'
  BY <1>1, <1>2 DEF Asked, Behind, Compared
<1>6. SlotsFilled'
  BY <1>1 DEF RInv, SlotsFilled
<1>7. ImagesMapped' /\ NoSurplusImage'
  BY <1>1, <1>2 DEF RInv, ImagesMapped, NoSurplusImage
<1> QED
  BY <1>3, <1>4, <1>5, <1>6, <1>7 DEF RInv

(* The account that is restored to, while no restore runs. *)
LEMMA ElsewhereLeaves ==
    ASSUME Inv, RInv, pc = "idle", UNCHANGED <<dumping, fits, disk, mem, pc, at, outcome, cuts>>,
           Grows(live, live'), Placed', Compared',
           \A c \in DOMAIN live' : \/ c \in DOMAIN live /\ live'[c] = live[c]
                                   \/ Kind[c.of] \in {"profile", "avatar"}
    PROVE  RInv'
<1>1. /\ ~Running /\ ~Running' /\ ~Dumping' /\ mem = NoMap
      /\ dir' = dir /\ Written' = Written /\ manifest' = manifest
  BY Types DEF Running, Dumping, Inv, PlaceTypes, dumping, Written
<1>2. DumpDone'
  BY <1>1 DEF RInv, DumpDone
<1>3. Faithful'
  <2> SUFFICES ASSUME IsAMap(disk)
               PROVE  FaithfulIn(disk, live', Written)
    BY <1>1 DEF Faithful, IsAMap
  <2>1. IsMapping(disk) /\ FaithfulIn(disk, live, Written)
    BY DEF IsAMap, Inv, FunctionsOK, RInv, Faithful
  <2> QED
    BY <2>1, FaithfulGrows
<1>4. Numbered'
  <2>1. \A c \in DOMAIN live' : c \in DOMAIN live \/ Kind[c.of] \notin HasId
    BY DEF HasId, Created
  <2>2. DOMAIN live \subseteq DOMAIN live'
    BY DEF Grows
  <2> QED
    BY <2>1, <2>2, NumberedOld DEF RInv
<1>5. SlotsFilled'
  BY DEF RInv, SlotsFilled
<1>6. Asked'
  BY DEF Asked
<1>7. Behind'
  <2> SUFFICES ASSUME outcome = "ok"
               PROVE  IsAMap(disk) /\ \A y \in dir : PastIn(disk, live', cuts, y)
    BY <1>1 DEF Behind
  <2>1. IsAMap(disk) /\ \A y \in dir : PastIn(disk, live, cuts, y)
    BY DEF RInv, Behind
  <2>2. Extends(disk, disk)
    BY DEF Extends
  <2> QED
    BY <2>1, <2>2, PastGrows
<1>8. ImagesMapped'
  BY <1>1 DEF RInv, ImagesMapped, ImagesOf, Open
<1>9. NoSurplusImage'
  BY <1>1 DEF RInv, NoSurplusImage
<1> QED
  BY <1>2, <1>3, <1>4, <1>5, <1>6, <1>7, <1>8, <1>9 DEF RInv

LEMMA ComparisonStays ==
    ASSUME UNCHANGED <<disk, live, dir, broken>>
    PROVE  VerifyPasses' = VerifyPasses
BY DEF VerifyPasses, verifyProfile, verifyKeyboards, verifySwitches, verifyKeycapSets, verifyBuilds,
       verifyKitImages, verifyParts, verifyArrayImages, verifySingleImage, verifySlots,
       compareBuildRefs, Under, Holds, Stored, Copies

LEMMA SignUpLeaves ==
    ASSUME Inv, RInv, NEW x \in Items, TargetSignsUp(x)
    PROVE  RInv'
<1> DEFINE ids == {[of |-> y, nth |-> 1] : y \in Tree[x]}
<1>1. /\ pc = "idle" /\ Kind[x] = "profile" /\ DOMAIN live = {}
      /\ UNCHANGED <<dumping, fits, disk, mem, pc, at, outcome, verified, cuts>>
      /\ live' = [c \in ids |-> IF c.of = x THEN Thing(NoMap, {}, "none")
                                ELSE Thing([of |-> x, nth |-> 1], {}, "other")]
  BY DEF TargetSignsUp, NoProfile, Elsewhere
<1>2. x \in Nodes /\ Parent[x] = x
  BY DEF Items
<1>3. \A c \in ids : c.of \in Tree[x]
  OBVIOUS
<1> HIDE DEF ids
<1>4. DOMAIN live' = ids /\ \A c \in ids : c.of # x => live'[c].under = [of |-> x, nth |-> 1]
  BY <1>1 DEF Thing
<1>5. \A c \in DOMAIN live' : Kind[c.of] \in {"profile", "avatar"}
  BY <1>1, <1>3, <1>4, ProfileTree
<1>6. Grows(live, live')
  BY <1>1 DEF Grows
<1>7. Placed'
  <2> SUFFICES ASSUME NEW c \in ids, c.of \notin Items
               PROVE  live'[c].under \in Ids /\ live'[c].under.of = Parent[c.of]
    BY <1>4 DEF Placed, PlacedIn
  <2>1. c.of \in Nodes /\ c.of \in Tree[x] /\ Kind[c.of] = "avatar"
    BY <1>3, <1>4, <1>5, TreeFacts, KindFacts
  <2>2. Parent[c.of] \in Nodes /\ Kind[Parent[c.of]] = "profile" /\ Parent[Parent[c.of]] = x
    BY <2>1, KindFacts, TreeIs DEF Top
  <2>3. Parent[c.of] = x
    BY <2>2, KindFacts DEF Items
  <2> QED
    BY <1>2, <1>4, <2>3 DEF Ids
<1>8. Compared'
  <2> SUFFICES ASSUME outcome = "ok", verified
               PROVE  VerifyPasses'
    BY <1>1 DEF Compared, Running
  <2>1. VerifyPasses
    BY <1>1 DEF RInv, Compared
  <2>2. \A z \in Items \cap dir : Kind[z] # "profile"
    BY <1>1, <2>1 DEF VerifyPasses, verifyProfile, Copies
  <2>3. Items \cap DOMAIN disk = {}
    BY <1>1, <2>1 DEF VerifyPasses
  <2>4. dir' = dir /\ broken' = broken /\ disk' = disk
    BY <1>1 DEF dumping
  <2> QED
    BY <2>2, <2>3, <2>4 DEF VerifyPasses
<1> QED
  BY <1>1, <1>5, <1>6, <1>7, <1>8, ElsewhereLeaves

LEMMA TargetLeaves == ASSUME Inv, RInv, TargetNext \/ VerifyRun PROVE RInv'
<1>1. ASSUME UsernameTaken \/ VerifyRun
      PROVE  RInv'
  <2>1. /\ UNCHANGED <<dumping, fits, disk, mem, pc, at, outcome, cuts, live>> /\ pc = "idle"
        /\ dir' = dir /\ broken' = broken
    BY <1>1 DEF UsernameTaken, NoProfile, Elsewhere, VerifyRun, target, dumping, Written
  <2>2. VerifyPasses' = VerifyPasses
    BY <2>1, ComparisonStays
  <2>3. Compared'
    BY <1>1, <2>1, <2>2 DEF UsernameTaken, Elsewhere, VerifyRun, RInv, Compared, Running
  <2> QED
    BY <2>1, <2>3, SameLive, ElsewhereLeaves DEF RInv
<1> QED
  BY <1>1, SignUpLeaves DEF TargetNext

LEMMA RInvInitially == ASSUME Init PROVE RInv
<1>1. /\ DOMAIN live = {} /\ disk = NoMap /\ mem = NoMap /\ pc = "idle" /\ dir = {}
      /\ outcome = "none" /\ ~verified
  BY DEF Init
<1>2. ~Running /\ ~Dumping /\ ~IsAMap(disk) /\ ~IsAMap(mem)
  BY <1>1 DEF Running, Dumping, IsAMap
<1>3. DumpDone /\ Faithful /\ Asked /\ Behind /\ Compared
  BY <1>1, <1>2 DEF DumpDone, Faithful, Asked, Behind, Compared
<1>4. Numbered /\ SlotsFilled /\ Placed
  BY <1>1 DEF Numbered, NumberedIn, SlotsFilled, Placed, PlacedIn
<1>5. ImagesMapped /\ NoSurplusImage
  BY <1>1, <1>2 DEF ImagesMapped, NoSurplusImage
<1> QED
  BY <1>3, <1>4, <1>5 DEF RInv

LEMMA RInvInductive == Inv /\ Inv' /\ RInv /\ [Next]_vars => RInv'
<1>1. ASSUME Inv, RInv, UNCHANGED vars
      PROVE  RInv'
  <2>1. /\ UNCHANGED <<dumping, live, taken, fits, disk, mem, pc, at, outcome, verified, cuts>>
        /\ dir' = dir /\ broken' = broken /\ Written' = Written /\ manifest' = manifest
    BY <1>1 DEF vars, target, dumping, Written
  <2>2. DumpDone' /\ Faithful' /\ Numbered' /\ Placed'
    BY <1>1, <2>1, SameLive DEF RInv, DumpDone, Faithful, Running, Dumping
  <2>3. Asked' /\ SlotsFilled' /\ Behind'
    BY <1>1, <2>1 DEF RInv, Asked, SlotsFilled, Behind, PutCopy, SlotOf, Home, Node, Copies, Running
  <2>4. ImagesMapped' /\ NoSurplusImage'
    BY <1>1, <2>1 DEF RInv, ImagesMapped, NoSurplusImage, ImagesOf, Begun, Open, Closes, PutCopy,
                      SlotOf, Home, Node, Copies, Running
  <2>5. Compared'
    BY <1>1, <2>1, ComparisonStays DEF RInv, Compared, Running
  <2> QED
    BY <2>2, <2>3, <2>4, <2>5 DEF RInv
<1> QED
  BY <1>1, DumpLeavesRestored, TargetLeaves, RestoreLeaves DEF Next

LEMMA RestoreInvariant == Spec => []RInv
BY InvInitially, InvInductive, RInvInitially, RInvInductive, PTL DEF Spec

(* What is missing when a restore has succeeded: images that were on their *)
(* way to a build, or to a slot, when an earlier run was cut.              *)
LEMMA RestoredBut ==
    ASSUME Inv, RInv, pc = "idle", outcome = "ok", NEW x \in dir, ~IsRestored(x)
    PROVE  /\ IsMapping(disk) /\ IsAMap(disk) /\ x \in Nodes /\ cuts > 0
           /\ \/ Kind[x] = "image" /\ Kind[Parent[x]] = "build" /\ x \notin DOMAIN disk
              \/ /\ Kind[x] = "slot" /\ Parent[x] \in DOMAIN disk
                 /\ [of |-> x, nth |-> disk[Parent[x]].nth] \in DOMAIN live
                 /\ live[[of |-> x, nth |-> disk[Parent[x]].nth]].bytes = "none"
<1>1. IsAMap(disk) /\ PastIn(disk, live, cuts, x)
  BY DEF RInv, Behind
<1>2. IsMapping(disk) /\ FaithfulIn(disk, live, Written) /\ x \in Nodes /\ dir \subseteq Nodes
  BY <1>1, Types DEF IsAMap, Inv, FunctionsOK, RInv, Faithful, DumpTypes
<1>3. Kind[x] # "profile" /\ Kind[x] # "avatar" /\ Kind[x] # "end"
  BY <1>1 DEF PastIn, IsRestored, Copies, Stored, Created
<1>4. x \in DOMAIN disk /\ Kind[x] \in HasId => Below(x)
  BY <1>2 DEF FaithfulIn, Below, IsMapping
<1>5. Kind[x] \in Created => IsRestored(x)
  <2> SUFFICES ASSUME Kind[x] \in Created
               PROVE  IsRestored(x)
    OBVIOUS
  <2>1. x \in DOMAIN disk /\ Below(x)
    BY <1>1, <1>4 DEF PastIn, HasId
  <2>2. live[disk[x]].refs = {disk[r] : r \in Refs[x]}
    BY <1>2, <2>1 DEF FaithfulIn
  <2>3. Kind[x] \notin {"profile", "avatar", "slot", "image"}
    BY DEF Created
  <2>4. IsRestored(x) <=>
          x \in DOMAIN disk /\ Below(x) /\ live[disk[x]].refs = {disk[r] : r \in Refs[x]}
    BY <2>3 DEF IsRestored
  <2> QED
    BY <2>1, <2>2, <2>4
<1>6. CASE Kind[x] = "image"
  <2>1. x \in DOMAIN disk => IsRestored(x)
    BY <1>2, <1>4, <1>6 DEF FaithfulIn, IsRestored, Stored, HasId
  <2> QED
    BY <1>1, <1>2, <1>6, <2>1 DEF PastIn
<1>7. CASE Kind[x] = "slot"
  <2> DEFINE c == [of |-> x, nth |-> disk[Parent[x]].nth]
  <2>1. Parent[x] \in DOMAIN disk /\ c \in DOMAIN live
    BY <1>1, <1>7 DEF PastIn
  <2>2. live[c].bytes # "dumped"
    <3>1. IsRestored(x) <=> Parent[x] \in DOMAIN disk /\ Stored(c)
      BY <1>7 DEF IsRestored, Created
    <3> QED
      BY <2>1, <3>1 DEF Stored
  <2>3. live[c].bytes = "none" /\ cuts > 0
    BY <1>7, <2>1, <2>2 DEF RInv, SlotsFilled
  <2> QED
    BY <1>1, <1>2, <1>7, <2>1, <2>3
<1> QED
  BY <1>2, <1>3, <1>5, <1>6, <1>7, KindFacts DEF Created

(* A restore that answers success, whichever runs were cut before it and   *)
(* wherever, has made all of the dump but images of a build that was in    *)
(* the map already and single images that a cut run asked a URL for        *)
(* (restore.go:408, :664).                                                 *)
THEOREM OnlyCutMissing == Spec => []OnlyCutImagesMissing
<1>1. ASSUME Inv, RInv
      PROVE  OnlyCutImagesMissing
  <2> SUFFICES ASSUME pc = "idle", outcome = "ok", NEW x \in dir, ~IsRestored(x)
               PROVE  /\ cuts > 0
                      /\ \/ Kind[x] = "image" /\ Kind[Top(x)] = "build"
                         \/ Kind[x] = "slot" /\ live[[of |-> x, nth |-> disk[Parent[x]].nth]].bytes = "none"
    BY DEF OnlyCutImagesMissing
  <2>1. Kind[x] = "image" => Top(x) = Parent[x]
    BY <1>1, RestoredBut, ImageFacts
  <2> QED
    BY <1>1, <2>1, RestoredBut
<1> QED
  BY <1>1, Invariant, RestoreInvariant, PTL

-----------------------------------------------------------------------------
(* What verify finds right                                                 *)

(* As many copies as nodes, and one for each node, are no others. *)
LEMMA AsMany ==
    ASSUME NEW U, IsFiniteSet(U), NEW H, IsFiniteSet(H), Cardinality(U) = Cardinality(H),
           NEW m, \A y \in H : m[y] \in U /\ m[y].of = y
    PROVE  U \subseteq {m[y] : y \in H}
<1> DEFINE f == [y \in H |-> m[y]]
<1>1. f \in Injection(H, U)
  BY DEF Injection, IsInjective
<1>2. f \in Surjection(H, U)
  BY <1>1, FS_Injection
<1> QED
  BY <1>2 DEF Surjection

LEMMA FoundRight ==
    ASSUME VerifyPasses, NEW x \in Items, x \in DOMAIN disk
    PROVE  /\ Kind[x] = "keyboard" => verifyParts(x) /\ verifyArrayImages(x)
           /\ Kind[x] = "switch" => verifySlots(x)
           /\ Kind[x] = "set" => verifySlots(x)
           /\ Kind[x] = "build" => verifyArrayImages(x)
<1>1. /\ Kind[x] = "keyboard" => verifyKeyboards(x)
      /\ Kind[x] = "switch" => verifySwitches(x)
      /\ Kind[x] = "set" => verifyKeycapSets(x)
      /\ Kind[x] = "build" => verifyBuilds(x)
  BY DEF VerifyPasses
<1> QED
  BY <1>1 DEF verifyKeyboards, verifySwitches, verifyKeycapSets, verifyKitImages, verifyBuilds

LEMMA VerifiedRestored ==
    ASSUME Inv, RInv, pc = "idle", outcome = "ok", verified, NEW x \in dir
    PROVE  IsRestored(x)
<1> SUFFICES ASSUME ~IsRestored(x)
             PROVE  FALSE
  OBVIOUS
<1>1. VerifyPasses
  BY DEF RInv, Compared
<1>2. /\ IsMapping(disk) /\ x \in Nodes
      /\ \/ Kind[x] = "image" /\ Kind[Parent[x]] = "build" /\ x \notin DOMAIN disk
         \/ /\ Kind[x] = "slot" /\ Parent[x] \in DOMAIN disk
            /\ live[[of |-> x, nth |-> disk[Parent[x]].nth]].bytes = "none"
  BY RestoredBut
<1>3. \A y \in dir : Parent[y] \in dir /\ y \in Nodes /\ (Kind[y] \in Created => y \in DOMAIN disk)
  BY Types DEF Inv, WalkInv, DumpTypes, RInv, Behind, PastIn
<1> DEFINE p == Parent[x]
<1>4. p \in dir /\ Parent[p] \in dir /\ p \in Nodes
  BY <1>3
<1>5. CASE Kind[x] = "image" /\ Kind[p] = "build" /\ x \notin DOMAIN disk
  <2>1. p \in Items /\ x \in Tree[p] /\ p \in DOMAIN disk
    BY <1>2, <1>3, <1>4, <1>5, ImageFacts DEF Created
  <2>2. verifyArrayImages(p)
    BY <1>1, <1>5, <2>1, FoundRight
  <2>3. x \in Holds(p, {"image"})
    BY <1>5, <2>1 DEF Holds
  <2> QED
    BY <1>5, <2>2, <2>3 DEF verifyArrayImages
<1>6. ASSUME Kind[x] = "slot", p \in DOMAIN disk, live[[of |-> x, nth |-> disk[p].nth]].bytes = "none"
      PROVE  FALSE
  <2>1. ASSUME NEW i \in Items, x \in Tree[i], verifySlots(i)
        PROVE  FALSE
    <3>1. x \in Holds(i, {"slot"})
      BY <1>6, <2>1 DEF Holds
    <3>2. Stored([of |-> x, nth |-> disk[p].nth])
      BY <2>1, <3>1 DEF verifySlots
    <3> QED
      BY <1>6, <3>2 DEF Stored
  <2>2. CASE Kind[p] = "switch"
    <3>1. p \in Items /\ Top(x) = p
      BY <1>4, <2>2, KindFacts DEF Top, Items
    <3>2. x \in Tree[p]
      BY <1>2, <3>1, TreeIs
    <3> QED
      BY <1>1, <1>6, <2>1, <2>2, <3>1, <3>2, FoundRight
  <2>3. CASE Kind[p] = "kit"
    <3>1. Kind[Parent[p]] = "set" /\ Parent[p] \in Nodes
      BY <1>4, <2>3, KindFacts
    <3>2. Parent[p] \in Items /\ Top(x) = Parent[p] /\ Parent[p] \in DOMAIN disk
      BY <1>3, <1>4, <3>1, KindFacts DEF Top, Created
    <3>3. x \in Tree[Parent[p]]
      BY <1>2, <3>2, TreeIs
    <3> QED
      BY <1>1, <2>1, <3>1, <3>2, <3>3, FoundRight
  <2> QED
    BY <1>2, <1>6, <2>2, <2>3, KindFacts
<1> QED
  BY <1>2, <1>5, <1>6

LEMMA NothingMore ==
    ASSUME Inv, RInv, pc = "idle", outcome = "ok", verified, NEW x \in DOMAIN disk \cap Items
    PROVE  Under(disk[x], {"image", "part"}) \subseteq {disk[y] : y \in Holds(x, {"image", "part"})}
<1>1. VerifyPasses /\ IsAMap(disk)
  BY DEF RInv, Compared, Behind
<1>2. /\ IsMapping(disk) /\ FaithfulIn(disk, live, Written) /\ LiveOK /\ dir \subseteq Nodes
      /\ \A y \in dir : Kind[y] \in Created => y \in DOMAIN disk
  BY <1>1, Types DEF IsAMap, Inv, FunctionsOK, RInv, Faithful, DumpTypes, Behind, PastIn
<1> DEFINE U(kind) == Under(disk[x], {kind})
           H(kind) == Holds(x, {kind})
<1>3. ASSUME NEW kind
      PROVE  IsFiniteSet(U(kind)) /\ IsFiniteSet(H(kind)) /\ H(kind) \subseteq Nodes
  <2>1. U(kind) \subseteq DOMAIN live /\ H(kind) \subseteq Nodes
    BY <1>2 DEF Under, Holds
  <2> QED
    BY <1>2, <2>1, NodesFinite, FS_Subset DEF LiveOK
<1>4. ASSUME NEW d \in Under(disk[x], {"image", "part"})
      PROVE  \/ d \in U("image") /\ Kind[x] \in {"keyboard", "build"}
             \/ d \in U("part") /\ Kind[x] = "keyboard"
  <2>1. d \in DOMAIN live /\ live[d].under = disk[x] /\ Kind[d.of] \in {"image", "part"}
    BY DEF Under
  <2>2. d.of \in Nodes
    BY <1>2, <2>1 DEF LiveOK, Ids
  <2>3. d.of \notin Items
    BY <2>1, <2>2, KindFacts
  <2>4. Parent[d.of] = x
    BY <1>2, <2>1, <2>3 DEF RInv, Placed, PlacedIn, IsMapping
  <2> QED
    BY <2>1, <2>2, <2>4, KindFacts DEF Under
<1>5. ASSUME Kind[x] \in {"keyboard", "build"}
      PROVE  U("image") \subseteq {disk[y] : y \in H("image")}
  <2>1. verifyArrayImages(x)
    BY <1>1, <1>5, FoundRight
  <2>2. /\ Cardinality(U("image")) = Cardinality(H("image"))
        /\ \A y \in H("image") : y \in DOMAIN disk /\ disk[y] \in U("image")
    BY <2>1 DEF verifyArrayImages
  <2>3. \A y \in H("image") : disk[y].of = y
    BY <1>2, <2>2 DEF IsMapping
  <2> HIDE DEF U, H
  <2> QED
    BY <1>3, <2>2, <2>3, AsMany
<1>6. ASSUME Kind[x] = "keyboard"
      PROVE  U("part") \subseteq {disk[y] : y \in H("part")}
  <2>1. verifyParts(x)
    BY <1>1, <1>6, FoundRight
  <2>2. Cardinality(U("part")) = Cardinality(H("part"))
    BY <2>1 DEF verifyParts
  <2>3. ASSUME NEW y \in H("part")
        PROVE  disk[y] \in U("part") /\ disk[y].of = y
    <3>1. y \in dir /\ y \in Nodes /\ y \in Tree[x] /\ Kind[y] = "part"
      BY <1>2 DEF Holds
    <3>2. y \in DOMAIN disk /\ disk[y].of = y /\ disk[y] \in DOMAIN live
      BY <1>2, <3>1 DEF Created, IsMapping, FaithfulIn
    <3>3. Parent[y] = x /\ y \notin Items
      <4>1. y \notin Items /\ Kind[Parent[y]] = "keyboard" /\ Parent[y] \in Nodes
        BY <3>1, KindFacts
      <4>2. Parent[y] \in Items /\ Parent[Parent[y]] = x
        BY <3>1, <4>1, KindFacts, TreeIs DEF Top
      <4> QED
        BY <4>1, <4>2 DEF Items
    <3>4. live[disk[y]].under = disk[x]
      BY <1>2, <3>2, <3>3 DEF FaithfulIn
    <3> QED
      BY <3>1, <3>2, <3>4 DEF Under
  <2> HIDE DEF U, H
  <2> QED
    BY <1>3, <2>2, <2>3, AsMany
<1>7. ASSUME NEW kind \in {"image", "part"}
      PROVE  H(kind) \subseteq Holds(x, {"image", "part"})
  BY DEF Holds
<1> HIDE DEF U, H
<1> QED
  BY <1>4, <1>5, <1>6, <1>7

(* When verify finds nothing wrong behind a restore that succeeded, the    *)
(* account has all of the dump, also what cut runs had left out, and no    *)
(* item has an image or a keyboard's part that it does not have in the     *)
(* dump (verify.go:34).                                                    *)
THEOREM VerifiedWhole == Spec => []VerifiedIsWhole
<1>1. Inv /\ RInv => VerifiedIsWhole
  BY VerifiedRestored, NothingMore DEF VerifiedIsWhole
<1> QED
  BY <1>1, Invariant, RestoreInvariant, PTL
=============================================================================

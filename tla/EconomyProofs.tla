----------------------------- MODULE EconomyProofs -----------------------------
(***************************************************************************)
(* For every map, price list and supply of order ids: orders and the       *)
(* timeline agree, no province gets two buildings of a kind, no bank is    *)
(* ever overdrawn, and goods come from pulses only.                        *)
(***************************************************************************)
EXTENDS Economy, NatFacts, TLAPS

RecruitOrders == {o \in Orders : o.kind \in UnitKinds}
BuildOrders == {o \in Orders : o.kind \in BuildingKinds}

OrderTypes ==
    /\ owner \in [Provinces -> Slots \cup {NoSlot}]
    /\ recruits \in [Provinces -> RecruitOrders \cup {NoOrder}]
    /\ builds \in [Provinces -> BuildOrders \cup {NoOrder}]
    /\ buildings \subseteq Buildings
    /\ completions \subseteq [what : {"recruit", "construct"}, id : OrderIds]

\* An id belongs to one order of each sort.
OwnIds ==
    \A p, q \in Provinces :
        /\ recruits[p] # NoOrder /\ recruits[q] # NoOrder /\ recruits[p].id = recruits[q].id => p = q
        /\ builds[p] # NoOrder /\ builds[q] # NoOrder /\ builds[p].id = builds[q].id => p = q

\* What a province holds is not being built there again.
OneOfAKind == \A a, b \in buildings : a.prov = b.prov /\ a.kind = b.kind => a = b
NotBuiltTwice == \A p \in Provinces : builds[p] # NoOrder => ~HasBuilding(p, builds[p].kind)

EInv == OrderTypes /\ OwnIds /\ OneOfAKind /\ NotBuiltTwice /\ BookedOnce

------------------------------------------------------------------------------
\* A fresh id is that of no order and of no completion.
LEMMA FreshId ==
    ASSUME OrderTypes, OrderIds \ InUse # {}
    PROVE  /\ Fresh \in OrderIds
           /\ \A e \in completions : e.id # Fresh
           /\ \A p \in Provinces : /\ recruits[p] # NoOrder => recruits[p].id # Fresh
                                   /\ builds[p] # NoOrder => builds[p].id # Fresh
<1>1. Fresh \in OrderIds /\ Fresh \notin InUse
  BY DEF Fresh
<1>2. \A e \in completions : e.id \in InUse
  BY DEF InUse
<1>3. ASSUME NEW p \in Provinces PROVE /\ recruits[p] # NoOrder => recruits[p].id \in InUse
                                       /\ builds[p] # NoOrder => builds[p].id \in InUse
  BY DEF InUse, Pending
<1> QED
  BY <1>1, <1>2, <1>3

LEMMA RecruitStep ==
    ASSUME EInv, NEW s \in Slots, NEW p \in Provinces, NEW k \in UnitKinds, Recruit(s, p, k)
    PROVE  EInv'
<1> DEFINE o == [id |-> Fresh, by |-> s, kind |-> k]
           e == [what |-> "recruit", id |-> Fresh]
<1>1. UNCHANGED <<owner, builds, buildings>> /\ recruits[p] = NoOrder
      /\ recruits' = [recruits EXCEPT ![p] = o] /\ completions' = completions \cup {e}
  BY DEF Recruit
<1>2. /\ Fresh \in OrderIds
      /\ \A d \in completions : d.id # Fresh
      /\ \A q \in Provinces : recruits[q] # NoOrder => recruits[q].id # Fresh
  BY FreshId DEF EInv, Recruit
<1>3. o \in RecruitOrders /\ o # NoOrder /\ o.id = Fresh
  BY <1>2, NoOrderAssumption DEF RecruitOrders, Orders, Wares
<1>4. e \in [what : {"recruit", "construct"}, id : OrderIds] /\ e.id = Fresh /\ e.what = "recruit"
  BY <1>2
<1> HIDE DEF o, e
<1>5. recruits'[p] = o /\ \A q \in Provinces : q # p => recruits'[q] = recruits[q]
  BY <1>1 DEF EInv, OrderTypes
<1>6. OrderTypes'
  BY <1>1, <1>3, <1>4 DEF EInv, OrderTypes, Buildings
<1>7. OwnIds'
  BY <1>1, <1>2, <1>3, <1>5 DEF EInv, OwnIds
<1>8. OneOfAKind' /\ NotBuiltTwice'
  BY <1>1 DEF EInv, OneOfAKind, NotBuiltTwice, HasBuilding
<1>9. BookedOnce'
  <2>1. ASSUME NEW d \in completions'
        PROVE  \E q \in Provinces : LET x == IF d.what = "recruit" THEN recruits'[q] ELSE builds'[q] IN
                                    x # NoOrder /\ x.id = d.id
    <3>1. CASE d = e
      BY <1>3, <1>4, <1>5, <3>1
    <3>2. CASE d \in completions
      BY <1>1, <1>5, <3>2 DEF EInv, BookedOnce
    <3> QED
      BY <1>1, <3>1, <3>2
  <2>2. ASSUME NEW q \in Provinces
        PROVE  /\ recruits'[q] # NoOrder => [what |-> "recruit", id |-> recruits'[q].id] \in completions'
               /\ builds'[q] # NoOrder => [what |-> "construct", id |-> builds'[q].id] \in completions'
    <3>1. CASE q # p
      BY <1>1, <1>5, <3>1 DEF EInv, BookedOnce
    <3>2. CASE q = p
      <4>1. e = [what |-> "recruit", id |-> recruits'[q].id]
        BY <1>3, <1>5, <3>2 DEF e
      <4>2. e \in completions'
        BY <1>1
      <4>3. builds'[q] # NoOrder => [what |-> "construct", id |-> builds'[q].id] \in completions'
        BY <1>1 DEF EInv, BookedOnce
      <4> QED
        BY <4>1, <4>2, <4>3
    <3> QED
      BY <3>1, <3>2
  <2>3. ASSUME NEW q \in Provinces, NEW r \in Provinces
        PROVE  /\ recruits'[q] # NoOrder /\ recruits'[q] = recruits'[r] => q = r
               /\ builds'[q] # NoOrder /\ builds'[q] = builds'[r] => q = r
    BY <1>7 DEF OwnIds
  <2> QED
    BY <2>1, <2>2, <2>3 DEF BookedOnce
<1> QED
  BY <1>6, <1>7, <1>8, <1>9 DEF EInv

LEMMA ConstructStep ==
    ASSUME EInv, NEW s \in Slots, NEW p \in Provinces, NEW k \in BuildingKinds, Construct(s, p, k)
    PROVE  EInv'
<1> DEFINE o == [id |-> Fresh, by |-> s, kind |-> k]
           e == [what |-> "construct", id |-> Fresh]
<1>1. UNCHANGED <<owner, recruits, buildings>> /\ builds[p] = NoOrder /\ ~HasBuilding(p, k)
      /\ builds' = [builds EXCEPT ![p] = o] /\ completions' = completions \cup {e}
  BY DEF Construct
<1>2. /\ Fresh \in OrderIds
      /\ \A d \in completions : d.id # Fresh
      /\ \A q \in Provinces : builds[q] # NoOrder => builds[q].id # Fresh
  BY FreshId DEF EInv, Construct
<1>3. o \in BuildOrders /\ o # NoOrder /\ o.id = Fresh /\ o.kind = k
  BY <1>2, NoOrderAssumption DEF BuildOrders, Orders, Wares
<1>4. e \in [what : {"recruit", "construct"}, id : OrderIds] /\ e.id = Fresh /\ e.what = "construct"
  BY <1>2
<1> HIDE DEF o, e
<1>5. builds'[p] = o /\ \A q \in Provinces : q # p => builds'[q] = builds[q]
  BY <1>1 DEF EInv, OrderTypes
<1>6. OrderTypes'
  BY <1>1, <1>3, <1>4 DEF EInv, OrderTypes, Buildings
<1>7. OwnIds'
  BY <1>1, <1>2, <1>3, <1>5 DEF EInv, OwnIds
<1>8. OneOfAKind' /\ NotBuiltTwice'
  BY <1>1, <1>3, <1>5 DEF EInv, OneOfAKind, NotBuiltTwice, HasBuilding
<1>9. BookedOnce'
  <2>1. ASSUME NEW d \in completions'
        PROVE  \E q \in Provinces : LET x == IF d.what = "recruit" THEN recruits'[q] ELSE builds'[q] IN
                                    x # NoOrder /\ x.id = d.id
    <3>1. CASE d = e
      BY <1>3, <1>4, <1>5, <3>1
    <3>2. CASE d \in completions
      BY <1>1, <1>5, <3>2 DEF EInv, BookedOnce
    <3> QED
      BY <1>1, <3>1, <3>2
  <2>2. ASSUME NEW q \in Provinces
        PROVE  /\ recruits'[q] # NoOrder => [what |-> "recruit", id |-> recruits'[q].id] \in completions'
               /\ builds'[q] # NoOrder => [what |-> "construct", id |-> builds'[q].id] \in completions'
    <3>1. CASE q # p
      BY <1>1, <1>5, <3>1 DEF EInv, BookedOnce
    <3>2. CASE q = p
      <4>1. e = [what |-> "construct", id |-> builds'[q].id]
        BY <1>3, <1>5, <3>2 DEF e
      <4>2. e \in completions'
        BY <1>1
      <4>3. recruits'[q] # NoOrder => [what |-> "recruit", id |-> recruits'[q].id] \in completions'
        BY <1>1 DEF EInv, BookedOnce
      <4> QED
        BY <4>1, <4>2, <4>3
    <3> QED
      BY <3>1, <3>2
  <2>3. ASSUME NEW q \in Provinces, NEW r \in Provinces
        PROVE  /\ recruits'[q] # NoOrder /\ recruits'[q] = recruits'[r] => q = r
               /\ builds'[q] # NoOrder /\ builds'[q] = builds'[r] => q = r
    BY <1>7 DEF OwnIds
  <2> QED
    BY <2>1, <2>2, <2>3 DEF BookedOnce
<1> QED
  BY <1>6, <1>7, <1>8, <1>9 DEF EInv

LEMMA RecruitDoneStep == ASSUME EInv, NEW e \in completions, RecruitDone(e) PROVE EInv'
<1> DEFINE done == {p \in Provinces : recruits[p] # NoOrder /\ recruits[p].id = e.id}
<1>1. UNCHANGED <<owner, builds, buildings>> /\ e.what = "recruit" /\ completions' = completions \ {e}
      /\ recruits' = [p \in Provinces |-> IF p \in done THEN NoOrder ELSE recruits[p]]
  BY DEF RecruitDone
<1>2. \A p \in Provinces :
         recruits'[p] # NoOrder => recruits'[p] = recruits[p] /\ recruits[p].id # e.id
  BY <1>1
<1>3. \A p \in Provinces : recruits[p] # NoOrder /\ recruits[p].id # e.id => recruits'[p] = recruits[p]
  BY <1>1
<1>4. OrderTypes'
  BY <1>1 DEF EInv, OrderTypes, Buildings
<1> HIDE DEF done
<1>5. OwnIds'
  BY <1>1, <1>2 DEF EInv, OwnIds
<1>6. OneOfAKind' /\ NotBuiltTwice'
  BY <1>1 DEF EInv, OneOfAKind, NotBuiltTwice, HasBuilding
<1>7. e \in [what : {"recruit", "construct"}, id : OrderIds]
  BY DEF EInv, OrderTypes
<1>8. BookedOnce'
  <2>1. ASSUME NEW d \in completions'
        PROVE  \E q \in Provinces : LET x == IF d.what = "recruit" THEN recruits'[q] ELSE builds'[q] IN
                                    x # NoOrder /\ x.id = d.id
    <3>1. d \in completions /\ d # e /\ d \in [what : {"recruit", "construct"}, id : OrderIds]
      BY <1>1 DEF EInv, OrderTypes
    <3>2. CASE d.what = "recruit"
      <4>1. d.id # e.id
        BY <1>1, <1>7, <3>1, <3>2
      <4>2. PICK q \in Provinces : recruits[q] # NoOrder /\ recruits[q].id = d.id
        BY <3>1, <3>2 DEF EInv, BookedOnce
      <4>3. recruits'[q] = recruits[q]
        BY <1>3, <4>1, <4>2
      <4> QED
        BY <3>2, <4>2, <4>3
    <3>3. CASE d.what # "recruit"
      BY <1>1, <3>1, <3>3 DEF EInv, BookedOnce
    <3> QED
      BY <3>2, <3>3
  <2>2. ASSUME NEW q \in Provinces
        PROVE  /\ recruits'[q] # NoOrder => [what |-> "recruit", id |-> recruits'[q].id] \in completions'
               /\ builds'[q] # NoOrder => [what |-> "construct", id |-> builds'[q].id] \in completions'
    <3>1. ASSUME recruits'[q] # NoOrder
          PROVE  [what |-> "recruit", id |-> recruits'[q].id] \in completions'
      <4>1. recruits'[q] = recruits[q] /\ recruits[q].id # e.id /\ recruits[q] # NoOrder
        BY <1>2, <3>1
      <4>2. [what |-> "recruit", id |-> recruits[q].id] \in completions
        BY <4>1 DEF EInv, BookedOnce
      <4>3. [what |-> "recruit", id |-> recruits[q].id].id = recruits[q].id
        OBVIOUS
      <4>4. [what |-> "recruit", id |-> recruits[q].id] # e
        BY <4>1, <4>3
      <4> QED
        BY <1>1, <4>1, <4>2, <4>4
    <3>2. ASSUME builds'[q] # NoOrder
          PROVE  [what |-> "construct", id |-> builds'[q].id] \in completions'
      <4>1. [what |-> "construct", id |-> builds[q].id] \in completions
        BY <1>1, <3>2 DEF EInv, BookedOnce
      <4>2. [what |-> "construct", id |-> builds[q].id].what = "construct"
        OBVIOUS
      <4>3. [what |-> "construct", id |-> builds[q].id] # e
        BY <1>1, <4>2
      <4> QED
        BY <1>1, <4>1, <4>3
    <3> QED
      BY <3>1, <3>2
  <2>3. ASSUME NEW q \in Provinces, NEW r \in Provinces
        PROVE  /\ recruits'[q] # NoOrder /\ recruits'[q] = recruits'[r] => q = r
               /\ builds'[q] # NoOrder /\ builds'[q] = builds'[r] => q = r
    BY <1>5 DEF OwnIds
  <2> QED
    BY <2>1, <2>2, <2>3 DEF BookedOnce
<1> QED
  BY <1>4, <1>5, <1>6, <1>8 DEF EInv

LEMMA ConstructDoneStep == ASSUME EInv, NEW e \in completions, ConstructDone(e) PROVE EInv'
<1> DEFINE done == {p \in Provinces : builds[p] # NoOrder /\ builds[p].id = e.id}
           New(p) == [kind |-> builds[p].kind, prov |-> p, by |-> builds[p].by]
<1>1. UNCHANGED <<owner, recruits>> /\ e.what = "construct" /\ completions' = completions \ {e}
      /\ builds' = [p \in Provinces |-> IF p \in done THEN NoOrder ELSE builds[p]]
      /\ buildings' = buildings \cup {New(p) : p \in {q \in done : owner[q] = builds[q].by}}
  BY DEF ConstructDone
<1>2. \A p \in Provinces :
         builds'[p] # NoOrder => builds'[p] = builds[p] /\ builds[p].id # e.id /\ p \notin done
  BY <1>1
<1>3. \A p \in Provinces : builds[p] # NoOrder /\ builds[p].id # e.id => builds'[p] = builds[p]
  BY <1>1
<1>4. \A p \in done : p \in Provinces /\ builds[p] \in BuildOrders /\ ~HasBuilding(p, builds[p].kind)
  BY DEF EInv, OrderTypes, NotBuiltTwice
<1>5. ASSUME NEW b \in buildings'
      PROVE  b \in buildings \/ (b.prov \in done /\ b = New(b.prov) /\ b.kind = builds[b.prov].kind)
  BY <1>1
<1>6. \A p \in done : New(p) \in Buildings
  <2> TAKE p \in done
  <2>1. builds[p] \in [id : OrderIds, by : Slots, kind : Wares] /\ builds[p].kind \in BuildingKinds
    BY <1>4 DEF BuildOrders, Orders
  <2> QED
    BY <1>4, <2>1 DEF Buildings
<1>7. OrderTypes'
  <2>1. buildings' \subseteq Buildings
    BY <1>1, <1>6 DEF EInv, OrderTypes
  <2> QED
    BY <1>1, <2>1 DEF EInv, OrderTypes
<1> HIDE DEF done, New
<1>8. OwnIds'
  BY <1>1, <1>2 DEF EInv, OwnIds
<1>9. OneOfAKind'
  BY <1>4, <1>5 DEF EInv, OneOfAKind, HasBuilding
<1>10. NotBuiltTwice'
  <2> SUFFICES ASSUME NEW p \in Provinces, builds'[p] # NoOrder,
                      NEW b \in buildings', b.prov = p, b.kind = builds'[p].kind
               PROVE  FALSE
    BY DEF NotBuiltTwice, HasBuilding
  <2>1. builds'[p] = builds[p] /\ p \notin done
    BY <1>2
  <2>2. b \in buildings
    BY <1>5, <2>1
  <2> QED
    BY <2>1, <2>2 DEF EInv, NotBuiltTwice, HasBuilding
<1>11. e \in [what : {"recruit", "construct"}, id : OrderIds]
  BY DEF EInv, OrderTypes
<1>12. BookedOnce'
  <2>1. ASSUME NEW d \in completions'
        PROVE  \E q \in Provinces : LET x == IF d.what = "recruit" THEN recruits'[q] ELSE builds'[q] IN
                                    x # NoOrder /\ x.id = d.id
    <3>1. d \in completions /\ d # e /\ d \in [what : {"recruit", "construct"}, id : OrderIds]
      BY <1>1 DEF EInv, OrderTypes
    <3>2. CASE d.what = "construct"
      <4>1. d.id # e.id
        BY <1>1, <1>11, <3>1, <3>2
      <4>2. PICK q \in Provinces : builds[q] # NoOrder /\ builds[q].id = d.id
        BY <3>1, <3>2 DEF EInv, BookedOnce
      <4>3. builds'[q] = builds[q]
        BY <1>3, <4>1, <4>2
      <4> QED
        BY <3>2, <4>2, <4>3
    <3>3. CASE d.what = "recruit"
      BY <1>1, <3>1, <3>3 DEF EInv, BookedOnce
    <3> QED
      BY <3>1, <3>2, <3>3
  <2>2. ASSUME NEW q \in Provinces
        PROVE  /\ recruits'[q] # NoOrder => [what |-> "recruit", id |-> recruits'[q].id] \in completions'
               /\ builds'[q] # NoOrder => [what |-> "construct", id |-> builds'[q].id] \in completions'
    <3>1. ASSUME builds'[q] # NoOrder
          PROVE  [what |-> "construct", id |-> builds'[q].id] \in completions'
      <4>1. builds'[q] = builds[q] /\ builds[q].id # e.id /\ builds[q] # NoOrder
        BY <1>2, <3>1
      <4>2. [what |-> "construct", id |-> builds[q].id] \in completions
        BY <4>1 DEF EInv, BookedOnce
      <4>3. [what |-> "construct", id |-> builds[q].id].id = builds[q].id
        OBVIOUS
      <4>4. [what |-> "construct", id |-> builds[q].id] # e
        BY <4>1, <4>3
      <4> QED
        BY <1>1, <4>1, <4>2, <4>4
    <3>2. ASSUME recruits'[q] # NoOrder
          PROVE  [what |-> "recruit", id |-> recruits'[q].id] \in completions'
      <4>1. [what |-> "recruit", id |-> recruits[q].id] \in completions
        BY <1>1, <3>2 DEF EInv, BookedOnce
      <4>2. [what |-> "recruit", id |-> recruits[q].id].what = "recruit"
        OBVIOUS
      <4>3. [what |-> "recruit", id |-> recruits[q].id] # e
        BY <1>1, <4>2
      <4> QED
        BY <1>1, <4>1, <4>3
    <3> QED
      BY <3>1, <3>2
  <2>3. ASSUME NEW q \in Provinces, NEW r \in Provinces
        PROVE  /\ recruits'[q] # NoOrder /\ recruits'[q] = recruits'[r] => q = r
               /\ builds'[q] # NoOrder /\ builds'[q] = builds'[r] => q = r
    BY <1>8 DEF OwnIds
  <2> QED
    BY <2>1, <2>2, <2>3 DEF BookedOnce
<1> QED
  BY <1>7, <1>8, <1>9, <1>10, <1>12 DEF EInv

LEMMA EInvInit == EInit => EInv
<1> SUFFICES ASSUME EInit PROVE EInv
  OBVIOUS
<1>1. OrderTypes
  BY EconomyAssumption DEF EInit, OrderTypes
<1>2. OwnIds /\ OneOfAKind /\ NotBuiltTwice
  BY DEF EInit, OwnIds, OneOfAKind, NotBuiltTwice
<1>3. BookedOnce
  BY DEF EInit, BookedOnce
<1> QED
  BY <1>1, <1>2, <1>3 DEF EInv

LEMMA EInvStep == EInv /\ [ENext]_economyVars => EInv'
<1> SUFFICES ASSUME EInv, [ENext]_economyVars PROVE EInv'
  OBVIOUS
<1>1. ASSUME UNCHANGED <<recruits, builds, buildings, completions>>,
             owner' \in [Provinces -> Slots \cup {NoSlot}]
      PROVE  EInv'
  BY <1>1 DEF EInv, OrderTypes, OwnIds, OneOfAKind, NotBuiltTwice, HasBuilding, BookedOnce
<1>2. CASE UNCHANGED economyVars \/ MacroPulse
  BY <1>1, <1>2 DEF economyVars, MacroPulse, EInv, OrderTypes
<1>3. ASSUME NEW s \in Slots, NEW p \in Provinces, ProvinceCaptured(s, p) PROVE EInv'
  BY <1>1, <1>3 DEF ProvinceCaptured, EInv, OrderTypes
<1> QED
  BY <1>2, <1>3, RecruitStep, ConstructStep, RecruitDoneStep, ConstructDoneStep DEF ENext

\* Each order has its one completion on the timeline and each completion its
\* order, whatever is ordered, captured and completed in between: the fresh ids
\* keep a completion from finishing another province's order.
THEOREM EconomyBookedOnce == ESpec => []BookedOnce
<1>1. EInv => BookedOnce
  BY DEF EInv
<1> QED
  BY <1>1, EInvInit, EInvStep, PTL DEF ESpec

\* No province holds two buildings of a kind, although an order outlives the
\* province that gave it: whoever captures it finds it busy until the order ends.
THEOREM EconomyOneOfAKind == ESpec => []OneOfAKind
<1>1. EInv => OneOfAKind
  BY DEF EInv
<1> QED
  BY <1>1, EInvInit, EInvStep, PTL DEF ESpec

------------------------------------------------------------------------------
(***************************************************************************)
(* What the slots have.  The sums of the model as sums over functions.     *)
(***************************************************************************)
BankType == [Slots -> [Goods -> Nat]]

BankOf(b, g) == [s \in Slots |-> b[s][g]]
PriceOf(g) == [o \in Orders |-> Price(o.kind)[g]]
YieldOf(g) == [b \in Buildings |-> Production[b.kind][g]]

LEMMA BankedIsSum == ASSUME NEW b, NEW g PROVE Banked(b, g) = SumOver(BankOf(b, g), Slots)
<1> DEFINE Adds(f) == f = [S \in SUBSET Slots |->
                IF S = {} THEN 0
                ELSE b[CHOOSE x \in S : TRUE][g] + f[S \ {CHOOSE x \in S : TRUE}]]
<1>1. Banked(b, g) = (CHOOSE f : Adds(f))[Slots]
  BY DEF Banked, MapThenSumSet, MapThenFoldSet
<1>2. ASSUME NEW f PROVE Adds(f) <=> AddsUp(f, BankOf(b, g), SUBSET Slots)
  BY DEF AddsUp, Picked, BankOf
<1> HIDE DEF Adds
<1>3. AddsUp(CHOOSE f : Adds(f), BankOf(b, g), SUBSET Slots)
  BY <1>2, AddsUpExists, SeatsAssumption
<1>4. PICK sum : AddsUp(sum, BankOf(b, g), SUBSET Slots) /\ SumOver(BankOf(b, g), Slots) = sum[Slots]
  BY SumDef, SeatsAssumption
<1>5. (CHOOSE f : Adds(f))[Slots] = sum[Slots]
  BY <1>3, <1>4, AddsUpAlike, SeatsAssumption
<1> QED
  BY <1>1, <1>4, <1>5

LEMMA PledgedIsSum ==
    ASSUME NEW O \in SUBSET Orders, IsFiniteSet(O), NEW g
    PROVE  Pledged(g, O) = SumOver(PriceOf(g), O)
<1> DEFINE Adds(f) == f = [S \in SUBSET O |->
                IF S = {} THEN 0
                ELSE Price((CHOOSE x \in S : TRUE).kind)[g] + f[S \ {CHOOSE x \in S : TRUE}]]
<1>1. Pledged(g, O) = (CHOOSE f : Adds(f))[O]
  BY DEF Pledged, MapThenSumSet, MapThenFoldSet
<1>2. ASSUME NEW f PROVE Adds(f) <=> AddsUp(f, PriceOf(g), SUBSET O)
  BY DEF AddsUp, Picked, PriceOf
<1> HIDE DEF Adds
<1>3. AddsUp(CHOOSE f : Adds(f), PriceOf(g), SUBSET O)
  BY <1>2, AddsUpExists
<1>4. PICK sum : AddsUp(sum, PriceOf(g), SUBSET O) /\ SumOver(PriceOf(g), O) = sum[O]
  BY SumDef
<1>5. (CHOOSE f : Adds(f))[O] = sum[O]
  BY <1>3, <1>4, AddsUpAlike
<1> QED
  BY <1>1, <1>4, <1>5

LEMMA YieldIsSum ==
    ASSUME NEW B \in SUBSET Buildings, IsFiniteSet(B), NEW g
    PROVE  Yield(g, B) = SumOver(YieldOf(g), B)
<1> DEFINE Adds(f) == f = [S \in SUBSET B |->
                IF S = {} THEN 0
                ELSE Production[(CHOOSE x \in S : TRUE).kind][g]
                         + f[S \ {CHOOSE x \in S : TRUE}]]
<1>1. Yield(g, B) = (CHOOSE f : Adds(f))[B]
  BY DEF Yield, MapThenSumSet, MapThenFoldSet
<1>2. ASSUME NEW f PROVE Adds(f) <=> AddsUp(f, YieldOf(g), SUBSET B)
  BY DEF AddsUp, Picked, YieldOf
<1> HIDE DEF Adds
<1>3. AddsUp(CHOOSE f : Adds(f), YieldOf(g), SUBSET B)
  BY <1>2, AddsUpExists
<1>4. PICK sum : AddsUp(sum, YieldOf(g), SUBSET B) /\ SumOver(YieldOf(g), B) = sum[B]
  BY SumDef
<1>5. (CHOOSE f : Adds(f))[B] = sum[B]
  BY <1>3, <1>4, AddsUpAlike
<1> QED
  BY <1>1, <1>4, <1>5

LEMMA PriceType ==
    ASSUME NEW k \in Wares, NEW g \in Goods
    PROVE  /\ HalfPrice[k][g] \in Nat /\ Price(k)[g] \in Nat
           /\ Price(k)[g] = 2 * HalfPrice[k][g]
<1>1. HalfPrice[k][g] \in Nat
  BY EconomyAssumption
<1> QED
  BY <1>1 DEF Price

LEMMA PriceOfType ==
    ASSUME NEW g \in Goods, NEW o \in Orders
    PROVE  /\ o.kind \in Wares
           /\ PriceOf(g)[o] = Price(o.kind)[g] /\ PriceOf(g)[o] \in Nat
<1>1. o.kind \in Wares
  BY DEF Orders
<1> QED
  BY <1>1, PriceType DEF PriceOf

LEMMA YieldOfType ==
    ASSUME NEW g \in Goods, NEW b \in Buildings PROVE YieldOf(g)[b] \in Nat
<1>1. b.kind \in BuildingKinds
  BY DEF Buildings
<1> QED
  BY <1>1, EconomyAssumption DEF YieldOf

\* There are finitely many buildings to be had, and orders under way.
LEMMA FiniteBuildings == IsFiniteSet(Buildings)
<1>1. IsFiniteSet(BuildingKinds)
  BY EconomyAssumption, FS_Subset DEF Wares
<1> DEFINE T == BuildingKinds \X Provinces
           U == T \X Slots
           Build == [t \in U |-> [kind |-> t[1][1], prov |-> t[1][2], by |-> t[2]]]
<1>2. IsFiniteSet(T)
  BY <1>1, EconomyAssumption, FS_Product
<1>3. IsFiniteSet(U)
  <2> HIDE DEF T
  <2> QED
    BY <1>2, SeatsAssumption, FS_Product
<1>4. ASSUME NEW b \in Buildings PROVE \E t \in U : b = Build[t]
  <2>1. b.kind \in BuildingKinds /\ b.prov \in Provinces /\ b.by \in Slots
        /\ b = [kind |-> b.kind, prov |-> b.prov, by |-> b.by]
    BY DEF Buildings
  <2>2. <<<<b.kind, b.prov>>, b.by>> \in U /\ Build[<<<<b.kind, b.prov>>, b.by>>] = b
    BY <2>1
  <2> QED
    BY <2>2
<1> HIDE DEF U, Build
<1> QED
  BY <1>3, <1>4, FiniteImage

LEMMA PendingType ==
    ASSUME OrderTypes
    PROVE  /\ Pending \subseteq Orders /\ IsFiniteSet(Pending)
           /\ \A p \in Provinces : /\ recruits[p] # NoOrder => recruits[p] \in Pending
                                   /\ builds[p] # NoOrder => builds[p] \in Pending
           /\ \A o \in Pending : \E p \in Provinces : o = recruits[p] \/ o = builds[p]
<1> DEFINE R == {recruits[p] : p \in Provinces}
           B == {builds[p] : p \in Provinces}
<1>1. IsFiniteSet(R) /\ IsFiniteSet(B)
  <2>1. /\ \A t \in R : \E p \in Provinces : t = recruits[p]
        /\ \A t \in B : \E p \in Provinces : t = builds[p]
    OBVIOUS
  <2> HIDE DEF R, B
  <2> QED
    BY <2>1, EconomyAssumption, FiniteImage
<1>2. IsFiniteSet(R \cup B)
  <2> HIDE DEF R, B
  <2> QED
    BY <1>1, FS_Union
<1>3. Pending \subseteq R \cup B
  BY DEF Pending
<1>4. Pending \subseteq Orders
  BY DEF Pending, OrderTypes, RecruitOrders, BuildOrders
<1>5. IsFiniteSet(Pending)
  <2> HIDE DEF R, B
  <2> QED
    BY <1>2, <1>3, FS_Subset
<1> QED
  BY <1>4, <1>5 DEF Pending

\* An order more, and what its price adds.
LEMMA PledgedAdd ==
    ASSUME NEW O \in SUBSET Orders, IsFiniteSet(O), NEW o \in Orders, o \notin O, NEW g \in Goods
    PROVE  /\ Pledged(g, O \cup {o}) = Pledged(g, O) + Price(o.kind)[g]
           /\ Pledged(g, O) \in Nat /\ Price(o.kind)[g] \in Nat
<1> DEFINE P == O \cup {o}
<1>1. P \in SUBSET Orders /\ o \in P /\ P \ {o} = O
  OBVIOUS
<1>2. IsFiniteSet(P)
  BY FS_AddElement
<1> HIDE DEF P
<1>3. /\ \A x \in P : PriceOf(g)[x] \in Nat
      /\ \A x \in O : PriceOf(g)[x] \in Nat
      /\ PriceOf(g)[o] = Price(o.kind)[g] /\ Price(o.kind)[g] \in Nat
  BY <1>1, PriceOfType
<1>4. SumOver(PriceOf(g), P) = PriceOf(g)[o] + SumOver(PriceOf(g), P \ {o})
  BY <1>1, <1>2, <1>3, SumOut
<1>5. SumOver(PriceOf(g), O) \in Nat
  BY <1>3, SumType
<1>6. Pledged(g, P) = SumOver(PriceOf(g), P) /\ Pledged(g, O) = SumOver(PriceOf(g), O)
  BY <1>1, <1>2, PledgedIsSum
<1>7. Pledged(g, P) = Pledged(g, O) + Price(o.kind)[g]
  BY <1>1, <1>3, <1>4, <1>5, <1>6
<1> QED
  BY <1>3, <1>5, <1>6, <1>7 DEF P

\* A bank in which one slot has more or less.
LEMMA BankedChange ==
    ASSUME NEW b \in BankType, NEW c \in BankType, NEW s \in Slots, NEW g \in Goods,
           \A t \in Slots \ {s} : c[t] = b[t]
    PROVE  /\ Banked(b, g) + c[s][g] = Banked(c, g) + b[s][g]
           /\ Banked(b, g) \in Nat /\ Banked(c, g) \in Nat
<1>1. ASSUME NEW a \in BankType
      PROVE  /\ \A t \in Slots : BankOf(a, g)[t] = a[t][g] /\ BankOf(a, g)[t] \in Nat
             /\ Banked(a, g) = a[s][g] + SumOver(BankOf(a, g), Slots \ {s})
             /\ SumOver(BankOf(a, g), Slots \ {s}) \in Nat
             /\ a[s][g] \in Nat
  <2>1. \A t \in Slots : a[t] \in [Goods -> Nat]
    BY DEF BankType
  <2>2. \A t \in Slots : BankOf(a, g)[t] = a[t][g] /\ BankOf(a, g)[t] \in Nat
    BY <2>1 DEF BankOf
  <2>3. SumOver(BankOf(a, g), Slots) = BankOf(a, g)[s] + SumOver(BankOf(a, g), Slots \ {s})
    BY <2>2, SeatsAssumption, SumOut
  <2>4. SumOver(BankOf(a, g), Slots \ {s}) \in Nat
    BY <2>2, SeatsAssumption, FS_Subset, SumType
  <2> QED
    BY <2>2, <2>3, <2>4, BankedIsSum
<1>2. \A t \in Slots \ {s} : BankOf(b, g)[t] = BankOf(c, g)[t]
  BY DEF BankOf
<1>3. SumOver(BankOf(b, g), Slots \ {s}) = SumOver(BankOf(c, g), Slots \ {s})
  BY <1>2, SeatsAssumption, FS_Subset, SumSame
<1>4. /\ Banked(b, g) = b[s][g] + SumOver(BankOf(b, g), Slots \ {s})
      /\ SumOver(BankOf(b, g), Slots \ {s}) \in Nat /\ b[s][g] \in Nat
  BY <1>1
<1>5. Banked(c, g) = c[s][g] + SumOver(BankOf(c, g), Slots \ {s}) /\ c[s][g] \in Nat
  BY <1>1
<1> QED
  BY <1>3, <1>4, <1>5

LEMMA PaidType ==
    ASSUME bank \in BankType, NEW s \in Slots, NEW k \in Wares,
           CanPay(s, Price(k)), Pay(s, Price(k))
    PROVE  /\ bank' \in BankType
           /\ \A g \in Goods : bank'[s][g] = bank[s][g] - Price(k)[g]
           /\ \A t \in Slots \ {s} : bank'[t] = bank[t]
<1> DEFINE rest == [g \in Goods |-> bank[s][g] - Price(k)[g]]
<1>1. bank[s] \in [Goods -> Nat]
  BY DEF BankType
<1>2. bank' = [bank EXCEPT ![s] = rest]
  BY DEF Pay
<1>3. rest \in [Goods -> Nat]
  <2> SUFFICES ASSUME NEW g \in Goods PROVE bank[s][g] - Price(k)[g] \in Nat
    OBVIOUS
  <2>1. bank[s][g] \in Nat /\ Price(k)[g] \in Nat /\ bank[s][g] >= Price(k)[g]
    BY <1>1, PriceType DEF CanPay
  <2> QED
    BY <2>1
<1>4. \A g \in Goods : rest[g] = bank[s][g] - Price(k)[g]
  OBVIOUS
<1> HIDE DEF rest
<1> QED
  BY <1>2, <1>3, <1>4 DEF BankType

LEMMA Paid ==
    ASSUME bank \in BankType, NEW s \in Slots, NEW k \in Wares,
           CanPay(s, Price(k)), Pay(s, Price(k)), NEW g \in Goods
    PROVE  /\ Banked(bank, g) = Banked(bank', g) + Price(k)[g]
           /\ Banked(bank', g) \in Nat
<1>1. /\ bank' \in BankType /\ bank'[s][g] = bank[s][g] - Price(k)[g]
      /\ \A t \in Slots \ {s} : bank'[t] = bank[t]
  BY PaidType
<1>2. /\ Banked(bank, g) + bank'[s][g] = Banked(bank', g) + bank[s][g]
      /\ Banked(bank, g) \in Nat /\ Banked(bank', g) \in Nat
  BY <1>1, BankedChange
<1>3. bank[s][g] \in Nat /\ Price(k)[g] \in Nat
  BY PriceType DEF BankType
<1>4. Banked(bank, g) + (bank[s][g] - Price(k)[g]) = Banked(bank', g) + bank[s][g]
  BY <1>1, <1>2
<1>5. Banked(bank, g) = Banked(bank', g) + Price(k)[g]
  BY <1>2, <1>3, <1>4
<1> QED
  BY <1>2, <1>5

LEMMA RefundedType ==
    ASSUME bank \in BankType, NEW s \in Slots, NEW k \in Wares, Refund(s, k)
    PROVE  /\ bank' \in BankType
           /\ \A g \in Goods : bank'[s][g] = bank[s][g] + HalfPrice[k][g]
           /\ \A t \in Slots \ {s} : bank'[t] = bank[t]
<1> DEFINE more == [g \in Goods |-> bank[s][g] + HalfPrice[k][g]]
<1>1. bank[s] \in [Goods -> Nat]
  BY DEF BankType
<1>2. bank' = [bank EXCEPT ![s] = more]
  BY DEF Refund
<1>3. more \in [Goods -> Nat]
  BY <1>1, PriceType
<1>4. \A g \in Goods : more[g] = bank[s][g] + HalfPrice[k][g]
  OBVIOUS
<1> HIDE DEF more
<1> QED
  BY <1>2, <1>3, <1>4 DEF BankType

LEMMA Refunded ==
    ASSUME bank \in BankType, NEW s \in Slots, NEW k \in Wares, Refund(s, k), NEW g \in Goods
    PROVE  /\ Banked(bank', g) = Banked(bank, g) + HalfPrice[k][g]
           /\ Banked(bank, g) \in Nat
<1>1. /\ bank' \in BankType /\ bank'[s][g] = bank[s][g] + HalfPrice[k][g]
      /\ \A t \in Slots \ {s} : bank'[t] = bank[t]
  BY RefundedType
<1>2. /\ Banked(bank, g) + bank'[s][g] = Banked(bank', g) + bank[s][g]
      /\ Banked(bank, g) \in Nat /\ Banked(bank', g) \in Nat
  BY <1>1, BankedChange
<1>3. bank[s][g] \in Nat /\ HalfPrice[k][g] \in Nat
  BY PriceType DEF BankType
<1> QED
  BY <1>1, <1>2, <1>3

\* What a slot earns.
LEMMA RevenueIs ==
    ASSUME OrderTypes, NEW s, NEW g \in Goods
    PROVE  /\ Revenue(s, g) = Share[g] * Cardinality({p \in Provinces : owner[p] = s})
                                + SumOver(YieldOf(g), {b \in buildings : b.by = s})
           /\ Share[g] * Cardinality({p \in Provinces : owner[p] = s}) \in Nat
           /\ SumOver(YieldOf(g), {b \in buildings : b.by = s}) \in Nat
           /\ Revenue(s, g) \in Nat
<1> DEFINE B == {b \in buildings : b.by = s}
           P == {p \in Provinces : owner[p] = s}
<1>1. B \in SUBSET Buildings
  BY DEF OrderTypes
<1>2. IsFiniteSet(B) /\ \A b \in B : YieldOf(g)[b] \in Nat
  <2> HIDE DEF B
  <2> QED
    BY <1>1, FiniteBuildings, FS_Subset, YieldOfType
<1>3. SumOver(YieldOf(g), B) \in Nat /\ Yield(g, B) = SumOver(YieldOf(g), B)
  <2> HIDE DEF B
  <2> QED
    BY <1>1, <1>2, SumType, YieldIsSum
<1>4. P \subseteq Provinces
  OBVIOUS
<1>5. Cardinality(P) \in Nat
  <2> HIDE DEF P
  <2> QED
    BY <1>4, EconomyAssumption, FS_Subset, FS_CardinalityType
<1>6. Share[g] \in Nat
  BY EconomyAssumption
<1>7. Revenue(s, g) = Share[g] * Cardinality(P) + Yield(g, B)
  BY DEF Revenue
<1>8. Share[g] * Cardinality(P) \in Nat
  <2> HIDE DEF P
  <2> QED
    BY <1>5, <1>6
<1> HIDE DEF B, P
<1>9. Revenue(s, g) \in Nat
  BY <1>3, <1>7, <1>8
<1> QED
  BY <1>3, <1>7, <1>8, <1>9 DEF B, P

LEMMA PulsePays ==
    ASSUME OrderTypes, bank \in BankType, MacroPulse
    PROVE  bank' \in BankType /\ \A s \in Slots, g \in Goods : bank'[s][g] = bank[s][g] + Revenue(s, g)
<1>1. bank' = [s \in Slots |-> [g \in Goods |-> bank[s][g] + Revenue(s, g)]]
  BY DEF MacroPulse
<1>2. \A s \in Slots, g \in Goods : bank[s][g] + Revenue(s, g) \in Nat
  <2> TAKE s \in Slots, g \in Goods
  <2>1. bank[s] \in [Goods -> Nat] /\ Revenue(s, g) \in Nat
    BY RevenueIs DEF BankType
  <2> QED
    BY <2>1
<1> QED
  BY <1>1, <1>2 DEF BankType

\* A pulse pays every province that has an owner, and every building, once.
LEMMA PulseTotal ==
    ASSUME OrderTypes, bank \in BankType, MacroPulse, NEW g \in Goods
    PROVE  Banked(bank', g) =
              Banked(bank, g) + Share[g] * Cardinality({p \in Provinces : owner[p] # NoSlot})
                              + Yield(g, buildings)
<1> DEFINE Held(s) == {p \in Provinces : owner[p] = s}
           Built(s) == {b \in buildings : b.by = s}
           share == [p \in Provinces |-> Share[g]]
           builder == [b \in buildings |-> b.by]
           land == [s \in Slots |-> SumOver(share, Held(s))]
           works == [s \in Slots |-> SumOver(YieldOf(g), Built(s))]
           income == [s \in Slots |-> land[s] + works[s]]
<1>1. Share[g] \in Nat /\ \A p \in Provinces : share[p] = Share[g]
  BY EconomyAssumption
<1>2. ASSUME NEW S \in SUBSET Provinces PROVE SumOver(share, S) = Share[g] * Cardinality(S)
  <2>1. IsFiniteSet(S)
    BY EconomyAssumption, FS_Subset
  <2> HIDE DEF share
  <2> QED
    BY <1>1, <2>1, SumConstant
<1>3. buildings \subseteq Buildings /\ IsFiniteSet(buildings)
      /\ \A b \in buildings : YieldOf(g)[b] \in Nat
  BY FiniteBuildings, FS_Subset, YieldOfType DEF OrderTypes
<1>4. \A s \in Slots : /\ land[s] = Share[g] * Cardinality(Held(s))
                       /\ works[s] = SumOver(YieldOf(g), Built(s))
  BY <1>2
<1>5. \A s \in Slots : /\ land[s] \in Nat /\ works[s] \in Nat
                       /\ Revenue(s, g) = land[s] + works[s]
  <2> TAKE s \in Slots
  <2>1. /\ Revenue(s, g) = Share[g] * Cardinality(Held(s)) + SumOver(YieldOf(g), Built(s))
        /\ Share[g] * Cardinality(Held(s)) \in Nat
        /\ SumOver(YieldOf(g), Built(s)) \in Nat
    BY RevenueIs
  <2> HIDE DEF land, works, Held, Built
  <2> QED
    BY <1>4, <2>1
<1>6. SumOver(land, Slots) = SumOver(share, {p \in Provinces : owner[p] # NoSlot})
  <2> DEFINE held == [s \in Slots |-> Held(s)]
             taken == {p \in Provinces : owner[p] # NoSlot}
  <2>1. /\ \A s \in Slots : held[s] \subseteq Provinces /\ land[s] = SumOver(share, held[s])
        /\ \A s \in Slots : \A p \in Provinces : p \in held[s] <=> owner[p] = s
        /\ taken \in SUBSET Provinces
    OBVIOUS
  <2>2. \A p \in Provinces : p \in taken <=> owner[p] \in Slots
    BY SeatsAssumption DEF OrderTypes
  <2>3. \A p \in Provinces : share[p] \in Nat
    BY <1>1
  <2> HIDE DEF land, share, held, taken
  <2>4. IsFiniteSet(Provinces) /\ IsFiniteSet(Slots)
    BY EconomyAssumption, SeatsAssumption
  <2>5. SumOver(land, Slots) = SumOver(share, taken)
    BY <2>1, <2>2, <2>3, <2>4, SumByClass
  <2> QED
    BY <2>5 DEF taken
<1>7. SumOver(works, Slots) = SumOver(YieldOf(g), buildings)
  <2> DEFINE built == [s \in Slots |-> Built(s)]
  <2>1. /\ \A s \in Slots : built[s] \subseteq buildings /\ works[s] = SumOver(YieldOf(g), built[s])
        /\ \A s \in Slots : \A b \in buildings : b \in built[s] <=> builder[b] = s
    OBVIOUS
  <2>2. \A b \in buildings : b \in buildings <=> builder[b] \in Slots
    BY <1>3 DEF Buildings
  <2>3. buildings \in SUBSET buildings
    OBVIOUS
  <2>4. IsFiniteSet(buildings) /\ IsFiniteSet(Slots)
    BY <1>3, SeatsAssumption
  <2> DEFINE made == YieldOf(g)
  <2>5. /\ \A b \in buildings : made[b] \in Nat
        /\ \A s \in Slots : built[s] \subseteq buildings /\ works[s] = SumOver(made, built[s])
    BY <1>3, <2>1
  <2>6. \A s \in Slots : \A b \in buildings : b \in built[s] <=> builder[b] = s
    BY <2>1
  <2> HIDE DEF works, builder, built, made
  <2>7. SumOver(works, Slots) = SumOver(made, buildings)
    BY <2>2, <2>3, <2>4, <2>5, <2>6, SumByClass
  <2> QED
    BY <2>7 DEF made
<1>8. /\ SumOver(land, Slots) = Share[g] * Cardinality({p \in Provinces : owner[p] # NoSlot})
       /\ SumOver(works, Slots) = Yield(g, buildings)
  <2>1. {p \in Provinces : owner[p] # NoSlot} \in SUBSET Provinces
    OBVIOUS
  <2> HIDE DEF land, works, share, builder
  <2> QED
    BY <1>2, <1>3, <1>6, <1>7, <2>1, YieldIsSum
<1>9. SumOver(income, Slots) = SumOver(land, Slots) + SumOver(works, Slots)
  <2>1. \A s \in Slots : income[s] = land[s] + works[s]
    OBVIOUS
  <2> HIDE DEF land, works, income
  <2> QED
    BY <1>5, <2>1, SeatsAssumption, SumPlus
<1>10. \A s \in Slots : income[s] = Revenue(s, g) /\ income[s] \in Nat
  <2>1. \A s \in Slots : income[s] = land[s] + works[s]
    OBVIOUS
  <2> HIDE DEF land, works, income
  <2> QED
    BY <1>5, <2>1
<1>11. \A s \in Slots : /\ BankOf(bank, g)[s] \in Nat
                        /\ BankOf(bank', g)[s] = BankOf(bank, g)[s] + income[s]
  <2> HIDE DEF income
  <2> TAKE s \in Slots
  <2>1. bank[s] \in [Goods -> Nat]
    BY DEF BankType
  <2>2. bank'[s][g] = bank[s][g] + Revenue(s, g)
    BY PulsePays
  <2> QED
    BY <1>10, <2>1, <2>2 DEF BankOf
<1>12. SumOver(BankOf(bank', g), Slots) = SumOver(BankOf(bank, g), Slots) + SumOver(income, Slots)
  <2> HIDE DEF income
  <2> QED
    BY <1>10, <1>11, SeatsAssumption, SumPlus
<1>13. /\ SumOver(BankOf(bank, g), Slots) \in Nat
       /\ SumOver(land, Slots) \in Nat /\ SumOver(works, Slots) \in Nat
  <2> HIDE DEF land, works
  <2> QED
    BY <1>5, <1>11, SeatsAssumption, SumType
<1> HIDE DEF land, works, income
<1> QED
  BY <1>8, <1>9, <1>12, <1>13, BankedIsSum

------------------------------------------------------------------------------
(***************************************************************************)
(* What a step does to the wealth.                                         *)
(***************************************************************************)
Rich == EInv /\ bank \in BankType

\* An order o is booked: it joins what is pending, and its price leaves the bank.
LEMMA Ordered ==
    ASSUME Rich, OrderTypes', NEW s \in Slots, NEW o \in Orders, o \notin Pending,
           Pending' = Pending \cup {o}, CanPay(s, Price(o.kind)), Pay(s, Price(o.kind)),
           NEW g \in Goods
    PROVE  Wealth(g)' = Wealth(g)
<1>1. Pending \in SUBSET Orders /\ IsFiniteSet(Pending)
  BY PendingType DEF Rich, EInv
<1>2. /\ Pledged(g, Pending') = Pledged(g, Pending) + Price(o.kind)[g]
      /\ Pledged(g, Pending) \in Nat /\ Price(o.kind)[g] \in Nat
  BY <1>1, PledgedAdd
<1>3. o.kind \in Wares
  BY DEF Orders
<1>4. /\ Banked(bank, g) = Banked(bank', g) + Price(o.kind)[g]
      /\ Banked(bank', g) \in Nat
  BY <1>3, Paid DEF Rich
<1>5. /\ Wealth(g) = Banked(bank, g) + Pledged(g, Pending)
      /\ Wealth(g)' = Banked(bank', g) + Pledged(g, Pending')
  BY DEF Wealth
<1> QED
  BY <1>2, <1>4, <1>5

\* An order o is done with: at most half of its price comes back.
LEMMA Finished ==
    ASSUME Rich, OrderTypes', NEW o \in Pending, o \notin Pending', Pending = Pending' \cup {o},
           bank' = bank \/ \E s \in Slots : Refund(s, o.kind),
           NEW g \in Goods
    PROVE  Wealth(g)' <= Wealth(g)
<1>1. Pending \in SUBSET Orders /\ IsFiniteSet(Pending)
  BY PendingType DEF Rich, EInv
<1>2. o \in Orders /\ Pending' \in SUBSET Orders /\ IsFiniteSet(Pending')
  BY <1>1, FS_Subset
<1>3. /\ Pledged(g, Pending) = Pledged(g, Pending') + Price(o.kind)[g]
      /\ Pledged(g, Pending') \in Nat /\ Price(o.kind)[g] \in Nat
  BY <1>2, PledgedAdd
<1>4. o.kind \in Wares
  BY <1>2 DEF Orders
<1>5. HalfPrice[o.kind][g] \in Nat /\ Price(o.kind)[g] = 2 * HalfPrice[o.kind][g]
  BY <1>4, PriceType
<1>6. /\ Wealth(g) = Banked(bank, g) + Pledged(g, Pending)
      /\ Wealth(g)' = Banked(bank', g) + Pledged(g, Pending')
  BY DEF Wealth
<1>7. CASE bank' = bank
  <2>1. Banked(bank, g) \in Nat
    <3>1. \A t \in Slots : BankOf(bank, g)[t] \in Nat
      BY DEF Rich, BankType, BankOf
    <3> QED
      BY <3>1, SeatsAssumption, SumType, BankedIsSum
  <2> QED
    BY <1>3, <1>6, <1>7, <2>1 DEF Rich
<1>8. ASSUME NEW s \in Slots, Refund(s, o.kind)
      PROVE  Wealth(g)' <= Wealth(g)
  <2>1. /\ Banked(bank', g) = Banked(bank, g) + HalfPrice[o.kind][g]
        /\ Banked(bank, g) \in Nat
    BY <1>4, <1>8, Refunded DEF Rich
  <2> QED
    BY <1>3, <1>5, <1>6, <2>1
<1> QED
  BY <1>7, <1>8

LEMMA RecruitWealth ==
    ASSUME Rich, NEW s \in Slots, NEW p \in Provinces, NEW k \in UnitKinds, Recruit(s, p, k),
           NEW g \in Goods
    PROVE  Wealth(g)' = Wealth(g)
<1> DEFINE o == [id |-> Fresh, by |-> s, kind |-> k]
<1>1. /\ builds' = builds /\ recruits[p] = NoOrder /\ recruits' = [recruits EXCEPT ![p] = o]
      /\ CanPay(s, Price(k)) /\ Pay(s, Price(k))
  BY DEF Recruit
<1>2. OrderTypes /\ OrderTypes'
  BY RecruitStep DEF Rich, EInv
<1>3. Fresh \in OrderIds /\ Fresh \notin InUse
  BY DEF Recruit, Fresh
<1>4. o \in Orders /\ o.kind = k /\ o.id = Fresh
  BY <1>3 DEF Orders, Wares
<1> HIDE DEF o
<1>5. o \notin Pending /\ o # NoOrder
  BY <1>3, <1>4, NoOrderAssumption DEF InUse
<1>6. recruits'[p] = o /\ \A q \in Provinces : q # p => recruits'[q] = recruits[q]
  BY <1>1, <1>2 DEF OrderTypes
<1>7. Pending' = Pending \cup {o}
  BY <1>1, <1>5, <1>6 DEF Pending
<1> QED
  BY <1>1, <1>2, <1>4, <1>5, <1>7, Ordered

LEMMA ConstructWealth ==
    ASSUME Rich, NEW s \in Slots, NEW p \in Provinces, NEW k \in BuildingKinds, Construct(s, p, k),
           NEW g \in Goods
    PROVE  Wealth(g)' = Wealth(g)
<1> DEFINE o == [id |-> Fresh, by |-> s, kind |-> k]
<1>1. /\ recruits' = recruits /\ builds[p] = NoOrder /\ builds' = [builds EXCEPT ![p] = o]
      /\ CanPay(s, Price(k)) /\ Pay(s, Price(k))
  BY DEF Construct
<1>2. OrderTypes /\ OrderTypes'
  BY ConstructStep DEF Rich, EInv
<1>3. Fresh \in OrderIds /\ Fresh \notin InUse
  BY DEF Construct, Fresh
<1>4. o \in Orders /\ o.kind = k /\ o.id = Fresh
  BY <1>3 DEF Orders, Wares
<1> HIDE DEF o
<1>5. o \notin Pending /\ o # NoOrder
  BY <1>3, <1>4, NoOrderAssumption DEF InUse
<1>6. builds'[p] = o /\ \A q \in Provinces : q # p => builds'[q] = builds[q]
  BY <1>1, <1>2 DEF OrderTypes
<1>7. Pending' = Pending \cup {o}
  BY <1>1, <1>5, <1>6 DEF Pending
<1> QED
  BY <1>1, <1>2, <1>4, <1>5, <1>7, Ordered

\* An order of one sort is not of the other.
LEMMA OrderSorts ==
    ASSUME OrderTypes, NEW p \in Provinces, NEW q \in Provinces, recruits[p] # NoOrder
    PROVE  recruits[p] # builds[q]
BY EconomyAssumption DEF OrderTypes, RecruitOrders, BuildOrders

LEMMA RecruitDoneWealth ==
    ASSUME Rich, NEW e \in completions, RecruitDone(e), NEW g \in Goods
    PROVE  Wealth(g)' <= Wealth(g)
<1> DEFINE done == {p \in Provinces : recruits[p] # NoOrder /\ recruits[p].id = e.id}
<1>1. /\ builds' = builds /\ e.what = "recruit"
      /\ recruits' = [p \in Provinces |-> IF p \in done THEN NoOrder ELSE recruits[p]]
      /\ bank' = bank \/ \E p \in done : Refund(recruits[p].by, recruits[p].kind)
  BY DEF RecruitDone
<1>2. OrderTypes /\ OrderTypes' /\ OwnIds
  BY RecruitDoneStep DEF Rich, EInv
<1>3. PICK p \in Provinces : recruits[p] # NoOrder /\ recruits[p].id = e.id
  BY <1>1 DEF Rich, EInv, BookedOnce
<1>4. done = {p}
  BY <1>2, <1>3 DEF OwnIds
<1> DEFINE o == recruits[p]
<1>5. o \in Pending /\ o \in RecruitOrders /\ o.by \in Slots
  <2>1. o \in RecruitOrders
    BY <1>2, <1>3 DEF OrderTypes
  <2>2. o \in [id : OrderIds, by : Slots, kind : Wares]
    BY <2>1 DEF RecruitOrders, Orders
  <2> QED
    BY <1>3, <2>1, <2>2 DEF Pending
<1>6. recruits'[p] = NoOrder /\ \A q \in Provinces : q # p => recruits'[q] = recruits[q]
  BY <1>1, <1>4
<1>7. \A q \in Provinces : q # p => recruits[q] # o
  BY <1>2, <1>3 DEF OwnIds
<1>8. \A q \in Provinces : builds[q] # o
  BY <1>2, <1>3, OrderSorts
<1>9. bank' = bank \/ Refund(o.by, o.kind)
  BY <1>1, <1>4
<1> HIDE DEF done
<1>10. o \notin Pending' /\ Pending = Pending' \cup {o}
  BY <1>1, <1>3, <1>5, <1>6, <1>7, <1>8 DEF Pending
<1> HIDE DEF o
<1> QED
  BY <1>2, <1>5, <1>9, <1>10, Finished

LEMMA ConstructDoneWealth ==
    ASSUME Rich, NEW e \in completions, ConstructDone(e), NEW g \in Goods
    PROVE  Wealth(g)' <= Wealth(g)
<1> DEFINE done == {p \in Provinces : builds[p] # NoOrder /\ builds[p].id = e.id}
<1>1. /\ recruits' = recruits /\ e.what = "construct" /\ bank' = bank
      /\ builds' = [p \in Provinces |-> IF p \in done THEN NoOrder ELSE builds[p]]
  BY DEF ConstructDone
<1>2. OrderTypes /\ OrderTypes' /\ OwnIds
  BY ConstructDoneStep DEF Rich, EInv
<1>3. PICK p \in Provinces : builds[p] # NoOrder /\ builds[p].id = e.id
  BY <1>1 DEF Rich, EInv, BookedOnce
<1>4. done = {p}
  BY <1>2, <1>3 DEF OwnIds
<1> DEFINE o == builds[p]
<1>5. o \in Pending
  BY <1>3 DEF Pending
<1>6. builds'[p] = NoOrder /\ \A q \in Provinces : q # p => builds'[q] = builds[q]
  BY <1>1, <1>4
<1>7. \A q \in Provinces : q # p => builds[q] # o
  BY <1>2, <1>3 DEF OwnIds
<1>8. \A q \in Provinces : recruits[q] # o
  BY <1>2, <1>3, OrderSorts
<1> HIDE DEF done
<1>9. o \notin Pending' /\ Pending = Pending' \cup {o}
  BY <1>1, <1>3, <1>5, <1>6, <1>7, <1>8 DEF Pending
<1> HIDE DEF o
<1> QED
  BY <1>1, <1>2, <1>5, <1>9, Finished

LEMMA WealthType == ASSUME Rich, NEW g \in Goods PROVE Wealth(g) \in Nat
<1>1. Banked(bank, g) \in Nat
  <2>1. \A t \in Slots : BankOf(bank, g)[t] \in Nat
    BY DEF Rich, BankType, BankOf
  <2> QED
    BY <2>1, SeatsAssumption, SumType, BankedIsSum
<1>2. Pledged(g, Pending) \in Nat
  <2>1. Pending \in SUBSET Orders /\ IsFiniteSet(Pending)
    BY PendingType DEF Rich, EInv
  <2>2. \A o \in Pending : PriceOf(g)[o] \in Nat
    BY <2>1, PriceOfType
  <2> QED
    BY <2>1, <2>2, SumType, PledgedIsSum
<1> QED
  BY <1>1, <1>2 DEF Wealth

\* What one step leaves the slots together with.
Gains(g) ==
    IF MacroPulse
    THEN Wealth(g)' = Wealth(g) + Share[g] * Cardinality({p \in Provinces : owner[p] # NoSlot})
                                + Yield(g, buildings)
    ELSE Wealth(g)' <= Wealth(g)

LEMMA PulseGains ==
    ASSUME Rich, MacroPulse, NEW g \in Goods
    PROVE  Gains(g)
<1>1. OrderTypes /\ bank \in BankType
  BY DEF Rich, EInv
<1>2. Pending' = Pending
  BY DEF MacroPulse, Pending
<1> DEFINE taken == {p \in Provinces : owner[p] # NoSlot}
           gain == Share[g] * Cardinality(taken)
<1>3. Banked(bank', g) = Banked(bank, g) + gain + Yield(g, buildings)
  BY <1>1, PulseTotal
<1>4. /\ Banked(bank, g) \in Nat /\ Pledged(g, Pending) \in Nat
  <2>1. \A t \in Slots : BankOf(bank, g)[t] \in Nat
    BY <1>1 DEF BankType, BankOf
  <2>2. Pending \in SUBSET Orders /\ IsFiniteSet(Pending)
    BY <1>1, PendingType
  <2>3. \A o \in Pending : PriceOf(g)[o] \in Nat
    BY <2>2, PriceOfType
  <2> QED
    BY <2>1, <2>2, <2>3, SeatsAssumption, SumType, BankedIsSum, PledgedIsSum
<1>5. gain \in Nat
  <2>1. taken \subseteq Provinces
    OBVIOUS
  <2> HIDE DEF taken
  <2>2. Cardinality(taken) \in Nat
    BY <2>1, EconomyAssumption, FS_Subset, FS_CardinalityType
  <2> QED
    BY <2>2, EconomyAssumption
<1>6. Yield(g, buildings) \in Nat
  <2>1. buildings \in SUBSET Buildings /\ IsFiniteSet(buildings)
    BY <1>1, FiniteBuildings, FS_Subset DEF OrderTypes
  <2> QED
    BY <2>1, YieldOfType, SumType, YieldIsSum
<1>7. /\ Wealth(g) = Banked(bank, g) + Pledged(g, Pending)
      /\ Wealth(g)' = Banked(bank', g) + Pledged(g, Pending')
  BY DEF Wealth
<1>8. Wealth(g)' = Wealth(g) + gain + Yield(g, buildings)
  <2> HIDE DEF gain
  <2> QED
    BY <1>2, <1>3, <1>4, <1>5, <1>6, <1>7
<1> QED
  BY <1>3, <1>8 DEF Gains

LEMMA BankStep == ASSUME Rich, [ENext]_economyVars PROVE bank' \in BankType
<1>1. bank \in BankType /\ OrderTypes
  BY DEF Rich, EInv
<1>2. ASSUME NEW s \in Slots, NEW p \in Provinces,
             \/ \E k \in UnitKinds : Recruit(s, p, k)
             \/ \E k \in BuildingKinds : Construct(s, p, k)
      PROVE  bank' \in BankType
  <2>1. PICK k \in Wares : CanPay(s, Price(k)) /\ Pay(s, Price(k))
    BY <1>2 DEF Recruit, Construct, Wares
  <2> QED
    BY <1>1, <2>1, PaidType
<1>3. ASSUME NEW e \in completions, RecruitDone(e) PROVE bank' \in BankType
  <2>1. bank' = bank \/ \E p \in Provinces : /\ recruits[p] # NoOrder
                                             /\ Refund(recruits[p].by, recruits[p].kind)
    BY <1>3 DEF RecruitDone
  <2>2. \A p \in Provinces : recruits[p] # NoOrder =>
           recruits[p].by \in Slots /\ recruits[p].kind \in Wares
    BY <1>1 DEF OrderTypes, RecruitOrders, Orders
  <2> QED
    BY <1>1, <2>1, <2>2, RefundedType
<1>4. CASE MacroPulse
  BY <1>1, <1>4, PulsePays
<1>5. CASE bank' = bank
  BY <1>1, <1>5
<1> QED
  BY <1>2, <1>3, <1>4, <1>5 DEF ENext, ConstructDone, ProvinceCaptured, economyVars

LEMMA RichStep ==
    ASSUME Rich, [ENext]_economyVars
    PROVE  Rich' /\ \A g \in Goods : Gains(g)
<1>1. Rich'
  BY EInvStep, BankStep DEF Rich
<1>2. ASSUME NEW g \in Goods, ~MacroPulse PROVE Wealth(g)' <= Wealth(g)
  <2>1. Wealth(g) \in Nat
    BY WealthType
  <2>2. CASE UNCHANGED <<bank, recruits, builds>>
    <3>1. Wealth(g)' = Wealth(g)
      BY <2>2 DEF Wealth, Pending
    <3> QED
      BY <2>1, <3>1
  <2>3. ASSUME NEW s \in Slots, NEW p \in Provinces,
               \/ \E k \in UnitKinds : Recruit(s, p, k)
               \/ \E k \in BuildingKinds : Construct(s, p, k)
        PROVE  Wealth(g)' <= Wealth(g)
    <3>1. Wealth(g)' = Wealth(g)
      BY <2>3, RecruitWealth, ConstructWealth
    <3> QED
      BY <2>1, <3>1
  <2>4. ASSUME NEW e \in completions, RecruitDone(e) \/ ConstructDone(e)
        PROVE  Wealth(g)' <= Wealth(g)
    BY <2>4, RecruitDoneWealth, ConstructDoneWealth
  <2> QED
    BY <1>2, <2>2, <2>3, <2>4 DEF ENext, ProvinceCaptured, economyVars
<1> QED
  BY <1>1, <1>2, PulseGains DEF Gains

LEMMA RichInit == EInit => Rich
BY EInvInit, EconomyAssumption DEF EInit, Rich, BankType

\* Banks never go below zero although Pay deducts without looking, orders and
\* buildings keep their types, and no province has two buildings of a kind.
THEOREM EconomyTypeOK == ESpec => []ETypeOK
<1>1. Rich => ETypeOK
  BY DEF Rich, EInv, OrderTypes, OneOfAKind, BankType, ETypeOK, RecruitOrders, BuildOrders
<1>2. Rich /\ [ENext]_economyVars => Rich'
  BY RichStep
<1> QED
  BY <1>1, <1>2, RichInit, PTL DEF ESpec

\* Goods come from pulses only, and a pulse pays every province that is owned
\* and every building to exactly one slot: no chain of orders, captures,
\* completions and refunds leaves the slots together with more.
THEOREM EconomyNothingMinted == ESpec => NothingMinted
<1>1. Rich /\ [ENext]_economyVars => Rich' /\ \A g \in Goods : Gains(g)
  BY RichStep
<1>2. (\A g \in Goods : Gains(g)) <=>
      \A g \in Goods :
        IF MacroPulse
        THEN Wealth(g)' = Wealth(g) + Share[g] * Cardinality({p \in Provinces : owner[p] # NoSlot})
                                    + Yield(g, buildings)
        ELSE Wealth(g)' <= Wealth(g)
  BY DEF Gains
<1> QED
  BY <1>1, <1>2, RichInit, PTL DEF ESpec, NothingMinted
================================================================================

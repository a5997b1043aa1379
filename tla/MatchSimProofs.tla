--------------------------- MODULE MatchSimProofs ---------------------------
(***************************************************************************)
(* For every map, every set of units and every order of the events of an   *)
(* instant: a unit has one valid arrival and it comes, a match ends once   *)
(* and is cleaned up once, a province goes to a unit that stands in it, and*)
(* pooling the units of allies makes no strength and loses none.           *)
(***************************************************************************)
EXTENDS MatchSim, NatFacts, FiniteSetTheorems

UnitRecord == [owner : Slots, hp : Nat \ {0}, prov : Provinces, x : Int,
               path : Seq(LegType), left : Int, way : Seq(Targets)]

EventRecord == [kind : {"arrival"}, unit : {{u} : u \in Units}, at : Int, live : BOOLEAN]
                   \cup [kind : {"cleanup"}, unit : {{}}, at : Int, live : BOOLEAN]

BattleRecord == [prov : Provinces, at : Int, todo : SUBSET Units,
                 champions : UNION {[S -> Units] : S \in SUBSET Slots}]

STypes ==
    /\ DOMAIN units \subseteq Units
    /\ units \in [DOMAIN units -> UnitRecord]
    /\ timeline \subseteq EventRecord
    /\ owner \in [Provinces -> Slots \cup {NoSlot}]
    /\ matchStatus \in {"active", "ended"} /\ winners \subseteq Slots
    /\ cleaned \in BOOLEAN
    /\ pc \in {"idle", "drain", "gather", "fight", "over"}

\* Who is at the battle.  Before it starts everyone at rest there is either
\* still to be looked at or a champion; a champion stands there and is listed
\* by its coalition; one that fell is listed only beside another.
Accounted ==
    Stationary(units, field.prov, field.at)
        \subseteq field.todo \cup {field.champions[c] : c \in DOMAIN field.champions}

Listed ==
    \A c \in DOMAIN field.champions :
        /\ D!CoalitionID(c) = c
        /\ field.champions[c] \in DOMAIN units =>
              LET r == units[field.champions[c]] IN
              r.prov = field.prov /\ D!CoalitionID(r.owner) = c

Fallen == {c \in DOMAIN field.champions : field.champions[c] \notin DOMAIN units}

BattleInv ==
    /\ pc \notin {"gather", "fight"} => field = NoField
    /\ pc \in {"gather", "fight"} => field \in BattleRecord /\ Accounted /\ Listed
    /\ pc = "gather" =>
          /\ field.todo # {}
          /\ field.todo \subseteq Stationary(units, field.prov, field.at)
          /\ Fallen = {}
          /\ \A c \in DOMAIN field.champions : field.champions[c] \notin field.todo
    /\ pc = "fight" =>
          /\ field.todo = {} /\ DOMAIN field.champions # {}
          /\ Fallen # {} => Cardinality(DOMAIN field.champions) > 1

Cleanups == {e \in timeline : e.kind = "cleanup"}

EndInv ==
    \/ matchStatus = "active" /\ ~cleaned /\ Cleanups = {}
    \/ matchStatus = "ended" /\ ~cleaned /\ \E e \in Cleanups : Cleanups = {e}
    \/ matchStatus = "ended" /\ cleaned /\ Cleanups = {}

SInv == STypes /\ OneValidArrival /\ UnderWayArrives /\ BattleInv /\ EndInv

------------------------------------------------------------------------------
(***************************************************************************)
(* Coalitions, for the registry of this module (see DiplomacyProofs).      *)
(***************************************************************************)
LEMMA CoalitionClosed ==
    ASSUME NEW a \in Slots
    PROVE  /\ D!Coalition(a) \in SUBSET Slots
           /\ a \in D!Coalition(a)
           /\ D!ClosedUnderAlliance(D!Coalition(a))
<1>1. D!Coalition(a) \in SUBSET Slots /\ a \in D!Coalition(a)
  BY DEF D!Coalition
<1>2. ASSUME NEW x \in D!Coalition(a), NEW y \in Slots, D!Stance(x, y) = "alliance"
      PROVE  y \in D!Coalition(a)
  <2>1. ASSUME NEW C \in SUBSET Slots, a \in C, D!ClosedUnderAlliance(C)
        PROVE  y \in C
    <3>1. x \in C
      BY <1>2, <2>1 DEF D!Coalition
    <3> QED
      BY <1>2, <2>1, <3>1 DEF D!ClosedUnderAlliance
  <2> QED
    BY <2>1 DEF D!Coalition
<1> QED
  BY <1>1, <1>2 DEF D!ClosedUnderAlliance

LEMMA CoalitionLeast ==
    ASSUME NEW a \in Slots, NEW C \in SUBSET Slots, a \in C, D!ClosedUnderAlliance(C)
    PROVE  D!Coalition(a) \subseteq C
BY DEF D!Coalition

\* The coalition of a member is the same coalition.
LEMMA CoalitionSame ==
    ASSUME NEW a \in Slots, NEW b \in D!Coalition(a)
    PROVE  D!Coalition(b) = D!Coalition(a)
<1>0. b \in Slots
  BY DEF D!Coalition
<1>1. D!Coalition(b) \subseteq D!Coalition(a)
  BY <1>0, CoalitionClosed, CoalitionLeast
<1>2. a \in D!Coalition(b)
  <2> SUFFICES ASSUME a \notin D!Coalition(b) PROVE FALSE
    OBVIOUS
  <2> DEFINE Rest == D!Coalition(a) \ D!Coalition(b)
  <2>1. ASSUME NEW x \in Rest, NEW y \in Slots, D!Stance(x, y) = "alliance"
        PROVE  y \in Rest
    <3>1. x \in Slots /\ y \in D!Coalition(a)
      BY <2>1, CoalitionClosed DEF D!ClosedUnderAlliance
    <3>2. D!Stance(y, x) = "alliance"
      <4>1. {x, y} = {y, x}
        OBVIOUS
      <4> QED
        BY <2>1, <4>1 DEF D!Stance
    <3>3. y \in D!Coalition(b) => x \in D!Coalition(b)
      BY <1>0, <3>1, <3>2, CoalitionClosed DEF D!ClosedUnderAlliance
    <3> QED
      BY <2>1, <3>1, <3>3
  <2>2. D!ClosedUnderAlliance(Rest)
    BY <2>1 DEF D!ClosedUnderAlliance
  <2>3. a \in Rest /\ Rest \in SUBSET Slots
    BY CoalitionClosed
  <2>4. D!Coalition(a) \subseteq Rest
    BY <2>2, <2>3, CoalitionLeast
  <2> QED
    BY <1>0, <2>4, CoalitionClosed
<1>3. D!Coalition(a) \subseteq D!Coalition(b)
  BY <1>0, <1>2, CoalitionClosed, CoalitionLeast
<1> QED
  BY <1>1, <1>3

\* The slot that names a coalition names its own.
LEMMA CoalitionIDFixed ==
    ASSUME NEW a \in Slots
    PROVE  /\ D!CoalitionID(a) \in D!Coalition(a)
           /\ D!CoalitionID(a) \in Slots
           /\ D!CoalitionID(D!CoalitionID(a)) = D!CoalitionID(a)
<1>1. D!Coalition(a) \subseteq Nat /\ D!Coalition(a) # {}
  BY CoalitionClosed, SeatsAssumption
<1>2. \E leader \in D!Coalition(a) : \A t \in D!Coalition(a) : leader <= t
  BY <1>1, LeastNat
<1>3. D!CoalitionID(a) \in D!Coalition(a)
  BY <1>2 DEF D!CoalitionID
<1>4. D!Coalition(D!CoalitionID(a)) = D!Coalition(a)
  BY <1>3, CoalitionSame
<1>5. D!CoalitionID(D!CoalitionID(a)) = D!CoalitionID(a)
  BY <1>4 DEF D!CoalitionID
<1> QED
  BY <1>3, <1>5, CoalitionClosed

\* Two slots whose coalitions have one name are of one coalition.
LEMMA CoalitionIDTells ==
    ASSUME NEW a \in Slots, NEW b \in Slots, D!CoalitionID(a) = D!CoalitionID(b)
    PROVE  SameCoalition(a, b)
<1>1. D!Coalition(a) = D!Coalition(b)
  BY CoalitionIDFixed, CoalitionSame
<1> QED
  BY <1>1, CoalitionClosed DEF SameCoalition

\* While the treaties stand, so do the names of the coalitions.
LEMMA CoalitionIDKept ==
    ASSUME treaty' = treaty
    PROVE  \A a : D!CoalitionID(a)' = D!CoalitionID(a)
BY DEF D!CoalitionID, D!Coalition, D!ClosedUnderAlliance, D!Stance

------------------------------------------------------------------------------
(***************************************************************************)
(* Routes.                                                                 *)
(***************************************************************************)
LEMMA CoordinateType == Coordinates \subseteq Int /\ (\A p \in Provinces : Place[p] \in Coordinates)
BY MatchSimAssumption DEF Coordinates

LEMMA WalkType ==
    ASSUME NEW w \in Walks
    PROVE  w \in Seq(Provinces) /\ Len(w) \in Nat /\ Len(w) > 0
<1>1. PICK S \in SUBSET Provinces : w \in SetToSeqs(S)
  BY DEF Walks, SetToAllKPermutations
<1>2. IsFiniteSet(S)
  BY MatchSimAssumption, FS_Subset
<1>3. Cardinality(S) \in Nat
  BY <1>2, FS_CardinalityType
<1>4. w \in [1..Cardinality(S) -> S]
  BY <1>1 DEF SetToSeqs
<1>5. w \in Seq(Provinces)
  BY <1>3, <1>4
<1>6. w # <<>>
  BY DEF Walks
<1> QED
  BY <1>5, <1>6

LEMMA LegsType ==
    ASSUME NEW x \in Int, NEW w \in Walks, NEW t \in Targets
    PROVE  Legs(x, w, t) \in Seq(LegType) /\ Legs(x, w, t) # <<>>
<1> DEFINE hops == [i \in 1..(Len(w) - 1) |->
                      [from |-> w[i], to |-> w[i + 1],
                       fx |-> IF i = 1 THEN x ELSE Place[w[i]], tx |-> Place[w[i + 1]]]]
           end == IF hops = <<>> THEN x ELSE Place[w[Len(w)]]
           last == [from |-> w[Len(w)], to |-> t.goal, fx |-> end, tx |-> t.x]
<1>1. w \in Seq(Provinces) /\ Len(w) \in Nat /\ Len(w) > 0
  BY WalkType
<1>2. \A i \in 1..Len(w) : w[i] \in Provinces /\ Place[w[i]] \in Coordinates /\ Place[w[i]] \in Int
  <2> HIDE DEF hops, end, last
  <2> TAKE i \in 1..Len(w)
  <2>1. w[i] \in Provinces
    BY <1>1
  <2> QED
    BY <2>1, CoordinateType
<1>3. t.goal \in Provinces /\ t.x \in Coordinates
  BY MatchSimAssumption DEF Coordinates
<1>4. hops \in Seq(LegType)
  <2>1. \A i \in 1..(Len(w) - 1) : i \in 1..Len(w) /\ i + 1 \in 1..Len(w)
    BY <1>1
  <2>2. \A i \in 1..(Len(w) - 1) : hops[i] \in LegType
    BY <1>2, <2>1 DEF LegType
  <2>3. Len(w) - 1 \in Nat
    BY <1>1
  <2> HIDE DEF hops
  <2>4. hops = [i \in 1..(Len(w) - 1) |-> hops[i]]
    BY DEF hops
  <2> QED
    BY <2>2, <2>3, <2>4
<1>5. end \in Int
  BY <1>1, <1>2
<1>6. last \in LegType
  BY <1>1, <1>2, <1>3, <1>5 DEF LegType
<1>7. Legs(x, w, t) = IF hops # <<>> /\ end = t.x THEN hops ELSE Append(hops, last)
  BY DEF Legs
<1> HIDE DEF hops, end, last
<1>8. Append(hops, last) \in Seq(LegType) /\ Len(Append(hops, last)) = Len(hops) + 1
  BY <1>4, <1>6
<1>9. Len(hops) \in Nat /\ Len(<<>>) = 0
  BY <1>4
<1>10. Append(hops, last) # <<>>
  BY <1>8, <1>9
<1> QED
  BY <1>4, <1>7, <1>8, <1>10

LEMMA RoutesType ==
    ASSUME NEW x \in Int, NEW from, NEW to, NEW t \in Targets, NEW legs \in Routes(x, from, to, t)
    PROVE  /\ legs \in Seq(LegType) /\ legs # <<>>
           /\ legs[1] \in LegType /\ Travel(legs[1]) \in Nat \ {0}
           /\ Tail(legs) \in Seq(LegType)
<1>1. legs \in Seq(LegType) /\ legs # <<>>
  BY LegsType DEF Routes, Shortest
<1>2. legs[1] \in LegType /\ Tail(legs) \in Seq(LegType)
  BY <1>1
<1>3. legs[1].fx \in Int /\ legs[1].tx \in Int
  BY <1>2, CoordinateType DEF LegType
<1>4. Travel(legs[1]) \in Nat \ {0}
  BY <1>3 DEF Travel, Dist
<1> QED
  BY <1>1, <1>2, <1>4

------------------------------------------------------------------------------
(***************************************************************************)
(* Units and the timeline, as any units U and any timeline T.              *)
(***************************************************************************)
Typed(U) == DOMAIN U \subseteq Units /\ U \in [DOMAIN U -> UnitRecord]

Events(T) == T \subseteq EventRecord

Live(T, u) == {e \in T : e.live /\ e.unit = {u}}

\* e is the one valid arrival of u.
Sole(T, u, e) == Live(T, u) = {e}

CleanupsOf(T) == {e \in T : e.kind = "cleanup"}

\* A unit with a leg to go and its arrival, the only valid one.
Marches(U, T, u) ==
    U[u].path # <<>> /\ Live(T, u) = {Arrival(u, U[u].left)}

Scheduled(U, T) ==
    /\ \A u \in Units : \A e, f \in Live(T, u) :
          e = f /\ (u \in DOMAIN U => U[u].path # <<>> /\ e.at = U[u].left)
    /\ \A u \in DOMAIN U : IsMoving(U[u], 0) => Live(T, u) # {}

LEMMA ScheduledDef ==
    /\ OneValidArrival /\ UnderWayArrives <=> Scheduled(units, timeline)
    /\ (OneValidArrival /\ UnderWayArrives)' <=> Scheduled(units', timeline')
BY DEF OneValidArrival, UnderWayArrives, Scheduled, Live, LiveArrivals, IsMoving

LEMMA EventFields ==
    ASSUME NEW e \in EventRecord
    PROVE  /\ e.at \in Int /\ e.live \in BOOLEAN /\ e.unit \subseteq Units
           /\ e.kind \in {"arrival", "cleanup"}
           /\ e.kind = "arrival" => \E u \in Units : e.unit = {u}
           /\ e.kind = "cleanup" => e.unit = {}
BY DEF EventRecord

LEMMA ArrivalFields ==
    ASSUME NEW u \in Units, NEW at \in Int
    PROVE  /\ Arrival(u, at) \in EventRecord /\ Arrival(u, at).kind = "arrival"
           /\ Arrival(u, at).unit = {u} /\ Arrival(u, at).live /\ Arrival(u, at).at = at
           /\ CleanupEvent(at) \in EventRecord /\ CleanupEvent(at).kind = "cleanup"
           /\ CleanupEvent(at).unit = {}
BY DEF Arrival, CleanupEvent, EventRecord

\* From U and T to V and W one unit changes its plans, or leaves: the others
\* keep theirs.
Replans(U, T, V, W, u) ==
    /\ DOMAIN V \subseteq DOMAIN U
    /\ \A v \in DOMAIN V \ {u} : V[v].path = U[v].path /\ V[v].left = U[v].left
    /\ \A v \in Units \ {u} : Live(W, v) = Live(T, v)
    /\ \/ Live(W, u) = {} /\ (u \in DOMAIN V => ~IsMoving(V[u], 0))
       \/ u \in DOMAIN V /\ Marches(V, W, u) /\ V[u].left \in Int

LEMMA OneReplans ==
    ASSUME NEW U, NEW T, Typed(U), Scheduled(U, T), NEW u \in Units, NEW V, NEW W,
           Replans(U, T, V, W, u)
    PROVE  Scheduled(V, W)
<1>1. ASSUME NEW v \in Units, NEW e \in Live(W, v), NEW f \in Live(W, v)
      PROVE  e = f /\ (v \in DOMAIN V => V[v].path # <<>> /\ e.at = V[v].left)
  <2>1. CASE v # u
    BY <1>1, <2>1 DEF Scheduled, Replans
  <2>2. CASE v = u
    BY <1>1, <2>2, ArrivalFields DEF Marches, Replans
  <2> QED
    BY <2>1, <2>2
<1>2. ASSUME NEW v \in DOMAIN V, IsMoving(V[v], 0) PROVE Live(W, v) # {}
  <2>1. CASE v # u
    BY <1>2, <2>1 DEF Scheduled, IsMoving, Typed, Replans
  <2>2. CASE v = u
    BY <1>2, <2>2 DEF Marches, Replans
  <2> QED
    BY <2>1, <2>2
<1> QED
  BY <1>1, <1>2 DEF Scheduled

\* Bumping a version makes the arrivals of one unit stale and no other's.
LEMMA BumpedType ==
    ASSUME NEW T, Events(T), NEW u \in Units
    PROVE  /\ Events(Bumped(T, u))
           /\ Live(Bumped(T, u), u) = {}
           /\ \A v \in Units \ {u} : Live(Bumped(T, u), v) = Live(T, v)
           /\ CleanupsOf(Bumped(T, u)) = CleanupsOf(T)
<1> DEFINE Stale(e) == [e EXCEPT !.live = FALSE]
<1>1. \A e \in T : e.unit = {u} =>
         /\ Stale(e) \in EventRecord /\ Stale(e).unit = {u} /\ ~Stale(e).live
         /\ Stale(e).kind = e.kind /\ e.kind = "arrival"
  BY DEF EventRecord, Events
<1>2. Bumped(T, u) = {IF e.unit = {u} THEN Stale(e) ELSE e : e \in T}
  BY DEF Bumped
<1> HIDE DEF Stale
<1>3. \A d \in Bumped(T, u) :
         \/ d \in T /\ d.unit # {u}
         \/ d \in EventRecord /\ d.unit = {u} /\ ~d.live /\ d.kind = "arrival"
  BY <1>1, <1>2 DEF Events
<1>4. \A e \in T : e.unit # {u} => e \in Bumped(T, u)
  BY <1>2
<1>5. Events(Bumped(T, u))
  BY <1>3 DEF Events
<1>6. Live(Bumped(T, u), u) = {}
  BY <1>3 DEF Live
<1>7. \A v \in Units \ {u} : Live(Bumped(T, u), v) = Live(T, v)
  <2> TAKE v \in Units \ {u}
  <2>1. {v} # {u}
    OBVIOUS
  <2> QED
    BY <1>3, <1>4, <2>1 DEF Live
<1>8. CleanupsOf(Bumped(T, u)) = CleanupsOf(T)
  <2>1. \A e \in T : e.kind = "cleanup" => e.unit # {u}
    BY EventFields DEF Events
  <2>2. \A d \in Bumped(T, u) : d.kind = "cleanup" => d \in T
    BY <1>3
  <2> QED
    BY <1>4, <2>1, <2>2 DEF CleanupsOf
<1> QED
  BY <1>5, <1>6, <1>7, <1>8

\* Scheduling an arrival for a unit that has no valid one.
LEMMA ArrivalAdded ==
    ASSUME NEW T, Events(T), NEW u \in Units, NEW at \in Int, Live(T, u) = {}
    PROVE  /\ Events(T \cup {Arrival(u, at)})
           /\ Live(T \cup {Arrival(u, at)}, u) = {Arrival(u, at)}
           /\ \A v \in Units \ {u} : Live(T \cup {Arrival(u, at)}, v) = Live(T, v)
           /\ CleanupsOf(T \cup {Arrival(u, at)}) = CleanupsOf(T)
<1> DEFINE a == Arrival(u, at)
<1>1. a \in EventRecord /\ a.kind = "arrival" /\ a.unit = {u} /\ a.live
  BY ArrivalFields
<1> HIDE DEF a
<1>2. \A v \in Units \ {u} : {v} # {u}
  OBVIOUS
<1>3. /\ Events(T \cup {a})
      /\ Live(T \cup {a}, u) = {a}
      /\ \A v \in Units \ {u} : Live(T \cup {a}, v) = Live(T, v)
      /\ CleanupsOf(T \cup {a}) = CleanupsOf(T)
  <2>1. Live(T \cup {a}, u) = {a}
    BY <1>1 DEF Live
  <2>2. \A v \in Units \ {u} : Live(T \cup {a}, v) = Live(T, v)
    BY <1>1, <1>2 DEF Live
  <2> QED
    BY <1>1, <2>1, <2>2 DEF Events, CleanupsOf
<1> QED
  BY <1>3 DEF a

\* Rescheduling: the new arrival is the only valid one.
LEMMA Rescheduled ==
    ASSUME NEW T, Events(T), NEW u \in Units, NEW at \in Int
    PROVE  /\ Events(Bumped(T, u) \cup {Arrival(u, at)})
           /\ Live(Bumped(T, u) \cup {Arrival(u, at)}, u) = {Arrival(u, at)}
           /\ \A v \in Units \ {u} : Live(Bumped(T, u) \cup {Arrival(u, at)}, v) = Live(T, v)
           /\ CleanupsOf(Bumped(T, u) \cup {Arrival(u, at)}) = CleanupsOf(T)
<1> DEFINE B == Bumped(T, u)
<1>1. /\ Events(B) /\ Live(B, u) = {}
      /\ \A v \in Units \ {u} : Live(B, v) = Live(T, v)
      /\ CleanupsOf(B) = CleanupsOf(T)
  BY BumpedType
<1> HIDE DEF B
<1>2. /\ Events(B \cup {Arrival(u, at)})
      /\ Live(B \cup {Arrival(u, at)}, u) = {Arrival(u, at)}
      /\ \A v \in Units \ {u} : Live(B \cup {Arrival(u, at)}, v) = Live(B, v)
      /\ CleanupsOf(B \cup {Arrival(u, at)}) = CleanupsOf(B)
  BY <1>1, ArrivalAdded
<1> QED
  BY <1>1, <1>2 DEF B

\* Taking the one valid arrival of a unit off the timeline.
LEMMA ArrivalTaken ==
    ASSUME NEW T, Events(T), NEW u \in Units, NEW e, Sole(T, u, e)
    PROVE  /\ Events(T \ {e})
           /\ Live(T \ {e}, u) = {}
           /\ \A v \in Units \ {u} : Live(T \ {e}, v) = Live(T, v)
           /\ CleanupsOf(T \ {e}) = CleanupsOf(T)
<1>1. e \in T /\ e.unit = {u} /\ e.kind # "cleanup"
  BY EventFields DEF Live, Events, Sole
<1>2. \A v \in Units \ {u} : {v} # {u}
  OBVIOUS
<1>3. Live(T \ {e}, u) = {}
  BY DEF Live, Sole
<1>4. \A v \in Units \ {u} : Live(T \ {e}, v) = Live(T, v)
  BY <1>1, <1>2 DEF Live
<1> QED
  BY <1>1, <1>3, <1>4 DEF Events, CleanupsOf

------------------------------------------------------------------------------
LEMMA UnitFields ==
    ASSUME NEW r \in UnitRecord
    PROVE  /\ r.owner \in Slots /\ r.hp \in Nat \ {0} /\ r.prov \in Provinces /\ r.x \in Int
           /\ r.path \in Seq(LegType) /\ r.left \in Int /\ r.way \in Seq(Targets)
BY DEF UnitRecord

LEMMA LegFields ==
    ASSUME NEW r \in UnitRecord, r.path # <<>>
    PROVE  /\ r.path[1] \in LegType /\ Tail(r.path) \in Seq(LegType)
           /\ r.path[1].from \in Provinces /\ r.path[1].to \in Provinces
           /\ r.path[1].fx \in Int /\ r.path[1].tx \in Int
           /\ Travel(r.path[1]) \in Nat \ {0}
<1>1. r.path \in Seq(LegType)
  BY UnitFields
<1>2. r.path[1] \in LegType /\ Tail(r.path) \in Seq(LegType)
  BY <1>1
<1>3. r.path[1].from \in Provinces /\ r.path[1].to \in Provinces
      /\ r.path[1].fx \in Int /\ r.path[1].tx \in Int
  BY <1>2, CoordinateType DEF LegType
<1> QED
  BY <1>2, <1>3 DEF Travel, Dist

LEMMA DestType == ASSUME NEW r \in UnitRecord PROVE Dest(r) \in Provinces
BY UnitFields, LegFields DEF Dest

LEMMA PositionType ==
    ASSUME NEW r \in UnitRecord, NEW at \in Int
    PROVE  PositionAt(r, at) \in Int
<1>1. CASE r.path = <<>>
  BY <1>1, UnitFields DEF PositionAt
<1>2. CASE r.path # <<>>
  <2> DEFINE leg == r.path[1]
             togo == IF at >= r.left THEN 0 ELSE
                     IF r.left - at < Dist(leg.fx, leg.tx) THEN r.left - at
                     ELSE Dist(leg.fx, leg.tx)
  <2>1. leg.fx \in Int /\ leg.tx \in Int /\ r.left \in Int
    BY <1>2, UnitFields, LegFields
  <2>2. PositionAt(r, at) = IF leg.fx < leg.tx THEN leg.tx - togo ELSE leg.tx + togo
    BY <1>2 DEF PositionAt
  <2> HIDE DEF leg
  <2>3. togo \in Int
    BY <2>1 DEF Dist
  <2> HIDE DEF togo
  <2> QED
    BY <2>1, <2>2, <2>3
<1> QED
  BY <1>1, <1>2

\* A unit sent on a path that is not empty.
LEMMA OnLegsType ==
    ASSUME NEW r \in UnitRecord, NEW legs \in Seq(LegType), legs # <<>>, NEW start \in Int
    PROVE  /\ OnLegs(r, legs, start) \in UnitRecord
           /\ OnLegs(r, legs, start).path = legs
           /\ OnLegs(r, legs, start).left = start + Travel(legs[1])
           /\ OnLegs(r, legs, start).owner = r.owner
           /\ start + Travel(legs[1]) \in Int
<1>1. legs[1] \in LegType
  OBVIOUS
<1>2. legs[1].from \in Provinces /\ legs[1].fx \in Int /\ legs[1].tx \in Int
  BY <1>1, CoordinateType DEF LegType
<1>3. start + Travel(legs[1]) \in Int
  BY <1>2 DEF Travel, Dist
<1> QED
  BY <1>2, <1>3 DEF OnLegs, UnitRecord

\* What comes of taking a waypoint off the queue.
LEMMA NextWaypointType ==
    ASSUME NEW r \in UnitRecord, r.way # <<>>, NEW at \in Int, NEW next \in NextWaypoint(r, at)
    PROVE  /\ next.unit \in UnitRecord
           /\ next.started \in BOOLEAN
           /\ next.started => next.unit.path # <<>>
           /\ ~next.started => next.unit = [r EXCEPT !.way = Tail(@)]
<1> DEFINE popped == [r EXCEPT !.way = Tail(@)]
<1>1. Head(r.way) \in Targets /\ Tail(r.way) \in Seq(Targets)
  BY UnitFields
<1>2. popped \in UnitRecord
  BY <1>1 DEF UnitRecord
<1>3. PICK legs \in Routes(r.x, r.prov, Dest(r), Head(r.way)) :
         next = IF RouteBlocked(r.owner, legs) THEN [started |-> FALSE, unit |-> popped]
                ELSE [started |-> TRUE, unit |-> OnLegs(popped, legs, at)]
  BY DEF NextWaypoint
<1>4. legs \in Seq(LegType) /\ legs # <<>>
  BY <1>1, <1>3, UnitFields, RoutesType
<1>5. OnLegs(popped, legs, at) \in UnitRecord /\ OnLegs(popped, legs, at).path # <<>>
  BY <1>2, <1>4, OnLegsType
<1> HIDE DEF popped
<1>6. CASE RouteBlocked(r.owner, legs)
  BY <1>2, <1>3, <1>6 DEF popped
<1>7. CASE ~RouteBlocked(r.owner, legs)
  BY <1>3, <1>5, <1>7
<1> QED
  BY <1>6, <1>7

LEMMA PutType ==
    ASSUME NEW U, Typed(U), NEW u \in DOMAIN U, NEW r \in UnitRecord
    PROVE  /\ Typed([U EXCEPT ![u] = r])
           /\ DOMAIN [U EXCEPT ![u] = r] = DOMAIN U
           /\ [U EXCEPT ![u] = r][u] = r
           /\ \A v \in DOMAIN U \ {u} : [U EXCEPT ![u] = r][v] = U[v]
BY DEF Typed

\* A unit whose path is done rests in its province.
LEMMA AtRestThere ==
    ASSUME NEW U, NEW u \in DOMAIN U, U[u].path = <<>>, NEW at
    PROVE  u \in Stationary(U, U[u].prov, at)
BY DEF Stationary, Dest, IsMoving

------------------------------------------------------------------------------
(***************************************************************************)
(* The victory check and the start of a battle.                            *)
(***************************************************************************)
LEMMA CheckVictoryStep ==
    ASSUME NEW own \in [Provinces -> Slots \cup {NoSlot}], NEW T, Events(T), NEW at \in Int,
           matchStatus \in {"active", "ended"}, winners \subseteq Slots,
           EndInv, CleanupsOf(T) = Cleanups, cleaned' = cleaned,
           CheckVictory(own, T, at)
    PROVE  /\ Events(timeline')
           /\ \A u \in Units : Live(timeline', u) = Live(T, u)
           /\ matchStatus' \in {"active", "ended"} /\ winners' \subseteq Slots
           /\ EndInv'
<1> DEFINE holders == {own[p] : p \in Capitals} \ {NoSlot}
           e == CleanupEvent(at + CleanupDelay)
           Won == matchStatus = "active" /\ holders # {} /\ \A a, b \in holders : SameCoalition(a, b)
<1>1. holders \subseteq Slots
  BY MatchSimAssumption
<1>2. at + CleanupDelay \in Int
  BY MatchSimAssumption
<1>3. e \in EventRecord /\ e.kind = "cleanup" /\ e.unit = {}
  BY <1>2 DEF CleanupEvent, EventRecord
<1>4. /\ Won => matchStatus' = "ended" /\ winners' = holders /\ timeline' = T \cup {e}
      /\ ~Won => timeline' = T /\ matchStatus' = matchStatus /\ winners' = winners
  BY DEF CheckVictory
<1>5. CASE Won
  <2>1. Events(T \cup {e})
    BY <1>3 DEF Events
  <2>2. \A u \in Units : Live(T \cup {e}, u) = Live(T, u)
    BY <1>3 DEF Live
  <2>3. Cleanups' = {e}
    BY <1>3, <1>4, <1>5 DEF EndInv, Cleanups, CleanupsOf
  <2>4. EndInv'
    BY <1>4, <1>5, <2>3 DEF EndInv
  <2> QED
    BY <1>1, <1>4, <1>5, <2>1, <2>2, <2>4
<1>6. CASE ~Won
  BY <1>4, <1>6 DEF EndInv, Cleanups, CleanupsOf
<1> QED
  BY <1>5, <1>6

\* resolveProvince starts with all that stand in the province still to be
\* looked at, the unit that has arrived among them.
LEMMA EngageStep ==
    ASSUME NEW U, Typed(U), NEW u \in DOMAIN U, U[u].path = <<>>, NEW at \in Int,
           Engage(U, U[u].prov, at)
    PROVE  BattleInv' /\ units' = U /\ pc' = "gather"
<1> DEFINE p == U[u].prov
           here == Stationary(U, p, at)
<1>1. p \in Provinces
  BY UnitFields DEF Typed
<1>2. u \in here /\ here \subseteq DOMAIN U
  BY AtRestThere DEF Stationary
<1>3. /\ units' = U /\ pc' = "gather"
      /\ field' = [prov |-> p, at |-> at, todo |-> here, champions |-> <<>>]
  BY DEF Engage
<1> HIDE DEF here, p
<1>4. <<>> \in UNION {[S -> Units] : S \in SUBSET Slots} /\ DOMAIN <<>> = {}
  <2>1. <<>> \in [{} -> Units] /\ DOMAIN <<>> = {}
    OBVIOUS
  <2> QED
    BY <2>1
<1>5. field' \in BattleRecord
  BY <1>1, <1>2, <1>3, <1>4 DEF BattleRecord, Typed
<1>6. Stationary(units', field'.prov, field'.at) = here
  BY <1>3 DEF here, p, Stationary, Dest, IsMoving
<1>7. Accounted' /\ Listed' /\ Fallen' = {}
  BY <1>3, <1>4, <1>6 DEF Accounted, Listed, Fallen, Stationary, Dest, IsMoving
<1>8. field'.todo = here /\ DOMAIN field'.champions = {}
  BY <1>3, <1>4
<1> QED
  BY <1>2, <1>3, <1>5, <1>6, <1>7, <1>8 DEF BattleInv, Stationary, Dest, IsMoving

------------------------------------------------------------------------------
(***************************************************************************)
(* The steps outside a battle, one by one.                                 *)
(***************************************************************************)
\* A step that is not about a battle, and leaves units and timeline typed and
\* in agreement.
LEMMA Replanned ==
    ASSUME SInv, NEW u \in DOMAIN units, NEW r \in UnitRecord,
           units' = [units EXCEPT ![u] = r],
           Events(timeline'),
           \A v \in Units \ {u} : Live(timeline', v) = Live(timeline, v),
           \/ Live(timeline', u) = {} /\ ~IsMoving(r, 0)
           \/ r.path # <<>> /\ Live(timeline', u) = {Arrival(u, r.left)}
    PROVE  Typed(units') /\ Scheduled(units', timeline')
<1>1. Typed(units) /\ Scheduled(units, timeline)
  BY ScheduledDef DEF SInv, STypes, Typed
<1>2. Typed(units') /\ DOMAIN units' = DOMAIN units /\ units'[u] = r
      /\ \A v \in DOMAIN units \ {u} : units'[v] = units[v]
  BY <1>1, PutType
<1>3. u \in Units /\ r.left \in Int
  BY <1>1, UnitFields DEF Typed
<1>4. DOMAIN units' \subseteq DOMAIN units
      /\ \A v \in DOMAIN units' \ {u} : units'[v].path = units[v].path /\ units'[v].left = units[v].left
  BY <1>2
<1>5. \/ Live(timeline', u) = {} /\ (u \in DOMAIN units' => ~IsMoving(units'[u], 0))
      \/ u \in DOMAIN units' /\ Marches(units', timeline', u) /\ units'[u].left \in Int
  BY <1>2, <1>3 DEF Marches
<1>6. Replans(units, timeline, units', timeline', u)
  BY <1>4, <1>5 DEF Replans
<1>7. Scheduled(units', timeline')
  BY <1>1, <1>3, <1>6, OneReplans
<1> QED
  BY <1>2, <1>7

\* What is left to show of a command or an event that starts no battle.
LEMMA Assembled ==
    ASSUME SInv, Typed(units'), Scheduled(units', timeline'), Events(timeline'),
           owner' \in [Provinces -> Slots \cup {NoSlot}],
           matchStatus' \in {"active", "ended"}, winners' \subseteq Slots, cleaned' \in BOOLEAN, EndInv',
           pc' \in {"idle", "drain", "over"}, field' = NoField
    PROVE  SInv'
<1>1. STypes'
  BY DEF STypes, Typed, Events
<1>2. (OneValidArrival /\ UnderWayArrives)'
  BY ScheduledDef
<1>3. BattleInv'
  BY DEF BattleInv
<1> QED
  BY <1>1, <1>2, <1>3 DEF SInv

LEMMA MoveStep ==
    ASSUME SInv, NEW u \in Units, NEW t \in Targets, Move(u, t)
    PROVE  SInv'
<1>1. u \in DOMAIN units /\ pc = "idle" /\ pc' = "drain"
      /\ UNCHANGED <<owner, diplomacy, ending, field>>
  BY DEF Move
<1> DEFINE r == units[u]
           kept == [r EXCEPT !.way = <<>>]
<1>2. PICK legs \in Routes(PositionAt(r, 0), r.prov, Dest(r), t) :
         /\ units' = [units EXCEPT ![u] = OnLegs(kept, legs, 0)]
         /\ timeline' = Bumped(timeline, u) \cup {Arrival(u, Travel(legs[1]))}
  BY DEF Move
<1>3. r \in UnitRecord
  BY <1>1 DEF SInv, STypes
<1>4. kept \in UnitRecord
  <2>1. <<>> \in Seq(Targets)
    OBVIOUS
  <2> QED
    BY <1>3, <2>1 DEF UnitRecord
<1>5. legs \in Seq(LegType) /\ legs # <<>> /\ Travel(legs[1]) \in Nat \ {0}
  BY <1>3, PositionType, RoutesType
<1> HIDE DEF kept
<1>6. OnLegs(kept, legs, 0) \in UnitRecord /\ OnLegs(kept, legs, 0).path = legs
      /\ OnLegs(kept, legs, 0).left = Travel(legs[1])
  BY <1>4, <1>5, OnLegsType
<1>7. Events(timeline)
  BY DEF SInv, STypes, Events
<1>8. /\ Events(timeline')
      /\ Live(timeline', u) = {Arrival(u, Travel(legs[1]))}
      /\ \A v \in Units \ {u} : Live(timeline', v) = Live(timeline, v)
      /\ CleanupsOf(timeline') = CleanupsOf(timeline)
  <2>1. Travel(legs[1]) \in Int
    BY <1>5
  <2>2. timeline' = Bumped(timeline, u) \cup {Arrival(u, Travel(legs[1]))}
    BY <1>2
  <2> DEFINE W == Bumped(timeline, u) \cup {Arrival(u, Travel(legs[1]))}
  <2>3. /\ Events(W)
        /\ Live(W, u) = {Arrival(u, Travel(legs[1]))}
        /\ \A v \in Units \ {u} : Live(W, v) = Live(timeline, v)
        /\ CleanupsOf(W) = CleanupsOf(timeline)
    BY <1>7, <2>1, Rescheduled
  <2>4. timeline' = W
    BY <2>2
  <2> HIDE DEF W
  <2> QED
    BY <2>3, <2>4
<1>9. Typed(units') /\ Scheduled(units', timeline')
  BY <1>1, <1>2, <1>5, <1>6, <1>8, Replanned
<1>10. EndInv'
  BY <1>1, <1>8 DEF SInv, EndInv, Cleanups, CleanupsOf, ending
<1> QED
  BY <1>1, <1>8, <1>9, <1>10, Assembled DEF SInv, STypes, BattleInv, ending

LEMMA QueueMoveStep ==
    ASSUME SInv, NEW u \in Units, NEW t \in Targets, QueueMove(u, t)
    PROVE  SInv'
<1> DEFINE r == [units[u] EXCEPT !.way = Append(@, t)]
<1>1. u \in DOMAIN units /\ pc = "idle" /\ pc' \in {"idle", "drain"}
      /\ UNCHANGED <<owner, diplomacy, ending, field>>
  BY DEF QueueMove
<1>2. units[u] \in UnitRecord /\ Events(timeline) /\ Scheduled(units, timeline)
  BY <1>1, ScheduledDef DEF SInv, STypes, Events
<1>3. r \in UnitRecord /\ r.path = units[u].path /\ r.left = units[u].left /\ r.way # <<>>
  <2>1. units[u].way \in Seq(Targets)
    BY <1>2, UnitFields
  <2>2. Append(units[u].way, t) \in Seq(Targets) /\ Len(Append(units[u].way, t)) = Len(units[u].way) + 1
        /\ Len(units[u].way) \in Nat /\ Len(<<>>) = 0
    BY <2>1
  <2>3. Append(units[u].way, t) # <<>>
    BY <2>2
  <2> QED
    BY <1>2, <2>2, <2>3 DEF UnitRecord
<1>4. IsMoving(r, 0) <=> IsMoving(units[u], 0)
  BY <1>3 DEF IsMoving
<1> SUFFICES /\ Typed(units') /\ Scheduled(units', timeline') /\ Events(timeline')
             /\ CleanupsOf(timeline') = CleanupsOf(timeline)
  <2>1. EndInv'
    BY <1>1 DEF SInv, EndInv, Cleanups, CleanupsOf, ending
  <2> QED
    BY <1>1, <2>1, Assembled DEF SInv, STypes, BattleInv, ending
<1>5. CASE IsMoving(units[u], 0)
  <2>1. units' = [units EXCEPT ![u] = r] /\ timeline' = timeline
    BY <1>4, <1>5 DEF QueueMove
  <2>2. Typed(units') /\ DOMAIN units' = DOMAIN units /\ units'[u] = r
        /\ \A v \in DOMAIN units \ {u} : units'[v] = units[v]
    BY <1>1, <1>3, <2>1, PutType DEF SInv, STypes, Typed
  <2>3. \A v \in DOMAIN units : units'[v].path = units[v].path /\ units'[v].left = units[v].left
    BY <1>3, <2>2
  <2>4. Scheduled(units', timeline')
    BY <1>2, <2>1, <2>2, <2>3 DEF Scheduled, IsMoving
  <2> QED
    BY <1>2, <2>1, <2>2, <2>4
<1>6. CASE ~IsMoving(units[u], 0)
  <2>1. PICK next \in NextWaypoint(r, 0) :
           /\ units' = [units EXCEPT ![u] = next.unit]
           /\ next.started => timeline' = Bumped(timeline, u) \cup {Arrival(u, next.unit.left)}
           /\ ~next.started => timeline' = Bumped(timeline, u)
    BY <1>4, <1>6 DEF QueueMove
  <2> HIDE DEF r
  <2>2. /\ next.unit \in UnitRecord /\ next.started \in BOOLEAN
        /\ next.started => next.unit.path # <<>>
        /\ ~next.started => next.unit = [r EXCEPT !.way = Tail(@)]
    <3>1. 0 \in Int
      OBVIOUS
    <3> QED
      BY <1>3, <2>1, <3>1, NextWaypointType
  <2>3. CASE next.started
    <3>1. next.unit.left \in Int
      BY <2>2, UnitFields
    <3>2. /\ Events(timeline')
          /\ Live(timeline', u) = {Arrival(u, next.unit.left)}
          /\ \A v \in Units \ {u} : Live(timeline', v) = Live(timeline, v)
          /\ CleanupsOf(timeline') = CleanupsOf(timeline)
      BY <1>2, <2>1, <2>3, <3>1, Rescheduled
    <3> QED
      BY <1>1, <2>1, <2>2, <2>3, <3>2, Replanned
  <2>4. CASE ~next.started
    <3>1. ~IsMoving(next.unit, 0)
      BY <1>3, <1>4, <1>6, <2>2, <2>4 DEF IsMoving, UnitRecord
    <3>2. /\ Events(timeline')
          /\ Live(timeline', u) = {}
          /\ \A v \in Units \ {u} : Live(timeline', v) = Live(timeline, v)
          /\ CleanupsOf(timeline') = CleanupsOf(timeline)
      <4>1. timeline' = Bumped(timeline, u)
        BY <2>1, <2>4
      <4> QED
        BY <1>2, <4>1, BumpedType
    <3> QED
      BY <1>1, <2>1, <2>2, <3>1, <3>2, Replanned
  <2> QED
    BY <2>2, <2>3, <2>4
<1> QED
  BY <1>5, <1>6

LEMMA AdvanceTimeStep == ASSUME SInv, AdvanceTime PROVE SInv'
<1> DEFINE Later(e) == [e EXCEPT !.at = @ - 1]
<1>1. /\ pc = "idle" /\ UNCHANGED <<owner, diplomacy, ending, pc, field>>
      /\ \A e \in timeline : e.at - 1 >= -MaxLag
      /\ timeline' = {Later(e) : e \in timeline}
      /\ units' = [u \in DOMAIN units |->
                     IF units[u].path = <<>> \/ units[u].left < -MaxLag THEN units[u]
                     ELSE [units[u] EXCEPT !.left = @ - 1]]
  BY DEF AdvanceTime
<1>2. timeline \subseteq EventRecord /\ Typed(units) /\ Scheduled(units, timeline)
  BY ScheduledDef DEF SInv, STypes, Typed
<1>3. \A e \in timeline : /\ Later(e) \in EventRecord /\ Later(e).at = e.at - 1
                          /\ Later(e).live = e.live /\ Later(e).unit = e.unit
                          /\ Later(e).kind = e.kind
  BY <1>2 DEF EventRecord
<1> HIDE DEF Later
<1>4. Events(timeline')
  BY <1>1, <1>3 DEF Events
<1>5. \A u \in Units : \A d \in Live(timeline', u) : \E e \in Live(timeline, u) : d = Later(e)
  BY <1>1, <1>3 DEF Live
<1>6. \A u \in Units : \A e \in Live(timeline, u) : Later(e) \in Live(timeline', u)
  BY <1>1, <1>3 DEF Live
<1>7. ASSUME NEW u \in DOMAIN units
      PROVE  /\ units'[u] \in UnitRecord
             /\ units'[u].path = units[u].path
             /\ units'[u].left = IF units[u].path = <<>> \/ units[u].left < -MaxLag
                                 THEN units[u].left ELSE units[u].left - 1
  <2>1. units[u] \in UnitRecord /\ units[u].left \in Int
    BY <1>2, UnitFields DEF Typed
  <2> DEFINE r == units[u]
             later == [r EXCEPT !.left = @ - 1]
  <2>2. later \in UnitRecord /\ later.path = r.path /\ later.left = r.left - 1
    BY <2>1 DEF UnitRecord
  <2>3. units'[u] = IF r.path = <<>> \/ r.left < -MaxLag THEN r ELSE later
    BY <1>1
  <2> HIDE DEF later
  <2> QED
    BY <2>1, <2>2, <2>3
<1>8. DOMAIN units' = DOMAIN units /\ Typed(units')
  <2>1. DOMAIN units' = DOMAIN units
    BY <1>1
  <2>2. units' = [u \in DOMAIN units' |-> units'[u]]
    BY <1>1
  <2> QED
    BY <1>2, <1>7, <2>1, <2>2 DEF Typed
<1>9. Scheduled(units', timeline')
  <2>1. ASSUME NEW u \in Units, NEW e \in Live(timeline', u), NEW f \in Live(timeline', u)
        PROVE  e = f /\ (u \in DOMAIN units' => units'[u].path # <<>> /\ e.at = units'[u].left)
    <3>1. PICK x \in Live(timeline, u) : e = Later(x)
      BY <1>5
    <3>2. PICK y \in Live(timeline, u) : f = Later(y)
      BY <1>5
    <3>3. x = y /\ (u \in DOMAIN units => units[u].path # <<>> /\ x.at = units[u].left)
      BY <1>2 DEF Scheduled
    <3>4. x.at - 1 >= -MaxLag /\ e.at = x.at - 1 /\ x.at \in Int
      BY <1>1, <1>2, <1>3, <3>1, EventFields DEF Live
    <3> QED
      <4>1. e = f
        BY <3>1, <3>2, <3>3
      <4>2. ASSUME u \in DOMAIN units' PROVE units'[u].path # <<>> /\ e.at = units'[u].left
        <5>1. units[u].path # <<>> /\ units[u].left = x.at /\ ~(x.at < -MaxLag)
          BY <1>8, <3>3, <3>4, <4>2, MatchSimAssumption
        <5> QED
          BY <1>7, <1>8, <3>4, <4>2, <5>1
      <4> QED
        BY <4>1, <4>2
  <2>2. ASSUME NEW u \in DOMAIN units', IsMoving(units'[u], 0) PROVE Live(timeline', u) # {}
    <3>1. u \in Units /\ units[u].left \in Int
      BY <1>2, <1>8, UnitFields DEF Typed
    <3>2. IsMoving(units[u], 0)
      BY <1>7, <1>8, <2>2, <3>1 DEF IsMoving
    <3> QED
      BY <1>2, <1>6, <1>8, <3>1, <3>2 DEF Scheduled
  <2> QED
    BY <2>1, <2>2 DEF Scheduled
<1>10. EndInv'
  <2>1. \A d \in Cleanups' : \E e \in Cleanups : d = Later(e)
    BY <1>1, <1>3 DEF Cleanups
  <2>2. \A e \in Cleanups : Later(e) \in Cleanups'
    BY <1>1, <1>3 DEF Cleanups
  <2> QED
    BY <1>1, <2>1, <2>2 DEF SInv, EndInv, ending
<1> QED
  BY <1>1, <1>4, <1>8, <1>9, <1>10, Assembled DEF SInv, STypes, BattleInv, ending

\* A step that leaves units and timeline alone, and no battle.
LEMMA LeftAlone ==
    ASSUME SInv, UNCHANGED <<units, timeline, owner, ending, field>>,
           pc \in {"idle", "drain"}, pc' \in {"idle", "drain", "over"}
    PROVE  SInv'
<1>1. (OneValidArrival /\ UnderWayArrives)'
  BY ScheduledDef DEF SInv, ending
<1> QED
  BY <1>1 DEF SInv, STypes, BattleInv, EndInv, Cleanups, ending

LEMMA CleanupStep == ASSUME SInv, Cleanup PROVE SInv'
<1>1. /\ pc = "drain" /\ cleaned' = TRUE
      /\ UNCHANGED <<units, owner, diplomacy, matchStatus, winners, pc, field>>
  BY DEF Cleanup
<1>2. PICK e \in timeline : e.kind = "cleanup" /\ timeline' = timeline \ {e}
  BY DEF Cleanup
<1>3. timeline \subseteq EventRecord /\ Typed(units) /\ Scheduled(units, timeline)
  BY ScheduledDef DEF SInv, STypes, Typed
<1>4. e.unit = {}
  BY <1>2, <1>3, EventFields
<1>5. \A u \in Units : Live(timeline', u) = Live(timeline, u)
  BY <1>2, <1>4 DEF Live
<1>6. Scheduled(units', timeline')
  <2>1. DOMAIN units \subseteq Units
    BY <1>3 DEF Typed
  <2> QED
    BY <1>1, <1>3, <1>5, <2>1 DEF Scheduled
<1>7. EndInv'
  BY <1>1, <1>2 DEF SInv, EndInv, Cleanups
<1> QED
  BY <1>1, <1>2, <1>3, <1>6, <1>7, Assembled DEF SInv, STypes, BattleInv, Typed, Events

LEMMA DropStaleStep == ASSUME SInv, DropStale PROVE SInv'
<1>1. pc = "drain" /\ UNCHANGED <<units, owner, diplomacy, ending, pc, field>>
  BY DEF DropStale
<1>2. PICK e \in timeline : /\ e.kind = "arrival" /\ timeline' = timeline \ {e}
                            /\ ~e.live \/ \A u \in e.unit : u \notin DOMAIN units
  BY DEF DropStale
<1>3. timeline \subseteq EventRecord /\ Typed(units) /\ Scheduled(units, timeline)
  BY ScheduledDef DEF SInv, STypes, Typed
<1>4. \A u \in Units : Live(timeline', u) \subseteq Live(timeline, u)
  BY <1>2 DEF Live
<1>5. ASSUME NEW u \in DOMAIN units PROVE Live(timeline', u) = Live(timeline, u)
  <2>1. e \notin Live(timeline, u)
    BY <1>2 DEF Live
  <2> QED
    BY <1>2, <2>1 DEF Live
<1>6. Scheduled(units', timeline')
  <2>1. DOMAIN units \subseteq Units
    BY <1>3 DEF Typed
  <2> QED
    BY <1>1, <1>3, <1>4, <1>5, <2>1 DEF Scheduled
<1>7. EndInv'
  <2>1. Cleanups' = Cleanups
    BY <1>2 DEF Cleanups
  <2> QED
    BY <1>1, <2>1 DEF SInv, EndInv, ending
<1> QED
  BY <1>1, <1>2, <1>3, <1>6, <1>7, Assembled DEF SInv, STypes, BattleInv, Typed, Events, ending

------------------------------------------------------------------------------
(***************************************************************************)
(* An arrival.                                                             *)
(***************************************************************************)
\* The arrival that is due is the unit's only valid one.
LEMMA OnlyArrival ==
    ASSUME SInv, NEW u \in DOMAIN units, NEW e \in Live(timeline, u)
    PROVE  Events(timeline) /\ Sole(timeline, u, e) /\ u \in Units /\ e.at \in Int
<1>1. u \in Units /\ Events(timeline)
  BY DEF SInv, STypes, Events
<1>2. Live(timeline, u) = {e}
  BY <1>1, ScheduledDef DEF SInv, Scheduled
<1> QED
  BY <1>1, <1>2, EventFields DEF Live, Events, Sole

\* Taking it leaves the unit without a valid arrival and changes nothing else.
LEMMA DueTaken ==
    ASSUME SInv, NEW u \in DOMAIN units, NEW e \in Live(timeline, u)
    PROVE  /\ Events(timeline \ {e}) /\ Live(timeline \ {e}, u) = {}
           /\ \A v \in Units \ {u} : Live(timeline \ {e}, v) = Live(timeline, v)
           /\ CleanupsOf(timeline \ {e}) = CleanupsOf(timeline)
<1>1. Events(timeline) /\ Sole(timeline, u, e) /\ u \in Units
  BY OnlyArrival
<1>2. Events(timeline \ {e})
  BY <1>1, ArrivalTaken
<1>3. Live(timeline \ {e}, u) = {}
  BY <1>1, ArrivalTaken
<1>4. \A v \in Units \ {u} : Live(timeline \ {e}, v) = Live(timeline, v)
  BY <1>1, ArrivalTaken
<1>5. CleanupsOf(timeline \ {e}) = CleanupsOf(timeline)
  BY <1>1, ArrivalTaken
<1> QED
  BY <1>2, <1>3, <1>4, <1>5

\* The unit goes on: on a path again, with a new arrival, and the victory is
\* looked at.
LEMMA GoesOn ==
    ASSUME SInv, pc = "drain", NEW u \in DOMAIN units, NEW e \in Live(timeline, u),
           NEW r \in UnitRecord, r.path # <<>>,
           units' = [units EXCEPT ![u] = r],
           CheckVictory(owner, (timeline \ {e}) \cup {Arrival(u, r.left)}, e.at),
           UNCHANGED <<owner, cleaned, pc, field>>
    PROVE  SInv'
<1> DEFINE T == timeline \ {e}
           W == T \cup {Arrival(u, r.left)}
<1>1. /\ Events(timeline) /\ Sole(timeline, u, e)
      /\ u \in Units /\ e.at \in Int /\ r.left \in Int
  BY OnlyArrival, UnitFields
<1>2. /\ Events(T) /\ Live(T, u) = {}
      /\ \A v \in Units \ {u} : Live(T, v) = Live(timeline, v)
      /\ CleanupsOf(T) = CleanupsOf(timeline)
  BY DueTaken
<1>3. /\ Events(W) /\ Live(W, u) = {Arrival(u, r.left)}
      /\ \A v \in Units \ {u} : Live(W, v) = Live(T, v)
      /\ CleanupsOf(W) = CleanupsOf(T)
  <2> HIDE DEF T
  <2>1. Events(T) /\ Live(T, u) = {} /\ u \in Units /\ r.left \in Int
    BY <1>1, <1>2
  <2>2. /\ Events(T \cup {Arrival(u, r.left)})
        /\ Live(T \cup {Arrival(u, r.left)}, u) = {Arrival(u, r.left)}
        /\ \A v \in Units \ {u} : Live(T \cup {Arrival(u, r.left)}, v) = Live(T, v)
        /\ CleanupsOf(T \cup {Arrival(u, r.left)}) = CleanupsOf(T)
    <3> HIDE DEF W
    <3> DEFINE at == r.left
    <3>1. at \in Int
      BY <2>1
    <3> HIDE DEF at
    <3>2. /\ Events(T \cup {Arrival(u, at)})
          /\ Live(T \cup {Arrival(u, at)}, u) = {Arrival(u, at)}
          /\ \A v \in Units \ {u} : Live(T \cup {Arrival(u, at)}, v) = Live(T, v)
          /\ CleanupsOf(T \cup {Arrival(u, at)}) = CleanupsOf(T)
      BY <2>1, <3>1, ArrivalAdded
    <3> QED
      BY <3>2 DEF at
  <2> QED
    BY <2>2
<1>4. CheckVictory(owner, W, e.at) /\ CleanupsOf(W) = Cleanups
  BY <1>2, <1>3 DEF Cleanups, CleanupsOf
<1> HIDE DEF T, W
<1>5. owner \in [Provinces -> Slots \cup {NoSlot}] /\ matchStatus \in {"active", "ended"}
      /\ winners \subseteq Slots /\ EndInv
  BY DEF SInv, STypes
<1>6. /\ Events(timeline')
      /\ \A v \in Units : Live(timeline', v) = Live(W, v)
      /\ matchStatus' \in {"active", "ended"} /\ winners' \subseteq Slots
      /\ EndInv'
  BY <1>1, <1>3, <1>4, <1>5, CheckVictoryStep
<1>7. /\ \A v \in Units \ {u} : Live(timeline', v) = Live(timeline, v)
      /\ Live(timeline', u) = {Arrival(u, r.left)}
  BY <1>1, <1>2, <1>3, <1>6
<1>8. Typed(units') /\ Scheduled(units', timeline')
  BY <1>6, <1>7, Replanned
<1> QED
  BY <1>6, <1>8, Assembled DEF SInv, STypes, BattleInv

\* The unit stops, and there is a battle.
LEMMA Stops ==
    ASSUME SInv, pc = "drain", NEW u \in DOMAIN units, NEW e \in Live(timeline, u),
           NEW r \in UnitRecord, r.path = <<>>,
           Engage([units EXCEPT ![u] = r], r.prov, e.at),
           timeline' = timeline \ {e},
           UNCHANGED <<owner, matchStatus, winners, cleaned>>
    PROVE  SInv'
<1> DEFINE U == [units EXCEPT ![u] = r]
<1>1. /\ Events(timeline) /\ Sole(timeline, u, e) /\ Typed(units)
      /\ u \in Units /\ e.at \in Int
  BY OnlyArrival DEF SInv, STypes, Typed
<1>2. /\ Events(timeline') /\ Live(timeline', u) = {}
      /\ \A v \in Units \ {u} : Live(timeline', v) = Live(timeline, v)
      /\ CleanupsOf(timeline') = CleanupsOf(timeline)
  BY DueTaken
<1>3. Typed(U) /\ DOMAIN U = DOMAIN units /\ U[u] = r
  BY <1>1, PutType
<1>4. units' = U /\ Engage(U, U[u].prov, e.at)
  BY <1>3 DEF Engage
<1> HIDE DEF U
<1>5. BattleInv' /\ pc' = "gather"
  BY <1>1, <1>3, <1>4, EngageStep
<1>6. ~IsMoving(r, 0)
  BY DEF IsMoving
<1>7. Typed(units') /\ Scheduled(units', timeline')
  BY <1>2, <1>4, <1>6, Replanned DEF U
<1>8. EndInv'
  BY <1>2 DEF SInv, EndInv, Cleanups, CleanupsOf
<1>9. STypes'
  BY <1>2, <1>5, <1>7 DEF SInv, STypes, Typed, Events
<1>10. (OneValidArrival /\ UnderWayArrives)'
  BY <1>7, ScheduledDef
<1> QED
  BY <1>5, <1>8, <1>9, <1>10 DEF SInv

LEMMA ArriveStep == ASSUME SInv, NEW u \in Units, Arrive(u) PROVE SInv'
<1>1. pc = "drain" /\ u \in DOMAIN units /\ UNCHANGED <<owner, diplomacy, cleaned>>
  BY DEF Arrive
<1> DEFINE leg == units[u].path[1]
           landed == [units[u] EXCEPT !.prov = leg.to, !.x = leg.tx, !.path = <<>>, !.left = 0]
           halted == [landed EXCEPT !.way = <<>>]
<1>2. PICK e \in timeline :
         /\ e.unit = {u} /\ e.live
         /\ \/ /\ Engage([units EXCEPT ![u] = halted], leg.to, e.at)
               /\ timeline' = timeline \ {e} /\ UNCHANGED <<matchStatus, winners>>
            \/ Len(units[u].path) > 1 /\ NextLeg(u, e, landed)
            \/ PathDone(u, e, landed)
  BY DEF Arrive
<1>3. e \in Live(timeline, u) /\ e.at \in Int
  BY <1>2, EventFields DEF Live, SInv, STypes
<1>4. units[u] \in UnitRecord /\ units[u].path # <<>>
  BY <1>1, <1>3 DEF SInv, STypes, OneValidArrival, Live, LiveArrivals
<1>5. leg.to \in Provinces /\ leg.tx \in Int /\ Tail(units[u].path) \in Seq(LegType)
  BY <1>4, LegFields
<1>6. landed \in UnitRecord /\ landed.prov = leg.to /\ landed.path = <<>>
  <2> HIDE DEF leg
  <2>1. <<>> \in Seq(LegType) /\ 0 \in Int
    OBVIOUS
  <2> QED
    BY <1>4, <1>5, <2>1 DEF UnitRecord
<1>7. halted \in UnitRecord /\ halted.prov = leg.to /\ halted.path = <<>>
  <2> HIDE DEF leg, landed
  <2>1. <<>> \in Seq(Targets)
    OBVIOUS
  <2> QED
    BY <1>6, <2>1 DEF UnitRecord
<1> HIDE DEF leg, landed, halted
<1>8. CASE Engage([units EXCEPT ![u] = halted], leg.to, e.at)
           /\ timeline' = timeline \ {e} /\ UNCHANGED <<matchStatus, winners>>
  BY <1>1, <1>3, <1>7, <1>8, Stops
<1>9. CASE Len(units[u].path) > 1 /\ NextLeg(u, e, landed)
  <2> DEFINE legs == Tail(units[u].path)
             r == OnLegs(landed, legs, e.at)
  <2>1. legs \in Seq(LegType) /\ legs # <<>>
    <3>1. units[u].path \in Seq(LegType)
      BY <1>4, UnitFields
    <3>2. Len(legs) = Len(units[u].path) - 1 /\ Len(units[u].path) \in Nat
      BY <1>4, <3>1
    <3>3. Len(units[u].path) > 1
      BY <1>9
    <3>4. PICK n \in Nat : n = Len(units[u].path)
      BY <3>2
    <3>5. legs # <<>>
      <4>1. Len(<<>>) = 0
        OBVIOUS
      <4>2. n > 1 /\ Len(legs) = n - 1
        BY <3>2, <3>3, <3>4
      <4>3. n - 1 # 0
        BY <4>2
      <4> HIDE DEF legs
      <4> QED
        BY <4>1, <4>2, <4>3
    <3> QED
      BY <1>5, <3>5 DEF legs
  <2>2. /\ units' = [units EXCEPT ![u] = r]
        /\ CheckVictory(owner, (timeline \ {e}) \cup {Arrival(u, e.at + Travel(legs[1]))}, e.at)
        /\ UNCHANGED <<pc, field>>
    BY <1>9 DEF NextLeg
  <2> HIDE DEF legs
  <2>3. r \in UnitRecord /\ r.path # <<>> /\ r.left = e.at + Travel(legs[1])
    BY <1>3, <1>6, <2>1, OnLegsType
  <2> HIDE DEF r
  <2> QED
    BY <1>1, <1>3, <2>2, <2>3, GoesOn
<1>10. CASE PathDone(u, e, landed) /\ landed.way = <<>>
  <2>1. /\ Engage([units EXCEPT ![u] = landed], landed.prov, e.at)
        /\ timeline' = timeline \ {e} /\ UNCHANGED <<matchStatus, winners>>
    BY <1>10 DEF PathDone
  <2> QED
    BY <1>1, <1>3, <1>6, <2>1, Stops
<1>11. CASE PathDone(u, e, landed) /\ landed.way # <<>>
  <2>1. PICK next \in NextWaypoint(landed, e.at) :
           \/ /\ next.started /\ units' = [units EXCEPT ![u] = next.unit]
              /\ CheckVictory(owner, (timeline \ {e}) \cup {Arrival(u, next.unit.left)}, e.at)
              /\ UNCHANGED <<pc, field>>
           \/ /\ ~next.started /\ Engage([units EXCEPT ![u] = next.unit], landed.prov, e.at)
              /\ timeline' = timeline \ {e} /\ UNCHANGED <<matchStatus, winners>>
    BY <1>11 DEF PathDone
  <2>2. /\ next.unit \in UnitRecord /\ next.started \in BOOLEAN
        /\ next.started => next.unit.path # <<>>
        /\ ~next.started => next.unit = [landed EXCEPT !.way = Tail(@)]
    BY <1>3, <1>6, <1>11, NextWaypointType
  <2>3. CASE next.started
    BY <1>1, <1>3, <2>1, <2>2, <2>3, GoesOn
  <2>4. CASE ~next.started
    <3>1. next.unit.prov = landed.prov /\ next.unit.path = <<>>
      BY <1>6, <2>2, <2>4 DEF UnitRecord
    <3> QED
      BY <1>1, <1>3, <2>1, <2>2, <2>4, <3>1, Stops
  <2> QED
    BY <2>3, <2>4
<1> QED
  BY <1>2, <1>8, <1>9, <1>10, <1>11

------------------------------------------------------------------------------
(***************************************************************************)
(* The battle.                                                             *)
(***************************************************************************)
LEMMA BattleFields ==
    ASSUME SInv, pc \in {"gather", "fight"}
    PROVE  /\ field \in BattleRecord
           /\ field.prov \in Provinces /\ field.at \in Int /\ field.todo \subseteq Units
           /\ DOMAIN field.champions \subseteq Slots
           /\ field.champions \in [DOMAIN field.champions -> Units]
           /\ IsFiniteSet(DOMAIN field.champions)
<1>1. field \in BattleRecord
  BY DEF SInv, BattleInv
<1>2. /\ field.prov \in Provinces /\ field.at \in Int /\ field.todo \subseteq Units
      /\ DOMAIN field.champions \subseteq Slots
      /\ field.champions \in [DOMAIN field.champions -> Units]
  BY <1>1 DEF BattleRecord
<1> QED
  BY <1>1, <1>2, SeatsAssumption, FS_Subset

\* What a step of the battle keeps: who is scheduled for what, and the end.
LEMMA BattleKeeps ==
    ASSUME SInv, Typed(units'), DOMAIN units' \subseteq DOMAIN units,
           \A v \in DOMAIN units' : units'[v].path = units[v].path /\ units'[v].left = units[v].left,
           UNCHANGED <<timeline, owner, ending>>, pc' \in {"gather", "fight"}, BattleInv'
    PROVE  SInv'
<1>1. Scheduled(units, timeline) /\ Typed(units)
  BY ScheduledDef DEF SInv, STypes, Typed
<1>2. Scheduled(units', timeline)
  BY <1>1 DEF Scheduled, Typed, IsMoving
<1>3. (OneValidArrival /\ UnderWayArrives)'
  BY <1>2, ScheduledDef
<1>4. EndInv'
  BY DEF SInv, EndInv, Cleanups, ending
<1>5. STypes'
  BY DEF SInv, STypes, Typed, ending
<1> QED
  BY <1>3, <1>4, <1>5 DEF SInv

\* Units that are where they were are at rest where they were.
LEMMA StationaryKept ==
    ASSUME NEW U, NEW V, DOMAIN V \subseteq DOMAIN U, NEW p, NEW at,
           \A v \in DOMAIN V : /\ V[v].path = U[v].path /\ V[v].left = U[v].left
                               /\ V[v].prov = U[v].prov
    PROVE  Stationary(V, p, at) = Stationary(U, p, at) \cap DOMAIN V
BY DEF Stationary, Dest, IsMoving

LEMMA LeadStep ==
    ASSUME SInv, pc = "gather", NEW u \in field.todo, Lead(u, D!CoalitionID(units[u].owner)),
           Gathered(u), UNCHANGED <<timeline, owner, diplomacy, ending>>
    PROVE  SInv'
<1> DEFINE coalition == D!CoalitionID(units[u].owner)
           listed == DOMAIN field.champions
<1>1. /\ coalition \notin listed /\ units' = units /\ treaty' = treaty
      /\ field' = [field EXCEPT !.todo = @ \ {u},
                     !.champions = [c \in DOMAIN @ \cup {coalition} |->
                                       IF c = coalition THEN u ELSE @[c]]]
  BY DEF Lead, diplomacy
<1>2. /\ Typed(units) /\ Accounted /\ Listed /\ Fallen = {}
      /\ field.todo \subseteq Stationary(units, field.prov, field.at)
      /\ \A c \in listed : field.champions[c] \notin field.todo
  BY DEF SInv, STypes, Typed, BattleInv
<1>3. u \in DOMAIN units /\ units[u].prov = field.prov /\ units[u].owner \in Slots /\ u \in Units
  BY <1>2, UnitFields DEF Stationary, Typed
<1>4. coalition \in Slots /\ D!CoalitionID(coalition) = coalition
  BY <1>3, CoalitionIDFixed
<1>5. /\ listed \subseteq Slots /\ field.champions \in [listed -> Units] /\ field \in BattleRecord
      /\ field.todo \subseteq Units
  BY BattleFields
<1>6. /\ field'.prov = field.prov /\ field'.at = field.at /\ field'.todo = field.todo \ {u}
      /\ field'.champions = [c \in listed \cup {coalition} |->
                                IF c = coalition THEN u ELSE field.champions[c]]
      /\ field' \in [prov : Provinces, at : Int, todo : SUBSET Units, champions : {field'.champions}]
  <2> HIDE DEF coalition
  <2> QED
    BY <1>1, <1>5 DEF BattleRecord
<1> HIDE DEF coalition
<1>7. /\ DOMAIN field'.champions = listed \cup {coalition}
      /\ field'.champions[coalition] = u
      /\ \A c \in listed : field'.champions[c] = field.champions[c]
  BY <1>1, <1>6
<1>8. field' \in BattleRecord
  <2>1. field'.champions \in [listed \cup {coalition} -> Units]
    BY <1>3, <1>5, <1>6
  <2>2. listed \cup {coalition} \in SUBSET Slots
    BY <1>4, <1>5
  <2> QED
    BY <1>6, <2>1, <2>2 DEF BattleRecord
<1>9. \A a : D!CoalitionID(a)' = D!CoalitionID(a)
  BY <1>1, CoalitionIDKept
<1>10. Accounted'
  <2>1. Stationary(units', field'.prov, field'.at) = Stationary(units, field.prov, field.at)
    BY <1>1, <1>6
  <2>2. ASSUME NEW v \in Stationary(units, field.prov, field.at)
        PROVE  v \in field'.todo \/ \E c \in DOMAIN field'.champions : v = field'.champions[c]
    <3>1. v \in field.todo \/ \E c \in listed : v = field.champions[c]
      BY <1>2 DEF Accounted
    <3> QED
      BY <1>6, <1>7, <3>1
  <2> QED
    BY <2>1, <2>2 DEF Accounted
<1>11. Listed'
  <2> SUFFICES ASSUME NEW c \in DOMAIN field'.champions
               PROVE  /\ D!CoalitionID(c) = c
                      /\ field'.champions[c] \in DOMAIN units =>
                            LET r == units[field'.champions[c]] IN
                            r.prov = field.prov /\ D!CoalitionID(r.owner) = c
    BY <1>1, <1>6, <1>9 DEF Listed
  <2>1. CASE c = coalition
    BY <1>3, <1>4, <1>7, <2>1 DEF coalition
  <2>2. CASE c \in listed
    BY <1>2, <1>7, <2>2 DEF Listed
  <2> QED
    BY <1>7, <2>1, <2>2
<1>12. Fallen' = {}
  BY <1>1, <1>2, <1>3, <1>7 DEF Fallen
<1>13. BattleInv'
  <2>1. pc' = IF field.todo = {u} THEN "fight" ELSE "gather"
    BY DEF Gathered
  <2>2. \A c \in DOMAIN field'.champions : field'.champions[c] \notin field'.todo
    BY <1>2, <1>6, <1>7
  <2>3. field'.todo \subseteq Stationary(units', field'.prov, field'.at)
    BY <1>1, <1>2, <1>6
  <2>4. DOMAIN field'.champions # {}
    BY <1>7
  <2> QED
    BY <1>6, <1>8, <1>10, <1>11, <1>12, <2>1, <2>2, <2>3, <2>4 DEF BattleInv
<1>14. pc' \in {"gather", "fight"}
  BY DEF Gathered
<1> QED
  BY <1>1, <1>2, <1>13, <1>14, BattleKeeps

LEMMA JoinStep ==
    ASSUME SInv, pc = "gather", NEW u \in field.todo, Join(u, D!CoalitionID(units[u].owner)),
           Gathered(u), UNCHANGED <<timeline, owner, diplomacy, ending>>
    PROVE  SInv'
<1> DEFINE coalition == D!CoalitionID(units[u].owner)
           listed == DOMAIN field.champions
           champion == field.champions[coalition]
           pooled == Pooled(units[champion], units[u])
<1>1. /\ coalition \in listed /\ treaty' = treaty
      /\ units' = [v \in DOMAIN units \ {u} |-> IF v = champion THEN pooled ELSE units[v]]
      /\ field' = [field EXCEPT !.todo = @ \ {u}]
  <2> HIDE DEF champion
  <2> QED
    BY DEF Join, diplomacy, champion, Pooled
<1>2. /\ Typed(units) /\ Accounted /\ Listed /\ Fallen = {}
      /\ field.todo \subseteq Stationary(units, field.prov, field.at)
      /\ \A c \in listed : field.champions[c] \notin field.todo
  BY DEF SInv, STypes, Typed, BattleInv
<1>3. u \in DOMAIN units /\ units[u] \in UnitRecord
  BY <1>2 DEF Stationary, Typed
<1>4. field \in BattleRecord
  BY BattleFields
<1>5. /\ champion \in DOMAIN units /\ champion # u /\ units[champion] \in UnitRecord
      /\ units[champion].prov = field.prov /\ D!CoalitionID(units[champion].owner) = coalition
  BY <1>1, <1>2 DEF Fallen, Listed, Typed
<1>6. /\ pooled \in UnitRecord
      /\ pooled.prov = units[champion].prov /\ pooled.path = units[champion].path
      /\ pooled.left = units[champion].left
      /\ pooled.owner \in {units[champion].owner, units[u].owner}
  <2> DEFINE a == units[champion]
             b == units[u]
             hp == a.hp + b.hp
             who == IF 2 * b.hp > hp THEN b.owner ELSE a.owner
  <2>1. a \in UnitRecord /\ b \in UnitRecord
    BY <1>3, <1>5
  <2>2. pooled = [a EXCEPT !.hp = hp, !.owner = who]
    BY DEF Pooled
  <2> HIDE DEF a, b
  <2>3. hp \in Nat \ {0} /\ who \in Slots /\ who \in {a.owner, b.owner}
    BY <2>1, UnitFields
  <2> HIDE DEF hp, who, pooled
  <2>4. pooled \in UnitRecord /\ pooled.prov = a.prov /\ pooled.path = a.path
        /\ pooled.left = a.left /\ pooled.owner = who
    BY <2>1, <2>2, <2>3 DEF UnitRecord
  <2> QED
    BY <2>3, <2>4 DEF a, b
<1>7. D!CoalitionID(pooled.owner) = coalition
  BY <1>5, <1>6
<1> HIDE DEF pooled, champion, coalition
<1>8. /\ DOMAIN units' = DOMAIN units \ {u} /\ units'[champion] = pooled
      /\ \A v \in DOMAIN units' \ {champion} : units'[v] = units[v]
      /\ Typed(units')
  <2>1. /\ DOMAIN units' = DOMAIN units \ {u} /\ units'[champion] = pooled
        /\ \A v \in DOMAIN units' \ {champion} : units'[v] = units[v]
    BY <1>1, <1>5
  <2>2. \A v \in DOMAIN units' : units'[v] \in UnitRecord
    BY <1>2, <1>6, <2>1 DEF Typed
  <2>3. units' = [v \in DOMAIN units' |-> units'[v]]
    BY <1>1
  <2> QED
    BY <1>2, <2>1, <2>2, <2>3 DEF Typed
<1>9. \A v \in DOMAIN units' : /\ units'[v].path = units[v].path /\ units'[v].left = units[v].left
                               /\ units'[v].prov = units[v].prov
  BY <1>6, <1>8
<1>10. /\ field'.prov = field.prov /\ field'.at = field.at /\ field'.todo = field.todo \ {u}
       /\ field'.champions = field.champions /\ field' \in BattleRecord
  BY <1>1, <1>4 DEF BattleRecord
<1>11. Stationary(units', field'.prov, field'.at) = Stationary(units, field.prov, field.at) \ {u}
  <2>1. Stationary(units', field.prov, field.at)
          = Stationary(units, field.prov, field.at) \cap DOMAIN units'
    BY <1>8, <1>9, StationaryKept
  <2>2. Stationary(units, field.prov, field.at) \subseteq DOMAIN units
    BY DEF Stationary
  <2> QED
    BY <1>8, <1>10, <2>1, <2>2
<1>12. \A a : D!CoalitionID(a)' = D!CoalitionID(a)
  BY <1>1, CoalitionIDKept
<1>13. Accounted'
  BY <1>2, <1>10, <1>11 DEF Accounted
<1>14. Listed'
  <2> SUFFICES ASSUME NEW c \in listed
               PROVE  /\ D!CoalitionID(c) = c
                      /\ field.champions[c] \in DOMAIN units' =>
                            LET r == units'[field.champions[c]] IN
                            r.prov = field.prov /\ D!CoalitionID(r.owner) = c
    BY <1>10, <1>12 DEF Listed
  <2>1. CASE c = coalition
    BY <1>2, <1>5, <1>6, <1>7, <1>8, <2>1 DEF Listed, champion
  <2>2. CASE c # coalition
    <3>1. field.champions[c] \in DOMAIN units =>
             LET r == units[field.champions[c]] IN
             r.prov = field.prov /\ D!CoalitionID(r.owner) = c
      BY <1>2 DEF Listed
    <3>2. field.champions[c] # champion
      BY <1>5, <2>2, <3>1
    <3> QED
      BY <1>2, <1>8, <3>1, <3>2 DEF Listed
  <2> QED
    BY <2>1, <2>2
<1>15. Fallen' = {}
  BY <1>2, <1>8, <1>10 DEF Fallen
<1>16. BattleInv'
  <2>1. pc' = IF field.todo = {u} THEN "fight" ELSE "gather"
    BY DEF Gathered
  <2>2. \A c \in DOMAIN field'.champions : field'.champions[c] \notin field'.todo
    BY <1>2, <1>10
  <2>3. field'.todo \subseteq Stationary(units', field'.prov, field'.at)
    BY <1>2, <1>10, <1>11
  <2>4. DOMAIN field'.champions # {}
    BY <1>1, <1>10
  <2> QED
    BY <1>10, <1>13, <1>14, <1>15, <2>1, <2>2, <2>3, <2>4 DEF BattleInv
<1>17. pc' \in {"gather", "fight"}
  BY DEF Gathered
<1> QED
  BY <1>8, <1>9, <1>16, <1>17, BattleKeeps

LEMMA CollapseStep == ASSUME SInv, CollapseChampions PROVE SInv'
<1>1. PICK u \in field.todo :
         /\ Lead(u, D!CoalitionID(units[u].owner)) \/ Join(u, D!CoalitionID(units[u].owner))
         /\ Gathered(u)
  BY DEF CollapseChampions
<1>2. pc = "gather" /\ UNCHANGED <<timeline, owner, diplomacy, ending>>
  BY DEF CollapseChampions
<1> QED
  BY <1>1, <1>2, LeadStep, JoinStep

\* The weakest champion is one that fell whenever there is one.
LEMMA FallenAreWeakest ==
    ASSUME SInv, pc = "fight", NEW c \in Weakest, field.champions[c] \in DOMAIN units
    PROVE  Fallen = {}
<1> SUFFICES ASSUME NEW b \in Fallen PROVE FALSE
  OBVIOUS
<1>1. Strength(b) = 0 /\ Strength(c) = units[field.champions[c]].hp
  BY DEF Fallen, Strength
<1>2. Strength(c) <= Strength(b)
  BY DEF Weakest, Fallen
<1>3. units[field.champions[c]].hp \in Nat \ {0}
  BY UnitFields DEF SInv, STypes
<1> QED
  BY <1>1, <1>2, <1>3

LEMMA FightStep == ASSUME SInv, FightRound PROVE SInv'
<1>1. /\ pc = "fight" /\ Cardinality(DOMAIN field.champions) > 1
      /\ UNCHANGED <<timeline, owner, diplomacy, ending, pc>>
  BY DEF FightRound
<1> DEFINE listed == DOMAIN field.champions
<1>2. PICK c \in Weakest, hit \in Hits :
         LET u == field.champions[c] IN
         IF u \notin DOMAIN units THEN UNCHANGED <<units, field>>
         ELSE IF units[u].hp > hit
         THEN units' = [units EXCEPT ![u].hp = @ - hit] /\ UNCHANGED field
         ELSE /\ units' = Restrict(units, DOMAIN units \ {u})
              /\ field' = [field EXCEPT !.champions = Restrict(@, DOMAIN @ \ {units[u].owner})]
  BY DEF FightRound
<1> DEFINE u == field.champions[c]
<1>3. /\ Typed(units) /\ Accounted /\ Listed /\ field.todo = {}
      /\ field \in BattleRecord /\ treaty' = treaty
  BY <1>1 DEF SInv, STypes, Typed, BattleInv, diplomacy
<1>4. /\ c \in listed /\ listed \subseteq Slots /\ IsFiniteSet(listed)
      /\ field.champions \in [listed -> Units]
  BY <1>1, BattleFields DEF Weakest
<1>5. \A a : D!CoalitionID(a)' = D!CoalitionID(a)
  BY <1>3, CoalitionIDKept
<1>6. CASE u \notin DOMAIN units
  <2>1. UNCHANGED <<units, field>>
    BY <1>2, <1>6
  <2>2. BattleInv'
    BY <1>1, <1>5, <2>1 DEF SInv, BattleInv, Accounted, Stationary, Dest, IsMoving, Listed, Fallen
  <2> QED
    BY <1>1, <1>3, <2>1, <2>2, BattleKeeps
<1>7. CASE u \in DOMAIN units /\ units[u].hp > hit
  <2> DEFINE r == [units[u] EXCEPT !.hp = @ - hit]
  <2>1. units' = [units EXCEPT ![u] = r] /\ field' = field
    BY <1>2, <1>7
  <2>2. units[u] \in UnitRecord /\ units[u].hp \in Nat \ {0} /\ hit \in Nat \ {0}
    BY <1>3, <1>7, UnitFields, MatchSimAssumption DEF Typed
  <2>3. /\ r \in UnitRecord /\ r.owner = units[u].owner /\ r.prov = units[u].prov
        /\ r.path = units[u].path /\ r.left = units[u].left
    <3>1. units[u].hp - hit \in Nat \ {0}
      BY <1>7, <2>2
    <3> QED
      BY <2>2, <3>1 DEF UnitRecord
  <2> HIDE DEF r, u
  <2>4. /\ Typed(units') /\ DOMAIN units' = DOMAIN units /\ units'[u] = r
        /\ \A v \in DOMAIN units \ {u} : units'[v] = units[v]
    BY <1>3, <1>7, <2>1, <2>3, PutType
  <2>5. \A v \in DOMAIN units' :
           /\ units'[v].path = units[v].path /\ units'[v].left = units[v].left
           /\ units'[v].prov = units[v].prov /\ units'[v].owner = units[v].owner
    BY <2>3, <2>4
  <2>6. Stationary(units', field.prov, field.at) = Stationary(units, field.prov, field.at)
    <3>1. Stationary(units', field.prov, field.at)
            = Stationary(units, field.prov, field.at) \cap DOMAIN units'
      BY <2>4, <2>5, StationaryKept
    <3> QED
      BY <2>4, <3>1 DEF Stationary
  <2>7. Accounted' /\ Fallen' = Fallen
    BY <1>3, <2>1, <2>4, <2>6 DEF Accounted, Fallen
  <2>8. Listed'
    BY <1>3, <1>5, <2>1, <2>4, <2>5 DEF Listed
  <2>9. BattleInv'
    BY <1>1, <1>3, <2>1, <2>7, <2>8 DEF SInv, BattleInv
  <2> QED
    BY <1>1, <2>4, <2>5, <2>9, BattleKeeps
<1>8. CASE u \in DOMAIN units /\ ~(units[u].hp > hit)
  <2> DEFINE gone == units[u].owner
  <2>1. /\ units' = [v \in DOMAIN units \ {u} |-> units[v]]
        /\ field' = [field EXCEPT !.champions = [d \in listed \ {gone} |-> @[d]]]
    BY <1>2, <1>8 DEF Restrict
  <2>2. /\ units[u] \in UnitRecord /\ gone \in Slots /\ D!CoalitionID(gone) = c
        /\ Fallen = {}
    BY <1>1, <1>3, <1>4, <1>8, UnitFields, FallenAreWeakest DEF Typed, Listed
  <2>3. ASSUME gone \in listed PROVE gone = c
    BY <1>3, <2>2, <2>3 DEF Listed
  <2> HIDE DEF gone, u
  <2>4. /\ Typed(units') /\ DOMAIN units' = DOMAIN units \ {u}
        /\ \A v \in DOMAIN units' : units'[v] = units[v]
    BY <1>3, <2>1 DEF Typed
  <2>5. /\ field'.prov = field.prov /\ field'.at = field.at /\ field'.todo = field.todo
        /\ field'.champions = [d \in listed \ {gone} |-> field.champions[d]]
    BY <1>3, <2>1 DEF BattleRecord
  <2>6. DOMAIN field'.champions = listed \ {gone}
        /\ \A d \in listed \ {gone} : field'.champions[d] = field.champions[d]
    BY <2>5
  <2>7. field' \in BattleRecord
    <3>1. field'.champions \in [listed \ {gone} -> Units] /\ listed \ {gone} \in SUBSET Slots
      BY <1>4, <2>5
    <3>2. field' = [prov |-> field.prov, at |-> field.at, todo |-> field.todo,
                    champions |-> field'.champions]
      BY <1>3, <2>1 DEF BattleRecord
    <3> QED
      BY <1>3, <3>1, <3>2 DEF BattleRecord
  <2>8. Accounted'
    <3>1. Stationary(units', field.prov, field.at)
            = Stationary(units, field.prov, field.at) \cap DOMAIN units'
      BY <2>4, StationaryKept
    <3>2. ASSUME NEW v \in Stationary(units', field'.prov, field'.at)
          PROVE  \E d \in DOMAIN field'.champions : v = field'.champions[d]
      <4>1. v \in Stationary(units, field.prov, field.at) /\ v # u
        BY <2>4, <2>5, <3>1, <3>2
      <4>2. PICK d \in listed : v = field.champions[d]
        BY <1>3, <4>1 DEF Accounted
      <4>3. d # c
        BY <4>1, <4>2 DEF u
      <4> QED
        BY <2>3, <2>6, <4>2, <4>3
    <3> QED
      BY <3>2 DEF Accounted
  <2>9. Listed'
    BY <1>3, <1>5, <2>4, <2>5, <2>6 DEF Listed
  <2>10. \A d \in listed : d # c => field.champions[d] \in DOMAIN units'
    <3> TAKE d \in listed
    <3> HAVE d # c
    <3>1. field.champions[d] \in DOMAIN units /\ u \in DOMAIN units
      BY <1>8, <2>2 DEF Fallen
    <3>2. field.champions[d] # u
      BY <1>3, <1>4, <3>1 DEF Listed, u
    <3> QED
      BY <2>4, <3>1, <3>2
  <2>11. DOMAIN field'.champions # {} /\ (Fallen' # {} => Cardinality(DOMAIN field'.champions) > 1)
    <3>1. CASE gone \in listed
      <4>1. DOMAIN field'.champions = listed \ {c} /\ Fallen' = {}
        BY <2>3, <2>6, <2>10, <3>1 DEF Fallen
      <4>2. Cardinality(listed \ {c}) = Cardinality(listed) - 1 /\ Cardinality(listed) \in Nat
        BY <1>4, FS_RemoveElement, FS_CardinalityType
      <4>3. listed \ {c} # {}
        BY <1>1, <4>2, FS_EmptySet
      <4> QED
        BY <4>1, <4>3
    <3>2. CASE gone \notin listed
      BY <1>1, <1>4, <2>6, <3>2
    <3> QED
      BY <3>1, <3>2
  <2>12. BattleInv'
    BY <1>1, <1>3, <2>5, <2>7, <2>8, <2>9, <2>11 DEF BattleInv
  <2> QED
    BY <1>1, <2>4, <2>12, BattleKeeps
<1> QED
  BY <1>6, <1>7, <1>8

\* The last champion stands in the province, with all that are at rest there.
LEMMA LastChampion ==
    ASSUME SInv, pc = "fight", Cardinality(DOMAIN field.champions) = 1
    PROVE  LET u == field.champions[CHOOSE c \in DOMAIN field.champions : TRUE] IN
           /\ u \in DOMAIN units /\ units[u].prov = field.prov /\ field.prov \in Provinces
           /\ units[u].owner \in Slots
           /\ \A v \in Stationary(units, field.prov, field.at) : v = u
<1> DEFINE listed == DOMAIN field.champions
           c == CHOOSE d \in listed : TRUE
           u == field.champions[c]
<1>1. IsFiniteSet(listed) /\ field.prov \in Provinces
  BY BattleFields
<1>2. PICK d : listed = {d}
  BY <1>1, FS_Singleton
<1>3. c = d
  BY <1>2
<1>4. Fallen = {} /\ Accounted /\ Listed /\ field.todo = {}
  BY DEF SInv, BattleInv
<1>5. u \in DOMAIN units /\ units[u].prov = field.prov
  BY <1>2, <1>3, <1>4 DEF Fallen, Listed
<1>6. units[u].owner \in Slots
  BY <1>5, UnitFields DEF SInv, STypes
<1>7. \A v \in Stationary(units, field.prov, field.at) : v = u
  BY <1>2, <1>3, <1>4 DEF Accounted
<1> QED
  BY <1>1, <1>5, <1>6, <1>7

LEMMA CaptureStep == ASSUME SInv, Capture PROVE SInv'
<1> DEFINE winner == units[field.champions[CHOOSE c \in DOMAIN field.champions : TRUE]]
           own == IF owner[field.prov] # NoSlot /\ SameCoalition(owner[field.prov], winner.owner)
                  THEN owner ELSE [owner EXCEPT ![field.prov] = winner.owner]
<1>1. /\ pc = "fight" /\ Cardinality(DOMAIN field.champions) = 1
      /\ owner' = own /\ CheckVictory(own, timeline, field.at)
      /\ pc' = "drain" /\ field' = NoField
      /\ UNCHANGED <<units, diplomacy, cleaned>>
  BY DEF Capture
<1>2. winner.owner \in Slots /\ field.prov \in Provinces /\ field.at \in Int
  BY <1>1, LastChampion, BattleFields
<1> HIDE DEF winner
<1>3. own \in [Provinces -> Slots \cup {NoSlot}]
  BY <1>2 DEF SInv, STypes
<1> HIDE DEF own
<1>4. /\ Events(timeline) /\ matchStatus \in {"active", "ended"} /\ winners \subseteq Slots
      /\ EndInv /\ CleanupsOf(timeline) = Cleanups /\ Scheduled(units, timeline) /\ Typed(units)
  BY ScheduledDef DEF SInv, STypes, Events, Cleanups, CleanupsOf, Typed
<1>5. /\ Events(timeline')
      /\ \A v \in Units : Live(timeline', v) = Live(timeline, v)
      /\ matchStatus' \in {"active", "ended"} /\ winners' \subseteq Slots
      /\ EndInv'
  BY <1>1, <1>2, <1>3, <1>4, CheckVictoryStep
<1>6. Scheduled(units', timeline')
  BY <1>1, <1>4, <1>5 DEF Scheduled, Typed
<1> QED
  BY <1>1, <1>3, <1>4, <1>5, <1>6, Assembled DEF SInv, STypes

------------------------------------------------------------------------------
LEMMA SInvInit == SInit => SInv
<1> SUFFICES ASSUME SInit PROVE SInv
  OBVIOUS
<1>1. /\ units = [u \in Units |-> AtRest(Post[u].owner, Post[u].prov)]
      /\ timeline = {} /\ owner = Home /\ matchStatus = "active" /\ winners = {} /\ cleaned = FALSE
      /\ pc = "idle" /\ field = NoField
  BY DEF SInit
<1>2. ASSUME NEW u \in Units
      PROVE  units[u] \in UnitRecord /\ units[u].path = <<>>
  <2>1. Post[u] \in [owner : Slots, prov : Provinces] /\ StartHP \in Nat \ {0}
    BY MatchSimAssumption
  <2>2. Place[Post[u].prov] \in Int /\ <<>> \in Seq(LegType) /\ <<>> \in Seq(Targets)
    BY <2>1, MatchSimAssumption
  <2> QED
    BY <1>1, <2>1, <2>2 DEF AtRest, UnitRecord
<1>3. STypes
  <2>1. units \in [DOMAIN units -> UnitRecord] /\ DOMAIN units = Units
    BY <1>1, <1>2
  <2> QED
    BY <1>1, <2>1, MatchSimAssumption DEF STypes
<1>4. OneValidArrival /\ UnderWayArrives
  BY <1>1, <1>2 DEF OneValidArrival, UnderWayArrives, LiveArrivals, IsMoving
<1>5. BattleInv
  BY <1>1 DEF BattleInv
<1>6. EndInv
  BY <1>1 DEF EndInv, Cleanups
<1> QED
  BY <1>3, <1>4, <1>5, <1>6 DEF SInv

\* The steps that touch neither units nor timeline.
LEMMA TickStep == ASSUME SInv, Tick PROVE SInv'
BY LeftAlone DEF Tick

LEMMA TimelineDrainedStep == ASSUME SInv, TimelineDrained PROVE SInv'
BY LeftAlone DEF TimelineDrained

LEMMA AgreeStep ==
    ASSUME SInv, NEW a, NEW b, NEW s, Agree(a, b, s)
    PROVE  SInv'
BY LeftAlone DEF Agree

LEMMA GrantStep ==
    ASSUME SInv, NEW a, NEW b, GrantPassage(a, b)
    PROVE  SInv'
BY LeftAlone DEF GrantPassage

LEMMA RevokeStep ==
    ASSUME SInv, NEW a, NEW b, RevokePassage(a, b)
    PROVE  SInv'
BY LeftAlone DEF RevokePassage

LEMMA StutterStep == ASSUME SInv, UNCHANGED simVars PROVE SInv'
<1>1. UNCHANGED <<units, timeline, owner, treaty, pacts, matchStatus, winners, cleaned, pc, field>>
  BY DEF simVars, diplomacy, ending
<1>2. (OneValidArrival /\ UnderWayArrives)'
  BY <1>1, ScheduledDef DEF SInv
<1>3. BattleInv'
  <2>1. \A a : D!CoalitionID(a)' = D!CoalitionID(a)
    BY <1>1, CoalitionIDKept
  <2> QED
    BY <1>1, <2>1 DEF SInv, BattleInv, Accounted, Stationary, Dest, IsMoving, Listed, Fallen
<1> QED
  BY <1>1, <1>2, <1>3 DEF SInv, STypes, EndInv, Cleanups

LEMMA SInvStep == SInv /\ [SNext]_simVars => SInv'
<1> SUFFICES ASSUME SInv, [SNext]_simVars PROVE SInv'
  OBVIOUS
<1>1. CASE Command
  BY <1>1, MoveStep, QueueMoveStep, AgreeStep, GrantStep, RevokeStep DEF Command
<1>2. CASE Event
  BY <1>2, DropStaleStep, ArriveStep, CleanupStep DEF Event
<1> QED
  BY <1>1, <1>2, AdvanceTimeStep, TickStep, TimelineDrainedStep, CollapseStep, FightStep,
     CaptureStep, StutterStep DEF SNext

\* The invariant the theorems below are read off.
THEOREM SimInvariant == SSpec => []SInv
BY SInvInit, SInvStep, PTL DEF SSpec

\* Every variable keeps its type, whatever is marched, joined and fought: no
\* unit is left without strength, and no battle without a champion.
THEOREM SimTypeOK == SSpec => []STypeOK
<1>1. SInv => STypeOK
  <2> SUFFICES ASSUME SInv PROVE STypeOK
    OBVIOUS
  <2>1. \A u \in DOMAIN units :
           /\ units[u].owner \in Slots /\ units[u].hp \in Nat \ {0}
           /\ units[u].prov \in Provinces /\ units[u].left \in Int
           /\ units[u].path \in Seq(LegType) /\ units[u].way \in Seq(Targets)
    BY UnitFields DEF SInv, STypes
  <2>2. \A e \in timeline : e.at \in Int /\ e.unit \subseteq Units
    BY EventFields DEF SInv, STypes
  <2>3. pc \in {"gather", "fight"} <=> field # NoField
    <3>1. NoField.todo = {} /\ DOMAIN NoField.champions = {}
      <4>1. DOMAIN <<>> = {}
        OBVIOUS
      <4> QED
        BY <4>1 DEF NoField
    <3> QED
      BY <3>1 DEF SInv, BattleInv
  <2>4. pc = "fight" => DOMAIN field.champions # {}
    BY DEF SInv, BattleInv
  <2> QED
    BY <2>1, <2>2, <2>3, <2>4 DEF SInv, STypes, STypeOK
<1> QED
  BY <1>1, SimInvariant, PTL

\* The version of an event is enough to tell the arrival that counts: a unit
\* has one valid arrival at most, and it comes when its leg ends.
THEOREM SimOneValidArrival == SSpec => []OneValidArrival
<1>1. SInv => OneValidArrival
  BY DEF SInv
<1> QED
  BY <1>1, SimInvariant, PTL

\* A unit with time left on its leg has the arrival of that leg on the timeline,
\* through every change of plan.  A leg that is overdue is left out: there a
\* refused queued move takes the arrival away (move.go:43).
THEOREM SimUnderWayArrives == SSpec => []UnderWayArrives
<1>1. SInv => UnderWayArrives
  BY DEF SInv
<1> QED
  BY <1>1, SimInvariant, PTL

\* A match ends once and is cleaned up once, however many units reach their
\* goals after its end.
THEOREM SimEndsOnce == SSpec => []EndsOnce
<1>1. SInv => EndsOnce
  <2> SUFFICES ASSUME SInv PROVE EndsOnce
    OBVIOUS
  <2>1. Cardinality({}) = 0 /\ \A e : Cardinality({e}) = 1
    BY FS_EmptySet, FS_Singleton
  <2> HIDE DEF Cleanups
  <2>2. EndsOnce <=> Cardinality(Cleanups) + (IF cleaned THEN 1 ELSE 0)
                        = IF matchStatus = "ended" THEN 1 ELSE 0
    BY DEF EndsOnce, Cleanups
  <2>3. EndInv
    BY DEF SInv
  <2>4. CASE matchStatus = "active" /\ ~cleaned /\ Cleanups = {}
    BY <2>1, <2>2, <2>4
  <2>5. CASE matchStatus = "ended" /\ ~cleaned /\ \E e \in Cleanups : Cleanups = {e}
    <3>1. PICK e \in Cleanups : Cleanups = {e}
      BY <2>5
    <3>2. Cardinality(Cleanups) = 1
      BY <3>1, FS_Singleton, Zenon
    <3> QED
      BY <2>2, <2>5, <3>2
  <2>6. CASE matchStatus = "ended" /\ cleaned /\ Cleanups = {}
    BY <2>1, <2>2, <2>6
  <2> QED
    BY <2>3, <2>4, <2>5, <2>6 DEF EndInv
<1> QED
  BY <1>1, SimInvariant, PTL

\* A province goes to the owner of a unit that stands in it, never from one
\* member of a coalition to another, and everyone who stands in it then is of
\* the new owner's coalition: battles leave nobody out.
THEOREM SimHolderStandsThere == SSpec => HolderStandsThere
<1> DEFINE Held(p) ==
             owner'[p] # owner[p] =>
                /\ owner[p] # NoSlot => ~SameCoalition(owner[p], owner'[p])
                /\ \E u \in DOMAIN units : units[u].owner = owner'[p] /\ units[u].prov = p
                /\ \A u \in Stationary(units, p, field.at) :
                      SameCoalition(units[u].owner, owner'[p])
<1>1. SInv /\ [SNext]_simVars => \A p \in Provinces : Held(p)
  <2> SUFFICES ASSUME SInv, [SNext]_simVars, NEW p \in Provinces, owner'[p] # owner[p]
               PROVE  Held(p)
    OBVIOUS
  <2>1. Capture
    BY DEF SNext, AdvanceTime, Tick, Command, Move, QueueMove, Agree, GrantPassage, RevokePassage,
           Event, DropStale, Arrive, Cleanup, TimelineDrained, CollapseChampions, FightRound,
           simVars
  <2> DEFINE u == field.champions[CHOOSE c \in DOMAIN field.champions : TRUE]
             held == owner[field.prov]
  <2>2. /\ pc = "fight" /\ Cardinality(DOMAIN field.champions) = 1
        /\ owner' = IF held # NoSlot /\ SameCoalition(held, units[u].owner) THEN owner
                    ELSE [owner EXCEPT ![field.prov] = units[u].owner]
    BY <2>1 DEF Capture
  <2>3. /\ u \in DOMAIN units /\ units[u].prov = field.prov /\ units[u].owner \in Slots
        /\ field.prov \in Provinces
        /\ \A v \in Stationary(units, field.prov, field.at) : v = u
    BY <2>2, LastChampion
  <2> HIDE DEF u
  <2>4. owner \in [Provinces -> Slots \cup {NoSlot}]
    BY DEF SInv, STypes
  <2>5. p = field.prov /\ owner'[p] = units[u].owner
        /\ ~(held # NoSlot /\ SameCoalition(held, units[u].owner))
    BY <2>2, <2>3, <2>4
  <2>6. SameCoalition(units[u].owner, units[u].owner)
    BY <2>3, CoalitionClosed DEF SameCoalition
  <2> QED
    BY <2>3, <2>5, <2>6
<1>2. (\A p \in Provinces : Held(p)) => [\A p \in Provinces : Held(p)]_simVars
  OBVIOUS
<1> QED
  BY <1>1, SimInvariant, PTL DEF SSpec, HolderStandsThere

------------------------------------------------------------------------------
(***************************************************************************)
(* The strength of the units of a match, added up.                         *)
(***************************************************************************)
HPOf(U) == [u \in DOMAIN U |-> U[u].hp]

LEMMA TotalIsSum ==
    ASSUME NEW U, IsFiniteSet(DOMAIN U)
    PROVE  Total(U) = SumOver(HPOf(U), DOMAIN U)
<1> DEFINE Adds(f) == f = [s \in SUBSET DOMAIN U |->
                IF s = {} THEN 0
                ELSE U[CHOOSE x \in s : TRUE].hp + f[s \ {CHOOSE x \in s : TRUE}]]
<1>1. Total(U) = (CHOOSE f : Adds(f))[DOMAIN U]
  BY DEF Total, MapThenSumSet, MapThenFoldSet
<1>2. ASSUME NEW f PROVE Adds(f) <=> AddsUp(f, HPOf(U), SUBSET DOMAIN U)
  BY DEF AddsUp, Picked, HPOf
<1> HIDE DEF Adds
<1>3. AddsUp(CHOOSE f : Adds(f), HPOf(U), SUBSET DOMAIN U)
  BY <1>2, AddsUpExists
<1>4. PICK g : AddsUp(g, HPOf(U), SUBSET DOMAIN U) /\ SumOver(HPOf(U), DOMAIN U) = g[DOMAIN U]
  BY SumDef
<1>5. (CHOOSE f : Adds(f))[DOMAIN U] = g[DOMAIN U]
  BY <1>3, <1>4, AddsUpAlike
<1> QED
  BY <1>1, <1>4, <1>5

LEMMA TypedStrength ==
    ASSUME NEW U, Typed(U)
    PROVE  /\ IsFiniteSet(DOMAIN U)
           /\ \A u \in DOMAIN U : HPOf(U)[u] = U[u].hp /\ HPOf(U)[u] \in Nat \ {0}
           /\ Total(U) \in Nat
<1>1. IsFiniteSet(DOMAIN U)
  BY MatchSimAssumption, FS_Subset DEF Typed
<1>2. \A u \in DOMAIN U : HPOf(U)[u] = U[u].hp /\ HPOf(U)[u] \in Nat \ {0}
  BY UnitFields DEF Typed, HPOf
<1>3. SumOver(HPOf(U), DOMAIN U) \in Nat
  BY <1>1, <1>2, SumType
<1> QED
  BY <1>1, <1>2, <1>3, TotalIsSum

\* The strength of one unit, and of the rest of them.
LEMMA StrengthOut ==
    ASSUME NEW U, Typed(U), NEW u \in DOMAIN U
    PROVE  /\ Total(U) = U[u].hp + SumOver(HPOf(U), DOMAIN U \ {u})
           /\ SumOver(HPOf(U), DOMAIN U \ {u}) \in Nat /\ U[u].hp \in Nat
<1>1. SumOver(HPOf(U), DOMAIN U) = HPOf(U)[u] + SumOver(HPOf(U), DOMAIN U \ {u})
  BY TypedStrength, SumOut
<1>2. SumOver(HPOf(U), DOMAIN U \ {u}) \in Nat
  BY TypedStrength, FS_Subset, SumType
<1> QED
  BY <1>1, <1>2, TypedStrength, TotalIsSum

\* Units that keep their strength are as strong together.
LEMMA SameStrength ==
    ASSUME NEW U, Typed(U), NEW V, DOMAIN V = DOMAIN U, \A u \in DOMAIN U : V[u].hp = U[u].hp
    PROVE  Total(V) = Total(U)
<1>1. IsFiniteSet(DOMAIN U) /\ IsFiniteSet(DOMAIN V)
  BY TypedStrength
<1>2. \A u \in DOMAIN U : HPOf(V)[u] = HPOf(U)[u]
  BY DEF HPOf
<1>3. SumOver(HPOf(V), DOMAIN U) = SumOver(HPOf(U), DOMAIN U)
  BY <1>1, <1>2, SumSame
<1> QED
  BY <1>1, <1>3, TotalIsSum

\* A unit that leaves takes its strength with it.
LEMMA StrengthLeaves ==
    ASSUME NEW U, Typed(U), NEW u \in DOMAIN U, NEW V, Typed(V), DOMAIN V = DOMAIN U \ {u},
           \A v \in DOMAIN V : V[v].hp = U[v].hp
    PROVE  Total(U) = Total(V) + U[u].hp
<1>1. \A v \in DOMAIN V : HPOf(V)[v] = HPOf(U)[v]
  BY DEF HPOf
<1>2. SumOver(HPOf(V), DOMAIN V) = SumOver(HPOf(U), DOMAIN V)
  BY <1>1, TypedStrength, SumSame
<1>3. Total(V) = SumOver(HPOf(U), DOMAIN U \ {u})
  BY <1>2, TypedStrength, TotalIsSum
<1> QED
  BY <1>3, StrengthOut

\* A change of one unit is the change of all.
LEMMA StrengthOfOne ==
    ASSUME NEW U, Typed(U), NEW u \in DOMAIN U, NEW V, Typed(V), DOMAIN V = DOMAIN U,
           \A v \in DOMAIN U \ {u} : V[v].hp = U[v].hp
    PROVE  Total(U) + V[u].hp = Total(V) + U[u].hp
<1>1. \A v \in DOMAIN U \ {u} : HPOf(V)[v] = HPOf(U)[v]
  BY DEF HPOf
<1>2. SumOver(HPOf(V), DOMAIN U \ {u}) = SumOver(HPOf(U), DOMAIN U \ {u})
  BY <1>1, TypedStrength, FS_Subset, SumSame
<1>3. /\ Total(U) = U[u].hp + SumOver(HPOf(U), DOMAIN U \ {u})
      /\ SumOver(HPOf(U), DOMAIN U \ {u}) \in Nat /\ U[u].hp \in Nat
  BY StrengthOut
<1>4. Total(V) = V[u].hp + SumOver(HPOf(V), DOMAIN V \ {u}) /\ V[u].hp \in Nat
  BY StrengthOut
<1> QED
  BY <1>2, <1>3, <1>4

\* Each unit is as strong as it was.
KeepStrength == DOMAIN units' = DOMAIN units /\ \A u \in DOMAIN units : units'[u].hp = units[u].hp

LEMMA KeepOne ==
    ASSUME NEW u \in DOMAIN units, NEW r, r.hp = units[u].hp, SInv,
           units' = [units EXCEPT ![u] = r]
    PROVE  KeepStrength
<1>1. units \in [DOMAIN units -> UnitRecord]
  BY DEF SInv, STypes
<1> QED
  BY <1>1 DEF KeepStrength

LEMMA OnLegsStrength ==
    ASSUME NEW r \in UnitRecord, NEW legs, NEW start, NEW next \in NextWaypoint(r, start)
    PROVE  OnLegs(r, legs, start).hp = r.hp /\ next.unit.hp = r.hp
<1>1. ASSUME NEW q \in UnitRecord, NEW l PROVE OnLegs(q, l, start).hp = q.hp
  BY DEF OnLegs, UnitRecord
<1> DEFINE popped == [r EXCEPT !.way = Tail(@)]
<1>2. popped.hp = r.hp
  BY DEF UnitRecord
<1>3. ASSUME NEW l PROVE OnLegs(popped, l, start).hp = popped.hp
  BY DEF OnLegs, UnitRecord
<1>4. PICK l : next = IF RouteBlocked(r.owner, l)
                      THEN [started |-> FALSE, unit |-> popped]
                      ELSE [started |-> TRUE, unit |-> OnLegs(popped, l, start)]
  BY DEF NextWaypoint
<1> HIDE DEF popped
<1>5. next.unit \in {popped, OnLegs(popped, l, start)}
  BY <1>4
<1> QED
  BY <1>1, <1>2, <1>3, <1>5

LEMMA MarchStrength ==
    ASSUME SInv, \/ AdvanceTime
                 \/ \E u \in Units, t \in Targets : Move(u, t) \/ QueueMove(u, t)
    PROVE  KeepStrength
<1>1. CASE AdvanceTime
  <2>1. \A u \in DOMAIN units : units[u] \in UnitRecord
    BY DEF SInv, STypes
  <2> QED
    BY <1>1, <2>1 DEF AdvanceTime, KeepStrength, UnitRecord
<1>2. ASSUME NEW u \in Units, NEW t \in Targets, Move(u, t) PROVE KeepStrength
  <2>1. u \in DOMAIN units /\ units[u] \in UnitRecord
    BY <1>2 DEF Move, SInv, STypes
  <2> DEFINE r == [units[u] EXCEPT !.way = <<>>]
  <2>2. PICK legs : units' = [units EXCEPT ![u] = OnLegs(r, legs, 0)]
    BY <1>2 DEF Move
  <2>3. OnLegs(r, legs, 0).hp = units[u].hp
    BY <2>1 DEF OnLegs, UnitRecord
  <2> QED
    BY <2>1, <2>2, <2>3, KeepOne
<1>3. ASSUME NEW u \in Units, NEW t \in Targets, QueueMove(u, t) PROVE KeepStrength
  <2>1. u \in DOMAIN units /\ units[u] \in UnitRecord
    BY <1>3 DEF QueueMove, SInv, STypes
  <2> DEFINE r == [units[u] EXCEPT !.way = Append(@, t)]
  <2>2. r \in UnitRecord /\ r.hp = units[u].hp
    <3>1. Append(units[u].way, t) \in Seq(Targets)
      BY <2>1, UnitFields
    <3> QED
      BY <2>1, <3>1 DEF UnitRecord
  <2>3. \/ units' = [units EXCEPT ![u] = r]
        \/ \E next \in NextWaypoint(r, 0) : units' = [units EXCEPT ![u] = next.unit]
    BY <1>3 DEF QueueMove
  <2> HIDE DEF r
  <2>4. \A next \in NextWaypoint(r, 0) : next.unit.hp = units[u].hp
    BY <2>2, OnLegsStrength
  <2> QED
    BY <2>1, <2>2, <2>3, <2>4, KeepOne
<1> QED
  BY <1>1, <1>2, <1>3

LEMMA ArriveStrength == ASSUME SInv, NEW u \in Units, Arrive(u) PROVE KeepStrength
<1> DEFINE leg == units[u].path[1]
           landed == [units[u] EXCEPT !.prov = leg.to, !.x = leg.tx, !.path = <<>>, !.left = 0]
           halted == [landed EXCEPT !.way = <<>>]
<1>1. PICK e \in timeline :
         /\ e.unit = {u} /\ e.live
         /\ \/ units' = [units EXCEPT ![u] = halted]
            \/ NextLeg(u, e, landed)
            \/ PathDone(u, e, landed)
  BY DEF Arrive, Engage
<1>2. /\ u \in DOMAIN units /\ units[u] \in UnitRecord /\ units[u].path # <<>>
  <2>1. u \in DOMAIN units
    BY DEF Arrive
  <2> QED
    BY <1>1, <2>1 DEF SInv, STypes, OneValidArrival, LiveArrivals
<1>3. landed \in UnitRecord /\ landed.hp = units[u].hp
  <2>1. leg.to \in Provinces /\ leg.tx \in Int
    BY <1>2, LegFields
  <2> HIDE DEF leg
  <2>2. <<>> \in Seq(LegType) /\ 0 \in Int
    OBVIOUS
  <2> QED
    BY <1>2, <2>1, <2>2 DEF UnitRecord
<1> HIDE DEF landed
<1>4. halted.hp = units[u].hp
  BY <1>3 DEF UnitRecord
<1> HIDE DEF halted
<1>5. CASE NextLeg(u, e, landed)
  <2>1. OnLegs(landed, Tail(units[u].path), e.at).hp = units[u].hp
    BY <1>3 DEF OnLegs, UnitRecord
  <2>2. units' = [units EXCEPT ![u] = OnLegs(landed, Tail(units[u].path), e.at)]
    BY <1>5 DEF NextLeg
  <2> QED
    BY <1>2, <2>1, <2>2, KeepOne
<1>6. CASE PathDone(u, e, landed)
  <2>1. \/ units' = [units EXCEPT ![u] = landed]
        \/ \E next \in NextWaypoint(landed, e.at) : units' = [units EXCEPT ![u] = next.unit]
    BY <1>6 DEF PathDone, Engage
  <2>2. \A next \in NextWaypoint(landed, e.at) : next.unit.hp = units[u].hp
    BY <1>3, OnLegsStrength
  <2> QED
    BY <1>2, <1>3, <2>1, <2>2, KeepOne
<1> QED
  BY <1>1, <1>2, <1>4, <1>5, <1>6, KeepOne

\* Who joins a champion adds to it what leaves the match with him.
LEMMA JoinStrength ==
    ASSUME SInv, Typed(units'), pc = "gather", NEW u \in field.todo,
           Join(u, D!CoalitionID(units[u].owner))
    PROVE  Total(units') = Total(units)
<1> DEFINE coalition == D!CoalitionID(units[u].owner)
           champion == field.champions[coalition]
           Rest == [v \in DOMAIN units \ {u} |-> units[v]]
<1>1. /\ coalition \in DOMAIN field.champions
      /\ units' = [v \in DOMAIN units \ {u} |->
                      IF v = champion THEN Pooled(units[v], units[u]) ELSE units[v]]
  BY DEF Join
<1>2. /\ Typed(units) /\ Fallen = {}
      /\ field.todo \subseteq Stationary(units, field.prov, field.at)
      /\ \A c \in DOMAIN field.champions : field.champions[c] \notin field.todo
  BY DEF SInv, STypes, Typed, BattleInv
<1>3. u \in DOMAIN units
  BY <1>2 DEF Stationary
<1>4. champion \in DOMAIN units /\ champion # u
  BY <1>1, <1>2 DEF Fallen
<1> HIDE DEF champion
<1>5. Typed(Rest) /\ DOMAIN Rest = DOMAIN units \ {u} /\ \A v \in DOMAIN Rest : Rest[v] = units[v]
  BY <1>2 DEF Typed
<1> HIDE DEF Rest
<1>6. Total(units) = Total(Rest) + units[u].hp
  BY <1>2, <1>3, <1>5, StrengthLeaves
<1>7. units'[champion].hp = units[champion].hp + units[u].hp
  <2>1. units[champion] \in UnitRecord /\ units'[champion] = Pooled(units[champion], units[u])
    BY <1>1, <1>2, <1>4 DEF Typed
  <2> QED
    BY <2>1 DEF Pooled, UnitRecord
<1>8. /\ DOMAIN units' = DOMAIN Rest /\ champion \in DOMAIN Rest
      /\ \A v \in DOMAIN Rest \ {champion} : units'[v].hp = Rest[v].hp
  BY <1>1, <1>4, <1>5
<1>9. Total(Rest) + units'[champion].hp = Total(units') + Rest[champion].hp
  BY <1>5, <1>8, StrengthOfOne
<1>10. Rest[champion].hp = units[champion].hp
  BY <1>5, <1>8
<1>11. /\ Total(Rest) \in Nat /\ Total(units') \in Nat /\ Total(units) \in Nat
       /\ units[champion].hp \in Nat /\ units[u].hp \in Nat
  BY <1>2, <1>3, <1>4, <1>5, TypedStrength
<1> QED
  BY <1>6, <1>7, <1>9, <1>10, <1>11

LEMMA FightStrength ==
    ASSUME SInv, Typed(units'), FightRound
    PROVE  Total(units') <= Total(units)
<1>1. PICK c \in Weakest, hit \in Hits :
         LET u == field.champions[c] IN
         \/ units' = units
         \/ u \in DOMAIN units /\ units[u].hp > hit /\ units' = [units EXCEPT ![u].hp = @ - hit]
         \/ u \in DOMAIN units /\ units' = Restrict(units, DOMAIN units \ {u})
  BY DEF FightRound
<1> DEFINE u == field.champions[c]
<1>2. Typed(units)
  BY DEF SInv, STypes, Typed
<1>3. Total(units) \in Nat /\ Total(units') \in Nat /\ hit \in Nat
  BY <1>2, TypedStrength, MatchSimAssumption
<1> HIDE DEF u
<1>4. CASE units' = units
  BY <1>3, <1>4
<1>5. CASE u \in DOMAIN units /\ units[u].hp > hit /\ units' = [units EXCEPT ![u].hp = @ - hit]
  <2>1. units[u] \in UnitRecord /\ units[u].hp \in Nat
    BY <1>2, <1>5, UnitFields DEF Typed
  <2> DEFINE r == [units[u] EXCEPT !.hp = @ - hit]
  <2>2. units' = [units EXCEPT ![u] = r]
    BY <1>5
  <2>3. r.hp = units[u].hp - hit
    BY <2>1 DEF UnitRecord
  <2> HIDE DEF r
  <2>4. /\ DOMAIN units' = DOMAIN units /\ units'[u] = r
        /\ \A v \in DOMAIN units \ {u} : units'[v] = units[v]
    BY <1>2, <1>5, <2>2 DEF Typed
  <2>5. Total(units) + units'[u].hp = Total(units') + units[u].hp
    <3>1. u \in DOMAIN units /\ DOMAIN units' = DOMAIN units
          /\ \A v \in DOMAIN units \ {u} : units'[v].hp = units[v].hp
      BY <1>5, <2>4
    <3> QED
      BY <1>2, <3>1, StrengthOfOne
  <2> QED
    BY <1>3, <1>5, <2>1, <2>3, <2>4, <2>5
<1>6. CASE u \in DOMAIN units /\ units' = Restrict(units, DOMAIN units \ {u})
  <2>1. DOMAIN units' = DOMAIN units \ {u} /\ \A v \in DOMAIN units' : units'[v] = units[v]
    BY <1>6 DEF Restrict
  <2>2. Total(units) = Total(units') + units[u].hp
    BY <1>2, <1>6, <2>1, StrengthLeaves
  <2>3. units[u].hp \in Nat
    BY <1>2, <1>6, TypedStrength
  <2> QED
    BY <1>3, <2>2, <2>3
<1> QED
  BY <1>1, <1>4, <1>5, <1>6 DEF u

\* Nothing but a round of combat changes how strong the units of a match are
\* together, and a round only lowers it: whatever order the map gives the units
\* of a coalition in, pooling them neither makes strength nor loses any.
THEOREM SimStrengthIsConserved == SSpec => StrengthIsConserved
<1> DEFINE Conserved == /\ Total(units') <= Total(units)
                        /\ pc # "fight" => Total(units') = Total(units)
<1>1. ASSUME SInv, SInv', [SNext]_simVars PROVE Conserved
  <2>1. Typed(units) /\ Typed(units') /\ Total(units) \in Nat /\ Total(units') \in Nat
    BY <1>1, TypedStrength DEF SInv, STypes, Typed
  <2>2. CASE KeepStrength
    <3>1. Total(units') = Total(units)
      BY <2>1, <2>2, SameStrength DEF KeepStrength
    <3> QED
      BY <2>1, <3>1
  <2>3. CASE FightRound
    BY <1>1, <2>1, <2>3, FightStrength DEF FightRound
  <2>4. CASE CollapseChampions
    <3>1. PICK u \in field.todo : LET coalition == D!CoalitionID(units[u].owner) IN
                                  Lead(u, coalition) \/ Join(u, coalition)
      BY <2>4 DEF CollapseChampions
    <3>2. units' = units \/ Total(units') = Total(units)
      BY <1>1, <2>1, <2>4, <3>1, JoinStrength DEF CollapseChampions, Lead
    <3> QED
      BY <2>1, <3>2
  <2>5. CASE units' = units
    BY <2>1, <2>5
  <2>6. \/ FightRound \/ CollapseChampions \/ units' = units
        \/ AdvanceTime \/ (\E u \in Units, t \in Targets : Move(u, t) \/ QueueMove(u, t))
        \/ \E u \in Units : Arrive(u)
    BY <1>1 DEF SNext, Tick, Command, Agree, GrantPassage, RevokePassage, Event, DropStale, Cleanup,
           TimelineDrained, Capture, simVars
  <2>7. \/ FightRound \/ CollapseChampions \/ units' = units \/ KeepStrength
    BY <1>1, <2>6, MarchStrength, ArriveStrength
  <2> QED
    BY <2>2, <2>3, <2>4, <2>5, <2>7
<1> QED
  BY <1>1, SimInvariant, PTL DEF SSpec, StrengthIsConserved
=============================================================================

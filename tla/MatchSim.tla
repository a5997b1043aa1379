------------------------------- MODULE MatchSim -------------------------------
(***************************************************************************)
(* The simulation of one match (internal/domain/matchdom with pathdom and  *)
(* timeline): units march along legs, arrivals come off the timeline, the  *)
(* units at rest in a province fight, the province changes hands, and the  *)
(* match ends.  Everything runs on the match loop: an iteration moves the  *)
(* clock, takes a command or a tick, and drains the due events one by one; *)
(* a refused command skips the draining.                                   *)
(*                                                                         *)
(* Provinces lie on a line and units cover one unit of distance per tick,  *)
(* so that PositionAt is exact.  All times are relative to match.GameNow.  *)
(* Recruitment, construction and the macro pulse are not in this module.   *)
(***************************************************************************)
EXTENDS Integers, Sequences, Seats, SequencesExt

CONSTANTS
    Units,            \* identifiers of the starting units
    Post,             \* unit -> the slot it belongs to, the province it starts in
    Provinces, Place, \* the provinces and their coordinate
    Roads,            \* the edges of the map, as pairs {a, b}
    Home,             \* province -> its first owner, or NoSlot
    Capitals,         \* the provinces that are capitals
    Targets,          \* what moves aim at: a coordinate, and the province a
                      \* route to it leads through
    StartHP, Hits,    \* the strength of a unit; what a round of combat can take
    CollisionRadius,
    CleanupDelay,     \* ticks between the end and the cleanup event
    Agreements,       \* the stances that pairs of slots adopt in this instance
    Grants,           \* the rights of way given and revoked: pairs <<from, to>>
    MaxWaypoints,     \* bound: length of a unit's waypoint queue
    MaxLag,           \* bound: how overdue an event gets while commands are refused,
                      \* and how long ago, at most, a leg is said to have ended
    MaxEvents         \* bound: no move is made while so many events are pending

ASSUME MatchSimAssumption ==
    /\ IsFiniteSet(Units) /\ IsFiniteSet(Provinces)
    /\ Post \in [Units -> [owner : Slots, prov : Provinces]]
    /\ Place \in [Provinces -> Int]
    /\ \A r \in Roads : r \subseteq Provinces
    /\ Home \in [Provinces -> Slots \cup {NoSlot}] /\ Capitals \subseteq Provinces
    /\ Targets \subseteq [goal : Provinces, x : Int]
    /\ StartHP \in Nat \ {0} /\ Hits \subseteq Nat \ {0} /\ Hits # {}
    /\ CollisionRadius \in Nat /\ CleanupDelay \in Nat
    /\ Agreements \subseteq {"war", "peace", "alliance"}
    /\ Grants \subseteq Slots \X Slots
    /\ MaxWaypoints \in Nat /\ MaxLag \in Nat /\ MaxEvents \in Nat

VARIABLES
    units,     \* Match.Units: a record for every unit still in the match
    timeline,  \* Match.Timeline: arrivals, and the cleanup once the match ended
    owner,     \* Province.Owner
    treaty,    \* Match.Diplomacy: the stance of every pair
    pacts,     \* Match.Diplomacy: rights of way
    matchStatus, \* Match.Status: "active", "ended"
    winners,   \* Match.WinnerCoal
    cleaned,   \* Match.CleanupDone
    pc,        \* the loop: "idle", "drain", "gather", "fight", "over"
    field      \* the battle being resolved: province, time, the units still to
               \* be looked at, and the champions

diplomacy == <<treaty, pacts>>
ending == <<matchStatus, winners, cleaned>>
simVars == <<units, timeline, owner, diplomacy, ending, pc, field>>

\* Stances, coalitions and passage are those of the registry.
D == INSTANCE Diplomacy WITH
        Kinds <- {"right_of_way"}, Cooldown <- 0, MaxTime <- 0, MaxVersion <- 0,
        now <- 0, version <- 0, lastCommit <- <<>>, lastWar <- <<>>, offers <- <<>>

SameCoalition(a, b) == b \in D!Coalition(a)

------------------------------------------------------------------------------
(***************************************************************************)
(* Routes.                                                                 *)
(***************************************************************************)
Dist(a, b) == IF a < b THEN b - a ELSE a - b

\* The provinces A* can start from: an end of the edge the unit is on, or any
\* nearest province when it rests.
StartsFrom(x, from, to) ==
    IF from = to
    THEN {p \in Provinces : \A q \in Provinces : Dist(x, Place[p]) <= Dist(x, Place[q])}
    ELSE {IF Dist(x, Place[from]) <= Dist(x, Place[to]) THEN from ELSE to}

Walks == {w \in SetToAllKPermutations(Provinces) :
             w # <<>> /\ \A i \in 1..(Len(w) - 1) : {w[i], w[i + 1]} \in Roads}

WalkLength(w) ==
    MapThenSumSet(LAMBDA i : Dist(Place[w[i]], Place[w[i + 1]]), 1..(Len(w) - 1))

\* astar: the shortest walks, of which it returns one.
Shortest(a, b) ==
    LET walks == {w \in Walks : w[1] = a /\ w[Len(w)] = b} IN
    {w \in walks : \A v \in walks : WalkLength(w) <= WalkLength(v)}

\* routeFromProvince: the first hop starts where the unit is; a last leg leads
\* to the exact target unless a hop ended there.
Legs(x, w, t) ==
    LET hops == [i \in 1..(Len(w) - 1) |->
                   [from |-> w[i], to |-> w[i + 1],
                    fx |-> IF i = 1 THEN x ELSE Place[w[i]], tx |-> Place[w[i + 1]]]]
        end == IF hops = <<>> THEN x ELSE Place[w[Len(w)]]
    IN  IF hops # <<>> /\ end = t.x THEN hops
        ELSE Append(hops, [from |-> w[Len(w)], to |-> t.goal, fx |-> end, tx |-> t.x])

Routes(x, from, to, t) ==
    {Legs(x, w, t) : w \in UNION {Shortest(s, t.goal) : s \in StartsFrom(x, from, to)}}

HostileLegEnd(mover, p) ==
    owner[p] \notin {NoSlot, mover} /\ D!Stance(mover, owner[p]) = "war"

LegBlocked(mover, leg) ==
    /\ owner[leg.to] \notin {NoSlot, mover}
    /\ ~D!MayMoveThrough(mover, owner[leg.to])
    /\ D!Stance(mover, owner[leg.to]) # "war"

RouteBlocked(mover, legs) == \E i \in DOMAIN legs : LegBlocked(mover, legs[i])

------------------------------------------------------------------------------
(***************************************************************************)
(* Units.  path holds the legs not completed; prov and x are Origin and    *)
(* OriginX; left is ArrivesAt of the current leg.                          *)
(***************************************************************************)
AtRest(slot, p) == [owner |-> slot, hp |-> StartHP, prov |-> p, x |-> Place[p],
                    path |-> <<>>, left |-> 0, way |-> <<>>]

Dest(r) == IF r.path = <<>> THEN r.prov ELSE r.path[1].to

IsMoving(r, at) == r.path # <<>> /\ at < r.left

\* PositionAt: what is left of the leg is walked back from its end.
PositionAt(r, at) ==
    IF r.path = <<>> THEN r.x
    ELSE LET leg == r.path[1]
             togo == IF at >= r.left THEN 0 ELSE
                     IF r.left - at < Dist(leg.fx, leg.tx) THEN r.left - at
                     ELSE Dist(leg.fx, leg.tx)
         IN  IF leg.fx < leg.tx THEN leg.tx - togo ELSE leg.tx + togo

\* A leg of no length takes the least travel time.
Travel(leg) == IF leg.fx = leg.tx THEN 1 ELSE Dist(leg.fx, leg.tx)

\* beginCurrentLeg on the first of the legs.
OnLegs(r, legs, start) ==
    [r EXCEPT !.path = legs, !.prov = legs[1].from, !.x = legs[1].fx,
              !.left = start + Travel(legs[1])]

\* scheduleArrival.  live stands for "the unit's version is still the event's".
Arrival(u, at) == [kind |-> "arrival", unit |-> {u}, at |-> at, live |-> TRUE]
CleanupEvent(at) == [kind |-> "cleanup", unit |-> {}, at |-> at, live |-> TRUE]

\* u.Version++ makes stale every event scheduled for the unit.
Bumped(T, u) == {IF e.unit = {u} THEN [e EXCEPT !.live = FALSE] ELSE e : e \in T}

\* StartNextWaypoint of an idle unit: the waypoint is taken off the queue
\* whether or not there is a way to it.
NextWaypoint(r, at) ==
    LET popped == [r EXCEPT !.way = Tail(@)] IN
    {IF RouteBlocked(r.owner, legs)
     THEN [started |-> FALSE, unit |-> popped]
     ELSE [started |-> TRUE, unit |-> OnLegs(popped, legs, at)] :
        legs \in Routes(r.x, r.prov, Dest(r), Head(r.way))}

------------------------------------------------------------------------------
(***************************************************************************)
(* The loop.  advanceTime runs at the head of every iteration and is a     *)
(* step of its own; a refused command other than a queued move does no     *)
(* more, and leaves due events on the timeline.                            *)
(***************************************************************************)
AdvanceTime ==
    /\ pc = "idle"
    /\ \A e \in timeline : e.at - 1 >= -MaxLag
    /\ units' = [u \in DOMAIN units |->
                   IF units[u].path = <<>> \/ units[u].left < -MaxLag THEN units[u]
                   ELSE [units[u] EXCEPT !.left = @ - 1]]
    /\ timeline' = {[e EXCEPT !.at = @ - 1] : e \in timeline}
    /\ UNCHANGED <<owner, diplomacy, ending, pc, field>>

Tick ==
    /\ pc = "idle" /\ pc' = "drain"
    /\ UNCHANGED <<units, timeline, owner, diplomacy, ending, field>>

\* The diplomacy commands, whose conditions Diplomacy states.  Dispatch refuses
\* every command of a match that is not active.
Agree(a, b, stance) ==
    /\ pc = "idle" /\ matchStatus = "active"
    /\ a # b /\ D!Stance(a, b) # stance
    /\ treaty' = [treaty EXCEPT ![{a, b}] = [stance |-> stance]]
    /\ pacts' = IF stance = "war" THEN pacts \ D!PactsBetween({a, b}) ELSE pacts
    /\ pc' = "drain"
    /\ UNCHANGED <<units, timeline, owner, ending, field>>

GrantPassage(from, to) ==
    /\ pc = "idle" /\ matchStatus = "active"
    /\ ~D!HasPact(from, to, "right_of_way")
    /\ pacts' = pacts \cup {[from |-> from, to |-> to, kind |-> "right_of_way"]}
    /\ pc' = "drain"
    /\ UNCHANGED <<units, timeline, owner, treaty, ending, field>>

RevokePassage(from, to) ==
    /\ pc = "idle" /\ matchStatus = "active"
    /\ D!HasPact(from, to, "right_of_way")
    /\ pacts' = {g \in pacts : ~(g.from = from /\ g.to = to)}
    /\ pc' = "drain"
    /\ UNCHANGED <<units, timeline, owner, treaty, ending, field>>

\* Mutant: the version is not bumped, so the old arrival stays valid.
MoveUnversioned(u, t) ==
    /\ pc = "idle" /\ matchStatus = "active"
    /\ u \in DOMAIN units /\ Cardinality(timeline) < MaxEvents
    /\ LET r == units[u] IN
       \E legs \in Routes(PositionAt(r, 0), r.prov, Dest(r), t) :
          /\ ~RouteBlocked(r.owner, legs)
          /\ units' = [units EXCEPT ![u] = OnLegs([r EXCEPT !.way = <<>>], legs, 0)]
          /\ timeline' = timeline \cup {Arrival(u, Travel(legs[1]))}
    /\ pc' = "drain"
    /\ UNCHANGED <<owner, diplomacy, ending, field>>

\* A move of its owner: the path is planned from where the unit is now and
\* replaces what it was doing.
Move(u, t) ==
    /\ pc = "idle" /\ matchStatus = "active"
    /\ u \in DOMAIN units /\ Cardinality(timeline) < MaxEvents
    /\ LET r == units[u] IN
       \E legs \in Routes(PositionAt(r, 0), r.prov, Dest(r), t) :
          /\ ~RouteBlocked(r.owner, legs)
          /\ units' = [units EXCEPT ![u] = OnLegs([r EXCEPT !.way = <<>>], legs, 0)]
          /\ timeline' = Bumped(timeline, u) \cup {Arrival(u, Travel(legs[1]))}
    /\ pc' = "drain"
    /\ UNCHANGED <<owner, diplomacy, ending, field>>

\* A queued move.  A unit that is not moving starts on its first waypoint at
\* once; when that is refused, its version is bumped and the waypoint gone.
QueueMove(u, t) ==
    /\ pc = "idle" /\ matchStatus = "active"
    /\ u \in DOMAIN units /\ Cardinality(timeline) < MaxEvents
    /\ Len(units[u].way) < MaxWaypoints
    /\ LET r == [units[u] EXCEPT !.way = Append(@, t)] IN
       IF IsMoving(r, 0)
       THEN /\ units' = [units EXCEPT ![u] = r]
            /\ pc' = "drain" /\ UNCHANGED timeline
       ELSE \E next \in NextWaypoint(r, 0) :
            /\ units' = [units EXCEPT ![u] = next.unit]
            /\ IF next.started
               THEN /\ timeline' = Bumped(timeline, u) \cup {Arrival(u, next.unit.left)}
                    /\ pc' = "drain"
               ELSE /\ timeline' = Bumped(timeline, u)
                    /\ pc' = pc
    /\ UNCHANGED <<owner, diplomacy, ending, field>>

------------------------------------------------------------------------------
(***************************************************************************)
(* Combat and victory.                                                     *)
(***************************************************************************)
NoField == [prov |-> NoSlot, at |-> 0, todo |-> {}, champions |-> <<>>]

Stationary(U, p, at) ==
    {u \in DOMAIN U : U[u].prov = p /\ Dest(U[u]) = p /\ ~IsMoving(U[u], at)}

\* Mutant: the champion takes the strength of the pool twice.
PooledTwice(champion, u) ==
    LET hp == champion.hp + 2 * u.hp IN
    [champion EXCEPT !.hp = hp, !.owner = IF 2 * u.hp > hp THEN u.owner ELSE @]

\* A further unit of the coalition joins the champion, which changes sides when
\* the newcomer is more than half of the pool.
Pooled(champion, u) ==
    LET hp == champion.hp + u.hp IN
    [champion EXCEPT !.hp = hp, !.owner = IF 2 * u.hp > hp THEN u.owner ELSE @]

\* resolveProvince: the units at rest are gathered for a battle.
Engage(U, p, at) ==
    /\ units' = U
    /\ field' = [prov |-> p, at |-> at, todo |-> Stationary(U, p, at), champions |-> <<>>]
    /\ pc' = "gather"

Gathered(u) == pc' = IF field.todo = {u} THEN "fight" ELSE "gather"

\* The first unit of a coalition is its champion.
Lead(u, coalition) ==
    /\ coalition \notin DOMAIN field.champions
    /\ field' = [field EXCEPT !.todo = @ \ {u},
                  !.champions = [c \in DOMAIN @ \cup {coalition} |->
                                    IF c = coalition THEN u ELSE @[c]]]
    /\ UNCHANGED units

\* It takes in the others, which leave the match.
Join(u, coalition) ==
    /\ coalition \in DOMAIN field.champions
    /\ LET champion == field.champions[coalition] IN
       units' = [v \in DOMAIN units \ {u} |->
                    IF v = champion THEN Pooled(units[v], units[u]) ELSE units[v]]
    /\ field' = [field EXCEPT !.todo = @ \ {u}]

\* collapseChampions, one turn of its loop: units come in the order of a map,
\* which is any order.
CollapseChampions ==
    /\ pc = "gather"
    /\ \E u \in field.todo :
          LET coalition == D!CoalitionID(units[u].owner) IN
          /\ Lead(u, coalition) \/ Join(u, coalition)
          /\ Gathered(u)
    /\ UNCHANGED <<timeline, owner, diplomacy, ending>>

Strength(c) ==
    LET u == field.champions[c] IN IF u \in DOMAIN units THEN units[u].hp ELSE 0

Weakest == {c \in DOMAIN field.champions :
               \A b \in DOMAIN field.champions : Strength(c) <= Strength(b)}

\* Mutant: a champion that fell stays on the list even when it is the leader's.
FightRoundKeepsFallen ==
    /\ pc = "fight" /\ Cardinality(DOMAIN field.champions) > 1
    /\ \E c \in Weakest, hit \in Hits :
          LET u == field.champions[c] IN
          IF u \notin DOMAIN units THEN UNCHANGED units
          ELSE IF units[u].hp > hit THEN units' = [units EXCEPT ![u].hp = @ - hit]
          ELSE units' = Restrict(units, DOMAIN units \ {u})
    /\ UNCHANGED <<field, timeline, owner, diplomacy, ending, pc>>

\* Mutant: a unit is gone only when it is hit below zero.
FightRoundSpares ==
    /\ pc = "fight" /\ Cardinality(DOMAIN field.champions) > 1
    /\ \E c \in Weakest, hit \in Hits :
          LET u == field.champions[c] IN
          IF u \notin DOMAIN units THEN UNCHANGED <<units, field>>
          ELSE IF units[u].hp >= hit
          THEN units' = [units EXCEPT ![u].hp = @ - hit] /\ UNCHANGED field
          ELSE /\ units' = Restrict(units, DOMAIN units \ {u})
               /\ field' = [field EXCEPT !.champions =
                              Restrict(@, DOMAIN @ \ {units[u].owner})]
    /\ UNCHANGED <<timeline, owner, diplomacy, ending, pc>>

\* One round: the weakest champion is hit.  Champions are listed by coalition
\* but a fallen one is taken off the list by its owner, so that only the
\* leader's own unit leaves it; another's goes on losing.
FightRound ==
    /\ pc = "fight" /\ Cardinality(DOMAIN field.champions) > 1
    /\ \E c \in Weakest, hit \in Hits :
          LET u == field.champions[c] IN
          IF u \notin DOMAIN units THEN UNCHANGED <<units, field>>
          ELSE IF units[u].hp > hit
          THEN units' = [units EXCEPT ![u].hp = @ - hit] /\ UNCHANGED field
          ELSE /\ units' = Restrict(units, DOMAIN units \ {u})
               /\ field' = [field EXCEPT !.champions =
                              Restrict(@, DOMAIN @ \ {units[u].owner})]
    /\ UNCHANGED <<timeline, owner, diplomacy, ending, pc>>

\* Mutant: a match that has ended is looked at again.
CheckVictoryAgain(own, T, at) ==
    LET holders == {own[p] : p \in Capitals} \ {NoSlot} IN
    IF holders # {} /\ \A a, b \in holders : SameCoalition(a, b)
    THEN /\ matchStatus' = "ended" /\ winners' = holders
         /\ timeline' = T \cup {CleanupEvent(at + CleanupDelay)}
    ELSE timeline' = T /\ UNCHANGED <<matchStatus, winners>>

\* Mutant: no cleanup is scheduled.
CheckVictoryOnly(own, T, at) ==
    LET holders == {own[p] : p \in Capitals} \ {NoSlot} IN
    /\ timeline' = T
    /\ IF matchStatus = "active" /\ holders # {} /\ \A a, b \in holders : SameCoalition(a, b)
       THEN matchStatus' = "ended" /\ winners' = holders
       ELSE UNCHANGED <<matchStatus, winners>>

\* checkVictory, after the provinces have become own.
CheckVictory(own, T, at) ==
    LET holders == {own[p] : p \in Capitals} \ {NoSlot} IN
    IF matchStatus = "active" /\ holders # {} /\ \A a, b \in holders : SameCoalition(a, b)
    THEN /\ matchStatus' = "ended" /\ winners' = holders
         /\ timeline' = T \cup {CleanupEvent(at + CleanupDelay)}
    ELSE timeline' = T /\ UNCHANGED <<matchStatus, winners>>

\* Mutant: allies take each other's provinces.
CaptureAlways ==
    /\ pc = "fight" /\ Cardinality(DOMAIN field.champions) = 1
    /\ LET winner == units[field.champions[CHOOSE c \in DOMAIN field.champions : TRUE]]
           own == [owner EXCEPT ![field.prov] = winner.owner]
       IN  owner' = own /\ CheckVictory(own, timeline, field.at)
    /\ pc' = "drain" /\ field' = NoField
    /\ UNCHANGED <<units, diplomacy, cleaned>>

\* captureIfOwnerChanged and what follows the battle in every caller.
Capture ==
    /\ pc = "fight" /\ Cardinality(DOMAIN field.champions) = 1
    /\ LET winner == units[field.champions[CHOOSE c \in DOMAIN field.champions : TRUE]]
           held == owner[field.prov]
           own == IF held # NoSlot /\ SameCoalition(held, winner.owner) THEN owner
                  ELSE [owner EXCEPT ![field.prov] = winner.owner]
       IN  owner' = own /\ CheckVictory(own, timeline, field.at)
    /\ pc' = "drain" /\ field' = NoField
    /\ UNCHANGED <<units, diplomacy, cleaned>>

------------------------------------------------------------------------------
(***************************************************************************)
(* The timeline.  Events of one instant come in any order.                 *)
(***************************************************************************)
Due(e) == e \in timeline /\ e.at <= 0 /\ \A f \in timeline : e.at <= f.at

\* hostileUnitOnLeg: an enemy on the same edge, close to where u has arrived.
MeetsEnemy(u, leg, at) ==
    \E v \in DOMAIN units \ {u} :
        LET edge == IF units[v].path = <<>> THEN <<units[v].prov, units[v].prov>>
                    ELSE <<units[v].path[1].from, units[v].path[1].to>>
        IN  /\ D!Stance(units[u].owner, units[v].owner) = "war"
            /\ edge \in {<<leg.from, leg.to>>, <<leg.to, leg.from>>}
            /\ Dist(leg.tx, PositionAt(units[v], at)) <= CollisionRadius

\* An event whose unit is gone or has a newer version does nothing.
DropStale ==
    /\ pc = "drain"
    /\ \E e \in timeline :
          /\ Due(e) /\ e.kind = "arrival"
          /\ ~e.live \/ \A u \in e.unit : u \notin DOMAIN units
          /\ timeline' = timeline \ {e}
    /\ UNCHANGED <<units, owner, diplomacy, ending, pc, field>>

\* Mutant: the next leg gets no arrival.
NextLegUnscheduled(u, e, landed) ==
    LET legs == Tail(units[u].path) IN
    /\ units' = [units EXCEPT ![u] = OnLegs(landed, legs, e.at)]
    /\ CheckVictory(owner, timeline \ {e}, e.at)
    /\ UNCHANGED <<pc, field>>

\* The unit goes on to the next leg of its path.
NextLeg(u, e, landed) ==
    LET legs == Tail(units[u].path) IN
    /\ units' = [units EXCEPT ![u] = OnLegs(landed, legs, e.at)]
    /\ CheckVictory(owner, (timeline \ {e}) \cup {Arrival(u, e.at + Travel(legs[1]))}, e.at)
    /\ UNCHANGED <<pc, field>>

\* The path is done: the next waypoint, or a battle where there is none or no
\* way to it.
PathDone(u, e, landed) ==
    IF landed.way = <<>>
    THEN /\ Engage([units EXCEPT ![u] = landed], landed.prov, e.at)
         /\ timeline' = timeline \ {e}
         /\ UNCHANGED <<matchStatus, winners>>
    ELSE \E next \in NextWaypoint(landed, e.at) :
         IF next.started
         THEN /\ units' = [units EXCEPT ![u] = next.unit]
              /\ CheckVictory(owner, (timeline \ {e}) \cup {Arrival(u, next.unit.left)}, e.at)
              /\ UNCHANGED <<pc, field>>
         ELSE /\ Engage([units EXCEPT ![u] = next.unit], landed.prov, e.at)
              /\ timeline' = timeline \ {e}
              /\ UNCHANGED <<matchStatus, winners>>

\* CompleteUnitLeg.  (The branch of the arrival handler for a unit without a
\* path serves events that only tests push.)
Arrive(u) ==
    /\ pc = "drain"
    /\ u \in DOMAIN units
    /\ \E e \in timeline :
          /\ Due(e) /\ e.unit = {u} /\ e.live
          /\ LET leg == units[u].path[1]
                 landed == [units[u] EXCEPT !.prov = leg.to, !.x = leg.tx,
                                            !.path = <<>>, !.left = 0]
             IN  IF HostileLegEnd(units[u].owner, leg.to) \/ MeetsEnemy(u, leg, e.at)
                 THEN /\ Engage([units EXCEPT ![u] = [landed EXCEPT !.way = <<>>]],
                                leg.to, e.at)
                      /\ timeline' = timeline \ {e}
                      /\ UNCHANGED <<matchStatus, winners>>
                 ELSE IF Len(units[u].path) > 1 THEN NextLeg(u, e, landed)
                 ELSE PathDone(u, e, landed)
    /\ UNCHANGED <<owner, diplomacy, cleaned>>

Cleanup ==
    /\ pc = "drain"
    /\ \E e \in timeline :
          Due(e) /\ e.kind = "cleanup" /\ timeline' = timeline \ {e}
    /\ cleaned' = TRUE
    /\ UNCHANGED <<units, owner, diplomacy, matchStatus, winners, pc, field>>

\* Nothing is due: the iteration is over, and with it perhaps the loop.
TimelineDrained ==
    /\ pc = "drain"
    /\ \A e \in timeline : e.at > 0
    /\ pc' = IF matchStatus = "ended" /\ cleaned THEN "over" ELSE "idle"
    /\ UNCHANGED <<units, timeline, owner, diplomacy, ending, field>>

SInit ==
    /\ units = [u \in Units |-> AtRest(Post[u].owner, Post[u].prov)]
    /\ timeline = {}
    /\ owner = Home
    /\ treaty = [p \in D!Pairs |-> [stance |-> "war"]] /\ pacts = {}
    /\ matchStatus = "active" /\ winners = {} /\ cleaned = FALSE
    /\ pc = "idle" /\ field = NoField

Command ==
    \/ \E u \in Units, t \in Targets : Move(u, t) \/ QueueMove(u, t)
    \/ \E a, b \in Slots, s \in Agreements : Agree(a, b, s)
    \/ \E g \in Grants : GrantPassage(g[1], g[2]) \/ RevokePassage(g[1], g[2])

Event == DropStale \/ (\E u \in Units : Arrive(u)) \/ Cleanup

SNext ==
    \/ AdvanceTime \/ Tick \/ Command
    \/ Event \/ TimelineDrained \/ CollapseChampions \/ FightRound \/ Capture

SSpec == SInit /\ [][SNext]_simVars

\* The loop never stops inside an iteration, the ticker is selected again and
\* again among ready commands (select picks at random), and time passes.
SFairSpec ==
    /\ SSpec
    /\ WF_simVars(Event \/ TimelineDrained \/ CollapseChampions \/ FightRound \/ Capture)
    /\ SF_simVars(AdvanceTime) /\ SF_simVars(Tick)

------------------------------------------------------------------------------
(***************************************************************************)
(* Properties.                                                             *)
(***************************************************************************)
Coordinates == {Place[p] : p \in Provinces} \cup {t.x : t \in Targets}

LegType == [from : Provinces, to : Provinces, fx : Int, tx : Coordinates]

\* Every variable keeps its type, and a battle has a champion.
STypeOK ==
    /\ DOMAIN units \subseteq Units
    /\ \A u \in DOMAIN units :
          /\ units[u].owner \in Slots /\ units[u].hp \in Nat \ {0}
          /\ units[u].prov \in Provinces /\ units[u].left \in Int
          /\ units[u].path \in Seq(LegType) /\ units[u].way \in Seq(Targets)
    /\ \A e \in timeline : e.at \in Int /\ e.unit \subseteq Units
    /\ owner \in [Provinces -> Slots \cup {NoSlot}]
    /\ matchStatus \in {"active", "ended"} /\ winners \subseteq Slots
    /\ cleaned \in BOOLEAN
    /\ pc \in {"idle", "drain", "gather", "fight", "over"}
    /\ pc \in {"gather", "fight"} <=> field # NoField
    /\ pc = "fight" => DOMAIN field.champions # {}

LiveArrivals(u) == {e \in timeline : e.live /\ e.unit = {u}}

\* timeline.go:23-26: the version of an event is what tells the arrival of a
\* unit's current leg from those of the paths it gave up.  A unit never has two
\* valid arrivals, it has one only while it is on a path, and it then comes at
\* the end of the current leg.
OneValidArrival ==
    \A u \in Units : \A e, f \in LiveArrivals(u) :
        /\ e = f
        /\ u \in DOMAIN units => units[u].path # <<>> /\ e.at = units[u].left

\* movement.go:74-84: a unit with time left on its leg has its arrival on the
\* timeline, or it would march for ever.  An overdue leg is left out: there a
\* refused queued move does take the arrival away (move.go:43).
UnderWayArrives ==
    \A u \in DOMAIN units : IsMoving(units[u], 0) => LiveArrivals(u) # {}

Total(U) == MapThenSumSet(LAMBDA u : U[u].hp, DOMAIN U)

\* combat.go:41-63: allies pool their strength.  Nothing but a round of combat
\* changes how strong the units of a match are together, and a round only
\* lowers it.
StrengthIsConserved ==
    [][/\ Total(units') <= Total(units)
       /\ pc # "fight" => Total(units') = Total(units)]_simVars

\* combat.go:94-98: a province changes hands only to the owner of a unit that
\* stands in it, never between members of one coalition, and all that stand in
\* it then are of one coalition.
HolderStandsThere ==
    [][\A p \in Provinces : owner'[p] # owner[p] =>
          /\ owner[p] # NoSlot => ~SameCoalition(owner[p], owner'[p])
          /\ \E u \in DOMAIN units : units[u].owner = owner'[p] /\ units[u].prov = p
          /\ \A u \in Stationary(units, p, field.at) :
                SameCoalition(units[u].owner, owner'[p])]_simVars

\* victory.go:16-17: a match ends once.  However many units are still under way
\* to their capitals when it does, it is cleaned up once, and only then.
EndsOnce ==
    Cardinality({e \in timeline : e.kind = "cleanup"}) + (IF cleaned THEN 1 ELSE 0)
        = IF matchStatus = "ended" THEN 1 ELSE 0

\* A battle whose champions are leaders' own units comes to an end.
LeadersFinish ==
    (pc = "fight" /\ \A c \in DOMAIN field.champions :
                        LET u == field.champions[c] IN u \in DOMAIN units /\ units[u].owner = c)
        ~> pc # "fight"

\* A battle that goes on for ever: a fallen champion is still listed.
Endless == pc = "fight" /\ \E c \in DOMAIN field.champions : Strength(c) = 0

\* stats.go:5-7: a match that ended is cleaned up, whatever is still going on
\* in it, and the loop leaves.
EndedIsCleanedUp == matchStatus = "ended" ~> pc = "over" \/ Endless

(***************************************************************************)
(* What comments say and the code does not do.                             *)
(***************************************************************************)
\* combat.go:15-16: a fight ends, with one coalition taking the province.
FightsEnd == pc = "fight" ~> pc # "fight"

\* registry.go:139-141: two slots fight only when their stance is war.
OnlyEnemiesFight ==
    pc = "fight" =>
        \A a, b \in DOMAIN field.champions :
            LET u == field.champions[a]
                v == field.champions[b]
            IN  a # b /\ u \in DOMAIN units /\ v \in DOMAIN units
                    => D!Stance(units[u].owner, units[v].owner) = "war"

==============================================================================

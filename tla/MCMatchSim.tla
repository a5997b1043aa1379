------------------------------ MODULE MCMatchSim ------------------------------
(***************************************************************************)
(* Instances of MatchSim for TLC.  A road: two capitals three ticks apart, *)
(* a unit in each, and a place on the road that routes lead to through the *)
(* eastern capital.  A duel: two capitals one tick apart and three slots,  *)
(* the third with a unit in the west and no capital.                       *)
(***************************************************************************)
EXTENDS MatchSim, TLC

CONSTANTS a1, a2, a3

TwoUnits == {a1, a2}
ThreeUnits == {a1, a2, a3}
TwoSlots == {1, 2}
ThreeSlots == {1, 2, 3}
WestEast == {1, 2}
OneRoad == {{1, 2}}
HomeOwners == 1 :> 1 @@ 2 :> 2
OneHit == {1}
EastGrants == {<<2, 1>>}
NoGrants == {}
AllStances == {"war", "peace", "alliance"}
Alliances == {"war", "alliance"}

RoadPosts == a1 :> [owner |-> 1, prov |-> 1] @@ a2 :> [owner |-> 2, prov |-> 2]
RoadPlaces == 1 :> 0 @@ 2 :> 3
RoadTargets == {[goal |-> 1, x |-> 0], [goal |-> 2, x |-> 3], [goal |-> 2, x |-> 2]}

DuelPosts == RoadPosts @@ a3 :> [owner |-> 3, prov |-> 1]
DuelPlaces == 1 :> 0 @@ 2 :> 1
DuelTargets == {[goal |-> 1, x |-> 0], [goal |-> 2, x |-> 1]}

==============================================================================

------------------------------- MODULE MCMatch -------------------------------
(***************************************************************************)
(* A match for TLC: its row in the lobby, the goroutines of its loop, or   *)
(* the events the loop takes off the timeline.  They share no state, so in *)
(* a behaviour one of them moves and the others rest: TLC explores them    *)
(* one by one instead of their product.                                    *)
(***************************************************************************)
EXTENDS MCEngineRunner, MCMatchSim, MatchLobby

CONSTANTS h1, h2, u1

VARIABLE moving

matchVars == <<moving, rvars, simVars, lobbyVars>>

MatchInit ==
    /\ moving \in {"goroutines", "events", "lobby"}
    /\ RInit /\ SInit /\ LInit

\* Bounds.  Nothing tells the two commands apart: the first is published first.
\* Of a second delivery of the start, a ForceEnd and a crash, two in a behaviour.
GoroutineBounds ==
    /\ cmdMsg'[c2] # "unsent" => cmdMsg'[c1] # "unsent"
    /\ starts' + ends' + crashes' <= 3

\* Nothing tells the two requests apart: one that comes alone is the first.
RequestBounds == At(h2, "idle") /\ ~At(h2, "idle")' => ~At(h1, "idle")

MatchNext ==
    /\ UNCHANGED moving
    /\ \/ moving = "goroutines" /\ RNext /\ GoroutineBounds /\ UNCHANGED <<simVars, lobbyVars>>
       \/ moving = "events" /\ SNext /\ UNCHANGED <<rvars, lobbyVars>>
       \/ moving = "lobby" /\ LNext /\ RequestBounds /\ UNCHANGED <<rvars, simVars>>

MatchSpec == MatchInit /\ [][MatchNext]_matchVars

\* Lobby: two requests at a time, one human, a slot that is not on the map.
TwoHandlers == {h1, h2}
OneHuman == {u1}
OffTheMap == {3}

==============================================================================

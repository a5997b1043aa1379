------------------------------- MODULE MCRealm -------------------------------
(***************************************************************************)
(* What the players of a match share, for TLC: the registry of diplomacy,  *)
(* the vision through it, the chat, the economy, and a connection of the   *)
(* gateway that shows it all to one of them.  In a behaviour one of them   *)
(* moves and the others rest: TLC explores them one by one instead of      *)
(* their product.  The registry is part of the vision; on its own it goes  *)
(* on for longer, between two of the slots.                                *)
(***************************************************************************)
EXTENDS ViewerCache, Chat, Economy, Gateway, TLC

CONSTANT LookedAt   \* bound of the version while the vision moves

VARIABLE moving

realmVars == <<moving, vvars, chatVars, economyVars, gatewayVars>>

RealmInit ==
    /\ moving \in {"registry", "vision", "chat", "economy", "gateway"}
    /\ VInit /\ CInit /\ EInit /\ GInit
    /\ indexed => moving = "gateway"

\* Two slots, pacts of both kinds.
BetweenTwo == \A p \in Pairs : p # {1, 2} => ~treaty'[p].known /\ \A g \in pacts' : {g.from, g.to} # p

\* The third slot has no province and takes none.
HeldByTwo == \A p \in Provinces : owner'[p] # 3

\* Three slots, and the agreements that lend vision.  Time passes once, after
\* an alliance may have been made.  Two of the three look.
InView ==
    /\ shown'.viewer # 3
    /\ version' <= LookedAt /\ now' <= 1 /\ (now' # now => version = 2)
    /\ \A g \in pacts' : g.kind = "share_map"
    /\ \A p \in Pairs : treaty'[p].pending # "peace"

RealmNext ==
    /\ UNCHANGED moving
    /\ \/ /\ moving = "registry" /\ DNext /\ BetweenTwo
          /\ UNCHANGED <<visVersion, vis, shown, chatVars, economyVars, gatewayVars>>
       \/ /\ moving = "vision" /\ VNext /\ InView
          /\ UNCHANGED <<chatVars, economyVars, gatewayVars>>
       \/ moving = "chat" /\ CNext /\ UNCHANGED <<vvars, economyVars, gatewayVars>>
       \/ moving = "economy" /\ ENext /\ HeldByTwo /\ UNCHANGED <<vvars, chatVars, gatewayVars>>
       \/ moving = "gateway" /\ GNext /\ UNCHANGED <<vvars, chatVars, economyVars>>

RealmSpec == RealmInit /\ [][RealmNext]_realmVars

ThreeSlots == {1, 2, 3}
BothKinds == {"share_map", "right_of_way"}

\* Chat: two players at the ends of a chain of alliances, somebody who does not
\* play, and a connection of the first player to another match.
ChatPlayers == "ann" :> 1 @@ "bob" :> 3 @@ "eve" :> NoSlot
ChatConns == {[user |-> "ann", slot |-> 1, here |-> TRUE], [user |-> "bob", slot |-> 3, here |-> TRUE],
              [user |-> "ann", slot |-> NoSlot, here |-> FALSE]}
Chain == {{1, 2}, {2, 3}}

\* Economy: two provinces, one good, a unit that needs a factory, prices of two.
TwoHomes == "north" :> 1 @@ "south" :> 2
Halves == "armor" :> ("iron" :> 1) @@ "factory" :> ("iron" :> 1)
ArmorNeedsFactory == "armor" :> {"factory"}
OneIron == "iron" :> 1
FactoryYields == "factory" :> ("iron" :> 1)

==============================================================================

-------------------------------- MODULE Seats --------------------------------
(***************************************************************************)
(* The slots of one match.  They are strings in the code, of which only    *)
(* equality and order matter.                                              *)
(***************************************************************************)
EXTENDS Naturals, FiniteSets

CONSTANTS
    Slots,   \* the seats of the map
    NoSlot   \* the empty slot id: a province without owner, a user without seat

ASSUME SeatsAssumption ==
    Slots \subseteq Nat /\ IsFiniteSet(Slots) /\ NoSlot \notin Slots

==============================================================================

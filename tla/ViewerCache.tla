----------------------------- MODULE ViewerCache -----------------------------
(***************************************************************************)
(* The cache of vision contributors (internal/domain/visibility) over the  *)
(* registry of Diplomacy.  Every broadcast asks, for each viewer, whose    *)
(* eyes the viewer borrows; the answer is kept on the match and thrown     *)
(* away only when the registry's version differs from the one it was       *)
(* computed at.  Every command of the registry must therefore bump the     *)
(* version, or a slot keeps seeing through an ally that broke with it.     *)
(***************************************************************************)
EXTENDS Diplomacy

VARIABLES
    visVersion,  \* Match.VisContributorVersion
    vis,         \* Match.VisContributors: a set of slots, or NotCached
    shown        \* the last perspective served: viewer and contributors

vvars == <<dvars, visVersion, vis, shown>>

NotCached == {NoSlot}
NobodyYet == [viewer |-> NoSlot, eyes |-> {}]

\* Mutant: allies of allies are left out.
ComputeDirect(slot) == {other \in Slots : SeesThrough(slot, other)}

\* computeViewerContributors: the coalition and every slot seen through.
ComputeViewerContributors(slot) ==
    Coalition(slot) \cup {other \in Slots : SeesThrough(slot, other)}

\* Mutant: the cache is stamped with the version that comes next.
ViewerContributorsAhead(slot) ==
    LET kept == IF visVersion = version THEN vis ELSE [s \in Slots |-> NotCached]
        eyes == IF kept[slot] # NotCached
                THEN kept[slot] ELSE ComputeViewerContributors(slot)
    IN  /\ vis' = [kept EXCEPT ![slot] = eyes]
        /\ visVersion' = version + 1
        /\ shown' = [viewer |-> slot, eyes |-> eyes]
        /\ UNCHANGED dvars

\* viewerContributors: a cache of another version is dropped as a whole, then
\* the viewer's entry is served or computed.
ViewerContributors(slot) ==
    LET fresh == visVersion = version
        kept == IF fresh THEN vis ELSE [s \in Slots |-> NotCached]
        eyes == IF kept[slot] # NotCached
                THEN kept[slot] ELSE ComputeViewerContributors(slot)
    IN  /\ vis' = [kept EXCEPT ![slot] = eyes]
        /\ visVersion' = version
        /\ shown' = [viewer |-> slot, eyes |-> eyes]
        /\ UNCHANGED dvars

VInit ==
    /\ DInit
    /\ visVersion = 0
    /\ vis = [s \in Slots |-> NotCached]
    /\ shown = NobodyYet

RegistryStep == DNext /\ shown' = NobodyYet /\ UNCHANGED <<visVersion, vis>>

VNext == RegistryStep \/ \E slot \in Slots : ViewerContributors(slot)

VSpec == VInit /\ [][VNext]_vvars

------------------------------------------------------------------------------
(***************************************************************************)
(* Properties                                                              *)
(***************************************************************************)

\* The cache's type.
VTypeOK ==
    /\ visVersion \in 0..version
    /\ vis \in [Slots -> (SUBSET Slots) \cup {NotCached}]
    /\ shown.viewer \in Slots \cup {NoSlot} /\ shown.eyes \subseteq Slots

\* visibility.go:95-98: what a viewer is shown is computed from the treaties
\* and pacts in force at that moment, whatever the cache held.
ShownIsCurrent ==
    shown # NobodyYet => shown.eyes = ComputeViewerContributors(shown.viewer)

\* Every entry a hit could serve is current.
CacheIsCurrent ==
    visVersion = version =>
        \A s \in Slots : vis[s] # NotCached => vis[s] = ComputeViewerContributors(s)

\* A viewer shares the eyes of the whole coalition: two allies, however long
\* the chain between them, see through each other.
AlliesShareEyes ==
    shown # NobodyYet =>
        \A s \in Slots : shown.viewer \in Coalition(s) => s \in shown.eyes

==============================================================================

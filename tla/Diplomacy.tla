------------------------------ MODULE Diplomacy ------------------------------
(***************************************************************************)
(* The diplomatic registry of one match (internal/domain/diplomacydom) and *)
(* the eight commands that change it (internal/domain/cmddom).  Every pair *)
(* of slots has at most one treaty, a pair without one is at war; pacts    *)
(* are unilateral grants.  All commands run on the match loop, so a step   *)
(* is one whole handler.  A refused command leaves the registry as it is   *)
(* and is not a step.                                                      *)
(***************************************************************************)
EXTENDS Integers, Seats

CONSTANTS
    Kinds,       \* the pact kinds granted in this instance
    Cooldown,    \* CooldownBetweenChanges, in ticks of game time
    MaxTime,     \* bound: the last tick of game time
    MaxVersion   \* bound: no command runs once the version reaches it

ASSUME DiplomacyAssumption ==
    /\ Kinds \subseteq {"share_map", "right_of_way"}
    /\ Cooldown \in Nat
    /\ MaxTime \in Nat
    /\ MaxVersion \in Nat

VARIABLES
    now,         \* match.GameNow
    treaty,      \* Registry.treaties, a record for every pair
    pacts,       \* Registry.pacts
    version,     \* Registry.version
    lastCommit,  \* history: when the pair's stance last changed, or Never
    lastWar,     \* history: when war was last declared in the pair, or Never
    offers       \* history: the offers made since the stance last changed

registry == <<treaty, pacts, version>>
history == <<lastCommit, lastWar, offers>>
dvars == <<now, treaty, pacts, version, lastCommit, lastWar, offers>>

------------------------------------------------------------------------------
Never == -1
Stances == {"war", "peace", "alliance"}
Offered == {"peace", "alliance"}

Pairs == {p \in SUBSET Slots : \E a, b \in Slots : a # b /\ p = {a, b}}

\* known is FALSE while the map has no record of the pair.
Treaty == [known : BOOLEAN, stance : Stances, pending : Offered \cup {"none"},
           pendingFrom : Slots \cup {NoSlot}, changedAt : Nat,
           by : Slots \cup {NoSlot}]

NoTreaty == [known |-> FALSE, stance |-> "war", pending |-> "none",
             pendingFrom |-> NoSlot, changedAt |-> 0, by |-> NoSlot]

Pact == [from : Slots, to : Slots, kind : Kinds, at : Nat]

Stance(a, b) == IF a = b THEN "peace" ELSE treaty[{a, b}].stance

OnCooldown(p) == treaty[p].known /\ now - treaty[p].changedAt < Cooldown

HasPact(from, to, kind) ==
    from = to \/ \E g \in pacts : g.from = from /\ g.to = to /\ g.kind = kind

\* Mutant: only the right of way is revoked.
PactsBetweenOneKind(p) == {g \in pacts : {g.from, g.to} = p /\ g.kind = "right_of_way"}

PactsBetween(p) == {g \in pacts : {g.from, g.to} = p}

\* Coalition: the slots reached from s over alliances, as the least set that
\* holds s and is closed under alliance: t is in it unless a closed set holds s
\* and not t.
ClosedUnderAlliance(C) ==
    \A a \in C, b \in Slots \ C : Stance(a, b) # "alliance"

\* Mutant: direct allies only.
CoalitionDirect(s) == {t \in Slots : t = s \/ Stance(s, t) = "alliance"}

Coalition(s) ==
    {t \in Slots : ~\E C \in SUBSET (Slots \ {t}) : s \in C /\ ClosedUnderAlliance(C)}

\* The smallest slot of the coalition.
CoalitionID(s) ==
    LET members == Coalition(s) IN
    CHOOSE leader \in members : \A t \in members : leader <= t

SeesThrough(viewer, owner) ==
    \/ viewer = owner
    \/ Stance(viewer, owner) = "alliance"
    \/ HasPact(owner, viewer, "share_map")

MayMoveThrough(mover, owner) ==
    \/ owner = NoSlot
    \/ mover = owner
    \/ Stance(mover, owner) = "alliance"
    \/ Stance(mover, owner) = "peace" /\ HasPact(owner, mover, "right_of_way")

------------------------------------------------------------------------------
\* Mutant: the transition does not stamp the record.
UpsertedUnstamped(p, stance, pending, pendingFrom, changeFrom) ==
    [treaty EXCEPT ![p] =
        [known |-> TRUE, stance |-> stance, pending |-> pending,
         pendingFrom |-> pendingFrom, changedAt |-> Never,
         by |-> IF changeFrom = NoSlot THEN @.by ELSE changeFrom]]

\* upsert: every transition stamps changedAt; changeFrom is stored only when
\* the transition is a committed change.
Upserted(p, stance, pending, pendingFrom, changeFrom) ==
    [treaty EXCEPT ![p] =
        [known |-> TRUE, stance |-> stance, pending |-> pending,
         pendingFrom |-> pendingFrom, changedAt |-> now,
         by |-> IF changeFrom = NoSlot THEN @.by ELSE changeFrom]]

\* DeclareWar: bumps once for the treaty, once for the pacts if there were
\* any, and once more on its own.
DeclareWar(from, target) ==
    LET p == {from, target} IN
    /\ Stance(from, target) # "war"
    /\ ~OnCooldown(p)
    /\ treaty' = Upserted(p, "war", "none", NoSlot, from)
    /\ pacts' = pacts \ PactsBetween(p)
    /\ version' = version + (IF PactsBetween(p) = {} THEN 2 ELSE 3)
    /\ lastCommit' = [lastCommit EXCEPT ![p] = now]
    /\ lastWar' = [lastWar EXCEPT ![p] = now]
    /\ offers' = [offers EXCEPT ![p] = {}]

\* Mutant: an offer ignores the cooldown, like its acceptance.
ProposeUnchecked(from, target, kind) ==
    LET p == {from, target} IN
    /\ ~(treaty[p].known /\ treaty[p].stance = kind)
    /\ treaty' = Upserted(p, treaty[p].stance, kind, from, NoSlot)
    /\ version' = version + 1
    /\ offers' = [offers EXCEPT ![p] = @ \cup {<<from, kind>>}]
    /\ UNCHANGED <<pacts, lastCommit, lastWar>>

\* propose: ProposePeace and ProposeAlliance.  The stance stays, but the
\* record is stamped, and an offer of the other side is overwritten.
Propose(from, target, kind) ==
    LET p == {from, target} IN
    /\ ~(treaty[p].known /\ treaty[p].stance = kind)
    /\ ~OnCooldown(p)
    /\ treaty' = Upserted(p, treaty[p].stance, kind, from, NoSlot)
    /\ version' = version + 1
    /\ offers' = [offers EXCEPT ![p] = @ \cup {<<from, kind>>}]
    /\ UNCHANGED <<pacts, lastCommit, lastWar>>

\* Mutant: either side can accept, the one that made the offer too.
AcceptOwn(accepter, other, kind) ==
    LET p == {accepter, other} IN
    /\ treaty[p].known
    /\ treaty[p].pending = kind
    /\ treaty' = Upserted(p, kind, "none", NoSlot, accepter)
    /\ version' = version + 1
    /\ lastCommit' = [lastCommit EXCEPT ![p] = now]
    /\ offers' = [offers EXCEPT ![p] = {}]
    /\ UNCHANGED <<pacts, lastWar>>

\* accept: AcceptPeace and AcceptAlliance.  No cooldown is checked here.
Accept(accepter, other, kind) ==
    LET p == {accepter, other} IN
    /\ treaty[p].known
    /\ treaty[p].pending = kind
    /\ treaty[p].pendingFrom = other
    /\ treaty' = Upserted(p, kind, "none", NoSlot, accepter)
    /\ version' = version + 1
    /\ lastCommit' = [lastCommit EXCEPT ![p] = now]
    /\ offers' = [offers EXCEPT ![p] = {}]
    /\ UNCHANGED <<pacts, lastWar>>

GrantPact(from, to, kind) ==
    /\ ~HasPact(from, to, kind)
    /\ pacts' = pacts \cup {[from |-> from, to |-> to, kind |-> kind, at |-> now]}
    /\ version' = version + 1
    /\ UNCHANGED <<treaty, history>>

\* Mutant: the version is not bumped.
RevokePactSilently(from, to, kind) ==
    /\ HasPact(from, to, kind)
    /\ pacts' = {g \in pacts : ~(g.from = from /\ g.to = to /\ g.kind = kind)}
    /\ UNCHANGED <<treaty, version, history>>

RevokePact(from, to, kind) ==
    /\ HasPact(from, to, kind)
    /\ pacts' = {g \in pacts : ~(g.from = from /\ g.to = to /\ g.kind = kind)}
    /\ version' = version + 1
    /\ UNCHANGED <<treaty, history>>

\* One diplomacy command: resolveTarget refuses the issuer itself and unknown
\* slots before the registry is asked.
Command(from, target) ==
    /\ from # target
    /\ version < MaxVersion
    /\ \/ DeclareWar(from, target)
       \/ \E kind \in Offered : Propose(from, target, kind)
       \/ \E kind \in Offered : Accept(from, target, kind)
       \/ \E kind \in Kinds : GrantPact(from, target, kind)
       \/ \E kind \in Kinds : RevokePact(from, target, kind)
    /\ UNCHANGED now

\* The match loop moves game time between two commands.
AdvanceTime ==
    /\ now < MaxTime
    /\ now' = now + 1
    /\ UNCHANGED <<registry, history>>

DInit ==
    /\ now = 0
    /\ treaty = [p \in Pairs |-> NoTreaty]
    /\ pacts = {}
    /\ version = 0
    /\ lastCommit = [p \in Pairs |-> Never]
    /\ lastWar = [p \in Pairs |-> Never]
    /\ offers = [p \in Pairs |-> {}]

DNext == AdvanceTime \/ \E from, target \in Slots : Command(from, target)

DSpec == DInit /\ [][DNext]_dvars

------------------------------------------------------------------------------
(***************************************************************************)
(* Properties                                                              *)
(***************************************************************************)

\* The variables have their types; the match time is the largest time stored.
TypeOK ==
    /\ now \in 0..MaxTime
    /\ treaty \in [Pairs -> Treaty]
    /\ pacts \subseteq Pact
    /\ version \in Nat
    /\ lastCommit \in [Pairs -> 0..MaxTime \cup {Never}]
    /\ lastWar \in [Pairs -> 0..MaxTime \cup {Never}]
    /\ offers \in [Pairs -> SUBSET (Slots \X Offered)]

\* registry.go:9-11: two stance changes of one pair are at least Cooldown of
\* game time apart, although accept never looks at the clock.
CooldownBetweenChanges ==
    [][\A p \in Pairs :
          treaty'[p].stance # treaty[p].stance /\ lastCommit[p] # Never
              => now - lastCommit[p] >= Cooldown]_dvars

\* types.go:17-19: peace and alliance need both sides.  Whoever did not commit
\* the change had offered that very stance since the stance last changed: an
\* offer that was overwritten or answered earlier is not consent.
PeaceByConsent ==
    [][\A p \in Pairs :
          /\ treaty'[p].stance # treaty[p].stance
          /\ treaty'[p].stance # "war"
          => \E s \in p \ {treaty'[p].by} : <<s, treaty'[p].stance>> \in offers[p]]_dvars

\* transitions.go:127-129: no grant survives a hostile turn.  Every pact in
\* force was granted after the pair last went to war, in either direction.
GrantsPostdateWar ==
    \A g \in pacts : g.at >= lastWar[{g.from, g.to}]

\* registry.go:173-198: the identifier of a coalition is shared by its members
\* and by nobody else, so that coalitions partition the slots and the identifier
\* names the class: combat keys its champions, victory its winner and chat its
\* scope by it.
CoalitionsPartition ==
    \A a \in Slots :
        LET mine == Coalition(a)
            id == CoalitionID(a)
        IN  \A b \in Slots : CoalitionID(b) = id <=> b \in mine

==============================================================================

------------------------------- MODULE Economy -------------------------------
(***************************************************************************)
(* The economy of one match (internal/domain/matchdom, cmddom): slots pay  *)
(* for units and buildings, the timeline completes what was ordered, a     *)
(* pulse pays every slot, and meanwhile provinces change hands.            *)
(*                                                                         *)
(* Every step is one command or one event on the match loop of an active   *)
(* match.  Completion times are abstracted: what is on the timeline may    *)
(* come due in any order.  The units themselves are in MatchSim.           *)
(***************************************************************************)
EXTENDS Seats, FiniteSetsExt

CONSTANTS
    Provinces, Home,     \* the provinces and their first owners
    Goods,               \* manpower, food, iron
    UnitKinds, BuildingKinds,
    HalfPrice,           \* half of what each kind costs, per good, in the unit that makes it whole
    Requires,            \* unit kind -> the set of buildings it needs: none or one
    StartBank, Share,    \* the bank at the start; what a province yields per pulse
    Production,          \* building kind -> what it yields per pulse
    OrderIds, NoOrder,   \* identifiers of orders, drawn afresh for each
    MaxBank              \* bound: no pulse while a slot holds more of a good

Wares == UnitKinds \cup BuildingKinds

ASSUME EconomyAssumption ==
    /\ IsFiniteSet(Provinces) /\ Home \in [Provinces -> Slots \cup {NoSlot}]
    /\ UnitKinds \cap BuildingKinds = {} /\ IsFiniteSet(Wares)
    /\ HalfPrice \in [Wares -> [Goods -> Nat]]
    /\ Requires \in [UnitKinds -> SUBSET BuildingKinds]
    /\ StartBank \in [Goods -> Nat] /\ Share \in [Goods -> Nat]
    /\ Production \in [BuildingKinds -> [Goods -> Nat]]
    /\ MaxBank \in Nat

Orders == [id : OrderIds, by : Slots, kind : Wares]

ASSUME NoOrderAssumption == NoOrder \notin Orders

VARIABLES
    owner,      \* Province.Owner
    bank,       \* Match.Resources
    recruits,   \* Match.NextRecruit: the order a province works on, or NoOrder
    builds,     \* Match.NextBuild
    buildings,  \* Match.Buildings: of what kind, where, and who built it
    completions  \* Match.Timeline: the completions scheduled, by kind and order id

economyVars == <<owner, bank, recruits, builds, buildings, completions>>

EInit ==
    /\ owner = Home
    /\ bank = [s \in Slots |-> StartBank]
    /\ recruits = [p \in Provinces |-> NoOrder]
    /\ builds = [p \in Provinces |-> NoOrder]
    /\ buildings = {} /\ completions = {}

------------------------------------------------------------------------------
Price(k) == [g \in Goods |-> 2 * HalfPrice[k][g]]
CanPay(s, cost) == \A g \in Goods : bank[s][g] >= cost[g]
Pay(s, cost) == bank' = [bank EXCEPT ![s] = [g \in Goods |-> @[g] - cost[g]]]
Refund(s, k) == bank' = [bank EXCEPT ![s] = [g \in Goods |-> @[g] + HalfPrice[k][g]]]

\* Mutant: a building of another slot does not count.
HasOwnBuilding(p, k) == \E b \in buildings : b.prov = p /\ b.kind = k /\ b.by = owner[p]

\* Whoever built it: a captured province brings its buildings with it.
HasBuilding(p, k) == \E b \in buildings : b.prov = p /\ b.kind = k

Pending == {o \in {recruits[p] : p \in Provinces} \cup {builds[p] : p \in Provinces} :
               o # NoOrder}

InUse == {o.id : o \in Pending} \cup {e.id : e \in completions}

Fresh == CHOOSE id \in OrderIds : id \notin InUse

\* The command "recruit".
Recruit(s, p, k) ==
    /\ owner[p] = s
    /\ \A b \in Requires[k] : HasBuilding(p, b)
    /\ recruits[p] = NoOrder
    /\ CanPay(s, Price(k)) /\ OrderIds \ InUse # {}
    /\ Pay(s, Price(k))
    /\ recruits' = [recruits EXCEPT ![p] = [id |-> Fresh, by |-> s, kind |-> k]]
    /\ completions' = completions \cup {[what |-> "recruit", id |-> Fresh]}
    /\ UNCHANGED <<owner, builds, buildings>>

\* The command "construct".
Construct(s, p, k) ==
    /\ owner[p] = s
    /\ ~HasBuilding(p, k)
    /\ builds[p] = NoOrder
    /\ CanPay(s, Price(k)) /\ OrderIds \ InUse # {}
    /\ Pay(s, Price(k))
    /\ builds' = [builds EXCEPT ![p] = [id |-> Fresh, by |-> s, kind |-> k]]
    /\ completions' = completions \cup {[what |-> "construct", id |-> Fresh]}
    /\ UNCHANGED <<owner, recruits, buildings>>

\* Mutant: on a lost province the order stays.
RecruitDoneHeld(e) ==
    LET done == {p \in Provinces : recruits[p] # NoOrder /\ recruits[p].id = e.id} IN
    /\ e.what = "recruit"
    /\ completions' = completions \ {e}
    /\ recruits' = [p \in Provinces |->
                       IF p \in done /\ owner[p] = recruits[p].by THEN NoOrder ELSE recruits[p]]
    /\ UNCHANGED <<owner, bank, builds, buildings>>

\* The event of a recruit order: whatever became of the province, the order is
\* taken off it.  If the province is lost half of the price goes back to who paid.
RecruitDone(e) ==
    LET done == {p \in Provinces : recruits[p] # NoOrder /\ recruits[p].id = e.id} IN
    /\ e.what = "recruit"
    /\ completions' = completions \ {e}
    /\ recruits' = [p \in Provinces |-> IF p \in done THEN NoOrder ELSE recruits[p]]
    /\ \/ /\ \A p \in done : owner[p] = recruits[p].by
          /\ UNCHANGED bank
       \/ \E p \in done : /\ owner[p] # recruits[p].by
                         /\ Refund(recruits[p].by, recruits[p].kind)
    /\ UNCHANGED <<owner, builds, buildings>>

\* The event of a build order: on a lost province the price is forfeited.
ConstructDone(e) ==
    LET done == {p \in Provinces : builds[p] # NoOrder /\ builds[p].id = e.id} IN
    /\ e.what = "construct"
    /\ completions' = completions \ {e}
    /\ builds' = [p \in Provinces |-> IF p \in done THEN NoOrder ELSE builds[p]]
    /\ buildings' = buildings \cup
          {[kind |-> builds[p].kind, prov |-> p, by |-> builds[p].by] :
              p \in {q \in done : owner[q] = builds[q].by}}
    /\ UNCHANGED <<owner, bank, recruits>>

Yield(g, B) == MapThenSumSet(LAMBDA b : Production[b.kind][g], B)

\* Mutant: a building pays its builder and who holds the ground.
RevenueTwice(s, g) ==
    Share[g] * Cardinality({p \in Provinces : owner[p] = s})
        + Yield(g, {b \in buildings : b.by = s \/ owner[b.prov] = s})

\* The income of a slot: its provinces, and the buildings it built, whoever
\* holds the ground they stand on.
Revenue(s, g) ==
    Share[g] * Cardinality({p \in Provinces : owner[p] = s})
        + Yield(g, {b \in buildings : b.by = s})

\* One pulse pays every slot and schedules the next.
MacroPulse ==
    /\ \A s \in Slots, g \in Goods : bank[s][g] <= MaxBank
    /\ bank' = [s \in Slots |-> [g \in Goods |-> bank[s][g] + Revenue(s, g)]]
    /\ UNCHANGED <<owner, recruits, builds, buildings, completions>>

\* A fight is won by a slot that does not own the province: the owner changes,
\* and nothing else does.
ProvinceCaptured(w, p) ==
    /\ owner[p] # w
    /\ owner' = [owner EXCEPT ![p] = w]
    /\ UNCHANGED <<bank, recruits, builds, buildings, completions>>

ENext ==
    \/ \E s \in Slots, p \in Provinces :
          \/ \E k \in UnitKinds : Recruit(s, p, k)
          \/ \E k \in BuildingKinds : Construct(s, p, k)
          \/ ProvinceCaptured(s, p)
    \/ \E e \in completions : RecruitDone(e) \/ ConstructDone(e)
    \/ MacroPulse

ESpec == EInit /\ [][ENext]_economyVars

------------------------------------------------------------------------------
Buildings == [kind : BuildingKinds, prov : Provinces, by : Slots]

\* Banks never go below zero (Pay deducts without looking: its callers must
\* check CanPay first), and a province holds one building of a kind at most,
\* whatever slots ordered it before and after a capture.
ETypeOK ==
    /\ owner \in [Provinces -> Slots \cup {NoSlot}]
    /\ bank \in [Slots -> [Goods -> Nat]]
    /\ recruits \in [Provinces -> {o \in Orders : o.kind \in UnitKinds} \cup {NoOrder}]
    /\ builds \in [Provinces -> {o \in Orders : o.kind \in BuildingKinds} \cup {NoOrder}]
    /\ buildings \subseteq Buildings
    /\ completions \subseteq [what : {"recruit", "construct"}, id : OrderIds]
    /\ \A a, b \in buildings : a.prov = b.prov /\ a.kind = b.kind => a = b

\* The orders and the timeline agree: every order a province works on has the
\* one event that will finish it, every completion on the timeline finishes one
\* order, and no two orders share an id.  Otherwise a province would stay busy
\* for ever, or an order would be finished twice.
BookedOnce ==
    /\ \A e \in completions : \E p \in Provinces :
          LET o == IF e.what = "recruit" THEN recruits[p] ELSE builds[p] IN
          o # NoOrder /\ o.id = e.id
    /\ \A p \in Provinces :
          /\ recruits[p] # NoOrder => [what |-> "recruit", id |-> recruits[p].id] \in completions
          /\ builds[p] # NoOrder => [what |-> "construct", id |-> builds[p].id] \in completions
    /\ \A p, q \in Provinces :
          /\ recruits[p] # NoOrder /\ recruits[p] = recruits[q] => p = q
          /\ builds[p] # NoOrder /\ builds[p] = builds[q] => p = q

\* All there is of a good: in the banks, and paid for what is not finished.
Banked(b, g) == MapThenSumSet(LAMBDA s : b[s][g], Slots)
Pledged(g, O) == MapThenSumSet(LAMBDA o : Price(o.kind)[g], O)
Wealth(g) == Banked(bank, g) + Pledged(g, Pending)

\* Goods come from pulses only: no chain of orders, captures, completions and
\* refunds leaves the slots together with more than they had, and a pulse pays
\* every province and every building to exactly one slot.
NothingMinted ==
    [][\A g \in Goods :
        IF MacroPulse
        THEN Wealth(g)' = Wealth(g) + Share[g] * Cardinality({p \in Provinces : owner[p] # NoSlot})
                                    + Yield(g, buildings)
        ELSE Wealth(g)' <= Wealth(g)]_economyVars

==============================================================================

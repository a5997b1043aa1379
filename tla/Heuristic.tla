------------------------------ MODULE Heuristic ------------------------------
(***************************************************************************)
(* What a bot does about a state envelope                                  *)
(* (internal/aibot/heuristic/heuristic.go, session.onState): at most       *)
(* MaxCommands commands, in the order defence, recruiting, attack,         *)
(* diplomacy, sent one by one to an engine that may refuse each of them.   *)
(*                                                                         *)
(* A view is what the envelope says of the board.  How the commands change *)
(* it is left open (they may all be refused), so every decision is taken   *)
(* on any of the views; the offers of peace are followed exactly.          *)
(*                                                                         *)
(* A state that comes within sessionThrottle of the last decision is only  *)
(* kept, which changes nothing here.  A command that cannot be written     *)
(* ends the session (Bots).  The comment above diplomacyMoves has it       *)
(* accept peace only when the bot is behind and else declare war on the    *)
(* leader; the code accepts whatever is pending and declares nothing.      *)
(***************************************************************************)
EXTENDS Seats, SequencesExt

CONSTANTS
    Me,              \* ownSlot
    BotUnits, Board, \* units of the bot, the provinces
    Capital,         \* of the bot
    ByDistance,      \* province -> all provinces, the closest first
    Views,           \* the boards the bot may be shown
    MaxCommands,     \* MaxCommandsPerDecision, 6
    MaxOffers,       \* bound: offers of peace made to the bot
    NoUnit

Foes == Slots \ {Me}

ASSUME HeuristicAssumption ==
    /\ Me \in Slots /\ Capital \in Board
    /\ ByDistance \in [Board -> Seq(Board)]
    /\ Views \subseteq [unit : [BotUnits -> [at : Board, to : Board] \cup {NoUnit}],
                        owner : [Board -> Slots \cup {NoSlot}],
                        queued : SUBSET Board, rich : BOOLEAN, peace : SUBSET Foes]

VARIABLES
    offers,   \* the slots whose offer of peace to the bot is pending
    made,     \* how many were made so far
    sent      \* commands the session has written and the engine not handled

heuristicVars == <<offers, made, sent>>

------------------------------------------------------------------------------
MoveTo(u, p) == [kind |-> "move", unit |-> u, to |-> p]

Present(v) == {u \in BotUnits : v.unit[u] # NoUnit}
Idle(v) == {u \in Present(v) : v.unit[u].at = v.unit[u].to}
UnderWay(v) == Present(v) \ Idle(v)

\* closestOwnUnit: one under way is anywhere between two provinces.
Rank(p, q) == CHOOSE i \in DOMAIN ByDistance[p] : ByDistance[p][i] = q
Closest(v) ==
    UnderWay(v) \cup
    {u \in Idle(v) : \A w \in Idle(v) : Rank(Capital, v.unit[u].at) <= Rank(Capital, v.unit[w].at)}

\* defendCapital: recall one unit if none stands on the capital, unless the
\* closest is one that has just left it.  One under way may be near enough to
\* the capital to count as standing there.
Defence(v) ==
    IF v.owner[Capital] # Me \/ (\E u \in Idle(v) : v.unit[u].at = Capital) \/ Present(v) = {}
    THEN {<<>>}
    ELSE {IF v.unit[u].at = Capital THEN <<>> ELSE <<MoveTo(u, Capital)>> : u \in Closest(v)}
         \cup {<<>> : u \in UnderWay(v)}

\* recruitIfPossible: infantry at one of the own provinces without an own order.
Recruiting(v) ==
    LET free == {p \in Board : v.owner[p] = Me /\ p \notin v.queued} IN
    IF ~v.rich \/ free = {} THEN {<<>>} ELSE {<<[kind |-> "recruit", at |-> p]>> : p \in free}

\* hostileProvinces and closestHostileNeighbour.  Provinces of nobody are not hostile.
Hostile(v) == {p \in Board : v.owner[p] \in Foes \ v.peace}
Target(v, p) == Head(SelectSeq(ByDistance[p], LAMBDA q : q \in Hostile(v)))

Cut(cmds) == SubSeq(cmds, 1, IF Len(cmds) < MaxCommands THEN Len(cmds) ELSE MaxCommands)

\* dispatchIdleUnits: every idle unit, the garrison of the capital and a unit
\* just recalled included; the order is that of a Go map.  A unit whose arrival
\* is due counts as idle at its origin, though the engine has not moved it yet.
Attack(v) ==
    IF Hostile(v) = {} THEN {<<>>}
    ELSE {Cut([i \in DOMAIN us |-> MoveTo(us[i], Target(v, v.unit[us[i]].at))]) :
             us \in UNION {SetToSeqs(Idle(v) \cup due) : due \in SUBSET UnderWay(v)}}

\* diplomacyMoves: accept one offer of peace.
DiplomacyMoves == IF offers = {} THEN {<<>>} ELSE {<<[kind |-> "accept", from |-> f]>> : f \in offers}

\* What Decide has gathered on one of the views when it comes to diplomacy.
Plans == UNION {{d \o r \o a : d \in Defence(v), r \in Recruiting(v), a \in Attack(v)} : v \in Views}

\* Mutant: diplomacy is for when there is nothing else to do.
DecisionsQuietly == {IF plan = <<>> THEN p ELSE Cut(plan) : plan \in Plans, p \in DiplomacyMoves}

Decisions == {Cut(plan \o p) : plan \in Plans, p \in DiplomacyMoves}

------------------------------------------------------------------------------
HInit == offers = {} /\ made = 0 /\ sent = <<>>

\* onState.  Bound: the commands of the decision before are handled.
Decide ==
    /\ sent = <<>>
    /\ sent' \in Decisions
    /\ UNCHANGED <<offers, made>>

\* The engine handles the oldest command: an offer that still stands is accepted.
Handle ==
    /\ sent # <<>>
    /\ sent' = Tail(sent)
    /\ offers' = IF Head(sent).kind = "accept" THEN offers \ {Head(sent).from} ELSE offers
    /\ UNCHANGED made

Offer(f) ==
    /\ made < MaxOffers
    /\ offers' = offers \cup {f} /\ made' = made + 1
    /\ UNCHANGED sent

\* A declaration of war takes the offer away.
Withdraw(f) ==
    /\ f \in offers
    /\ offers' = offers \ {f}
    /\ UNCHANGED <<made, sent>>

HNext == Decide \/ Handle \/ \E f \in Foes : Offer(f) \/ Withdraw(f)

\* The engine keeps sending states and handles what it is sent.
HFairness == WF_heuristicVars(Decide) /\ WF_heuristicVars(Handle)

HSpec == HInit /\ [][HNext]_heuristicVars /\ HFairness

------------------------------------------------------------------------------
\* A decision that is full before it comes to diplomacy.
Crowded == Len(sent) = MaxCommands /\ \A i \in DOMAIN sent : sent[i].kind # "accept"

\* Of finitely many offers of peace a bot answers each, though diplomacy comes
\* last and a decision is cut: only defence, recruiting and the idle units
\* together can fill MaxCommands and crowd the answer out (heuristic.go:34-41).
OffersAnswered == \A f \in Foes : f \in offers ~> f \notin offers \/ Crowded

==============================================================================

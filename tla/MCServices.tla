------------------------------ MODULE MCServices ------------------------------
(***************************************************************************)
(* A battle, and what runs around a match loop, for TLC: a connection of   *)
(* the gateway, the decisions of a bot, the sessions of the bots,          *)
(* notifications.  They share no state, so in a behaviour one of them      *)
(* moves and the others rest: TLC explores them one by one instead of      *)
(* their product.                                                          *)
(***************************************************************************)
EXTENDS MCMatchSim, Gateway, Heuristic, Bots, Notify

VARIABLE moving

servicesVars ==
    <<moving, simVars, gatewayVars, heuristicVars, botsVars, notifyVars>>

ServicesInit ==
    /\ moving \in {"battle", "gateway", "heuristic", "bots", "notify"}
    /\ SInit /\ GInit /\ HInit /\ BInit /\ NInit
    /\ indexed => moving = "gateway"

\* A step of one part: the others rest.
Of(part, A) ==
    /\ moving = part /\ A /\ UNCHANGED moving
    /\ IF part = "battle" THEN TRUE ELSE UNCHANGED simVars
    /\ IF part = "gateway" THEN TRUE ELSE UNCHANGED gatewayVars
    /\ IF part = "heuristic" THEN TRUE ELSE UNCHANGED heuristicVars
    /\ IF part = "bots" THEN TRUE ELSE UNCHANGED botsVars
    /\ IF part = "notify" THEN TRUE ELSE UNCHANGED notifyVars

ServicesNext ==
    \/ Of("battle", SNext) \/ Of("gateway", GNext)
    \/ Of("heuristic", HNext) \/ Of("bots", BNext) \/ Of("notify", NNext)

\* The fairness of each module for the one that moves.  As `moving` never
\* changes, conditions of different parts can be stated as one.
ServicesFairness ==
    /\ WF_servicesVars(\/ Of("battle", Event \/ TimelineDrained \/ CollapseChampions
                                             \/ FightRound \/ Capture)
                       \/ Of("gateway", ReaderMoves) \/ Of("heuristic", Decide)
                       \/ Of("bots", Scan) \/ Of("notify", Dispatch))
    /\ WF_servicesVars(\/ Of("gateway", WriterMoves) \/ Of("heuristic", Handle)
                       \/ Of("notify", MailFails))
    /\ SF_servicesVars(\/ Of("battle", AdvanceTime) \/ Of("bots", Scan /\ pool')
                       \/ Of("notify", 1 \in DOMAIN rows /\ Mail(1)))
    /\ \A k \in BotSeats :
          /\ SF_servicesVars(\/ Of("battle", Tick) \/ Of("bots", Login(k))
                             \/ Of("notify", 2 \in DOMAIN rows /\ Mail(2)))
          /\ SF_servicesVars(\/ Of("bots", MintWSTicket(k))
                             \/ Of("notify", 3 \in DOMAIN rows /\ Mail(3)))
          /\ SF_servicesVars(Of("bots", Dial(k)))
          /\ WF_servicesVars(Of("bots", k \in cancelled /\ Fail(k)))
          /\ WF_servicesVars(Of("bots", Ping(k))) /\ WF_servicesVars(Of("bots", Read(k)))
          /\ WF_servicesVars(Of("bots", ConnectionLost(k)))

ServicesSpec == ServicesInit /\ [][ServicesNext]_servicesVars /\ ServicesFairness

\* Heuristic: four units on a board of three places, which with defence and
\* recruiting are just enough to fill a decision.
ThreePlaces == "cap" :> <<"cap", "field", "foe">> @@ "field" :> <<"field", "cap", "foe">>
                   @@ "foe" :> <<"foe", "field", "cap">>
Guarding == [at |-> "cap", to |-> "cap"]
Idling == [at |-> "field", to |-> "field"]
Leaving == [at |-> "field", to |-> "foe"]
Postings == {"u" :> a @@ "v" :> b @@ "w" :> c @@ "x" :> c :
                a \in {Guarding, Idling}, b \in {Idling, Leaving}, c \in {NoUnit, Idling}}
BoardOwners == {"cap" :> c @@ "field" :> 0 @@ "foe" :> 2 : c \in {1, 2}}
BoardViews == [unit : Postings, owner : BoardOwners, queued : {{}, {"cap"}},
               rich : BOOLEAN, peace : {{}, {2}}]

\* Notifications: a human and two bots of the pool, as many as a batch has room for.
OneHumanTwoBots == 1 :> "ann" @@ 2 :> "bot" @@ 3 :> "eve"

==============================================================================

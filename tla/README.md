# Verification of the strategy game backend

The repository is a real-time strategy game: a lobby and REST API (`core-api`),
a WebSocket `gateway`, an `engine` that simulates matches in memory, a `worker`
with background scans, and headless bots (`ai-bot`). They share Postgres, Redis
and NATS (a JetStream stream for commands and starts, plain subjects for
everything else). This directory holds TLA+ models of that code, the TLC
instances that check them and the proofs TLAPS checks.

## Inventory

| Part | State | Operations | Talks to | What is hard |
|---|---|---|---|---|
| Diplomacy registry (`domain/diplomacydom`, `domain/cmddom`) | treaties, pacts, version | declare war, propose, accept, grant, revoke | movement, combat, visibility, victory read it | offers overwrite each other, cooldown stamped by offers and commits alike |
| Vision cache (`domain/visibility`) | contributors per viewer, version | lookup, recompute | registry version | staleness |
| Match simulation (`domain/matchdom`, `domain/pathdom`, `domain/timeline`) | units, legs, provinces, timeline, status | move, arrival, combat, capture, recruit, construct, pulse, victory, cleanup | registry, runner | events left behind by changed paths, combat keyed by coalition |
| Engine runner (`service/enginesvc`, `engine`) | hosted matches, command channels, contexts | ensure, submit, resync, force end, stop, loop | JetStream, worker | redelivery, goroutines of one match, crash |
| Lobby (`service/lobbysvc`, `domain/lobbydom`, `adapter/pgrepo`) | match row, player rows | create, join, leave, start, fill, handoff, kick, patch | core-api clients, engine, worker | check-then-act against Postgres, failure between steps of a start |
| Workers (`worker`) | scan timers, snapshot buffer | presence, takeover, abandonment, final state, snapshots, notifications | Postgres, NATS | several writers of one row, lossy subjects |
| Gateway (`gateway`) | connections, subscriptions, slot of a connection, chat filters | hello, ready, command, resync, chat, fan out | Redis, NATS, core-api | slow clients, slot index written later, teardown |
| Chat (`service/chatsvc`, `domain/chatdom`) | messages, token buckets | send, list | Postgres, NATS | scope checks, best-effort fan out |
| Notifications (`service/notifysvc`, `worker/notify.go`) | notification rows | insert with debounce, dispatch, mark sent | Postgres, mailer | at-least-once mail, check-then-insert |
| Bots (`aibot`) | sessions by slot | scan, run session, decide | core-api, gateway | replaced sessions, shared client |
| Accounts and tickets (`service/authsvc`, `auth`) | users, tokens, one-shot tickets | register, login, mint, redeem | Postgres, Redis | single use |
| Web client (`web/src`) | view of one match | render, send commands | gateway | outside the models |

The hard parts fall in four groups, and the models follow them:

* **Agreement inside one match.** A match is owned by one goroutine, so its
  commands and events do not interleave, but they meet old state: offers made
  before a change, arrivals of paths that were given up, routes checked under
  treaties that have since changed, orders on provinces that changed hands
  (`Diplomacy`, `ViewerCache`, `MatchSim`, `Economy`).
* **The life of a match inside an engine.** NATS callbacks, JetStream consumers
  and the loop share the runner's map, a bounded channel and a context
  (`EngineRunner`).
* **The life of a match across processes.** Handlers of core-api, three workers
  and the engine write the same rows with no transaction and announce to each
  other by messages, most of them lossy (`MatchLobby`, `MatchLife`).
* **What runs around a match.** Connections with two goroutines and callbacks of
  NATS on one bounded channel, chat that filters by what a connection last saw,
  bots that reconcile sessions with rows, mails that are sent at least once
  (`Gateway`, `Chat`, `Bots`, `Heuristic`, `Notify`).

## Modules

| Module | What it is | Source |
|---|---|---|
| `Diplomacy` | registry of one match and its commands | `domain/diplomacydom`, `domain/cmddom` |
| `ViewerCache` | `EXTENDS Diplomacy`; the cache of contributors over the registry | `domain/visibility/visibility.go` |
| `MatchSim` | movement, timeline, combat, victory; `INSTANCE Diplomacy` for stances, coalitions and passage | `domain/matchdom`, `domain/pathdom`, `domain/timeline`, `cmddom/move.go` |
| `EngineRunner` | one match in the engine processes | `service/enginesvc/runner.go`, `engine/server.go`, `adapter/natsbridge/subscriber.go` |
| `MatchLife` | abstract specification of a match row and its start message | what core-api and the workers promise together |
| `MatchLobby` | requests and workers on the rows of one match; implements `MatchLife` | `service/lobbysvc`, `adapter/pgrepo`, `worker` |
| `Seats` | the slots of a match, shared by the modules of a match | `domain/ids` |
| `Economy` | orders, completions, pulses and captures | `domain/matchdom`, `cmddom/recruit.go`, `cmddom/construct.go` |
| `Gateway` | one WebSocket connection | `gateway/hub.go` |
| `Chat` | a message from the client to a connection that hears it | `gateway/chat.go`, `service/chatsvc`, `domain/chatdom`, `adapter/natsbridge/chat.go` |
| `Heuristic` | what a bot decides about a state | `aibot/heuristic`, `aibot/session.go` |
| `Bots` | seats, sessions, accounts and tokens of the ai-bot process | `aibot`, `service/authsvc`, `auth/ticket.go` |
| `Notify` | from public events to mails | `worker/notify*.go`, `worker/mailer.go`, `service/notifysvc`, `adapter/pgrepo/notifications.go` |
| `NatFacts` | least elements, and the theory of sums over finite sets | library facts only |
| `DiplomacyProofs`, `LobbyProofs`, `EconomyProofs`, `GatewayProofs`, `EngineProofs`, `MatchSimProofs` | theorems and proofs about the module of that name | |
| `ViewerProofs` | theorems and proofs about `ViewerCache` and `Chat` | |
| `MCMatchLobby`, `MCMatchSim`, `MCEngineRunner`, `MCNotify` | values of the constants for TLC | |
| `MCGateway` | a connection of a gateway that is not shut down | |
| `MCMatch`, `MCRealm`, `MCLive`, `MCServices` | several modules in one run, see *Runs* | |

`PROJECT.json` maps every definition to its lines. In every module, the
definitions whose comment starts with "Mutant:" are deliberate faults; no
specification uses them. They document which mistake a property would notice.

### Diplomacy

`treaty` is the map of `Registry.treaties` with a record for every unordered
pair (`known` is false while the map has no entry), `pacts` the list of grants,
`version` the counter every mutation bumps, `now` is `match.GameNow`. One
action per command: `DeclareWar`, `Propose` (peace and alliance), `Accept`,
`GrantPact`, `RevokePact`, and `AdvanceTime`, since the loop moves the clock
between commands. A command that the code refuses is no step. `Coalition`,
`CoalitionID`, `SeesThrough` and `MayMoveThrough` are the queries; the breadth
first search of `Coalition` is given by what it computes, the least set closed
under alliance, so that the module stays free of recursion. `lastCommit`,
`lastWar` and `offers` are history variables: no guard reads them.

Properties. `CooldownBetweenChanges`: two stance changes of a pair are a
cooldown apart, although `accept` checks no clock; it holds because an offer is
stamped (and checked) and nothing clears the stamp. `PeaceByConsent`: a stance
other than war is committed only if the side that did not commit it had offered
that very stance since the last change; offers overwrite each other in one
field, which is why this is not evident. `GrantsPostdateWar`: no pact in force
is older than the last war of its pair, in either direction and of either kind.
`CoalitionsPartition`: the identifier is shared by exactly the members of the
coalition, so it can be a key, as combat, victory and chat use it.

A consequence of the model that is not a property: an offer stamps `ChangedAt`
without changing the stance (`transitions.go:120`), so each offer restarts the
cooldown that gates `declare_war`, for both sides.

### ViewerCache

`vis` and `visVersion` are `Match.VisContributors` and its version, `shown` the
last perspective that was served. `ViewerContributors` is a lookup; every
command of the registry is a step in between. `ShownIsCurrent`: whatever the
cache held, what a viewer is shown is what treaties and pacts imply at that
moment; one mutation of the registry that forgets to bump the version breaks
it. `AlliesShareEyes`: two members of one coalition, however long the chain of
alliances between them, see through each other.

### MatchSim

`units` is the map of units with what is left of their paths (`path`), the time
until the current leg ends (`left`, relative to `GameNow`), queue of waypoints
(`way`) and strength (`hp`); `timeline` the heap of events, with `live` for
"the unit still has the version of the event"; `owner`, `treaty`, `pacts`,
`status`, `winners`, `cleaned` are fields of the match; `pc` and `field` are
where the loop is and the battle it is in.

An iteration of the loop is `AdvanceTime`, then a command or a `Tick`, then the
due events one by one until `Drained`. The clock is a step of its own because a
refused command moves it and drains nothing (`runner.go:175`): events become
overdue, and the next command plans moves for units that have in fact arrived.
Commands are `Move`, `QueueMove`, `Agree` (the diplomacy commands by their
effect on the stance, with the conditions left to `Diplomacy`),
`GrantPassage` and `RevokePassage`. Events are `DropStale`, `Arrive` (one step for the whole of
`CompleteUnitLeg`: next leg, next waypoint, or a battle) and `Cleanup`. A battle
is a start (`Engage`), the gathering of champions (`CollapseChampions`, one step
for each unit its loop meets: `Lead` makes it the champion of its coalition,
`Join` merges it into the one there is), rounds (`FightRound`) and
`Capture`, which also looks for a victory. Events of one instant come in any
order, and units of a map are met in any order, as the heap and the maps of Go
leave it open. No command comes between two steps of a battle.

Provinces lie on a line, units cover one unit of distance per tick: positions
are exact and the geometry of the plane, snapping to the graph, the damage
table and unit types are abstracted. `Hits` is what a round can take.

Properties. `OneValidArrival`: the version check is all that tells a unit's
arrival from those of the paths it gave up; there is never more than one valid
arrival for a unit, and it is due at the end of the current leg.
`UnderWayArrives`: a unit with time left on its leg has an arrival on the timeline; a
leg that is overdue is left out, see *Findings*.
`StrengthIsConserved`: pooling allies into a champion that changes owner on the
way neither creates nor loses strength. `HolderStandsThere`: a province only
changes hands to a slot with a unit there, never inside a coalition, with all
units standing there of that coalition. `LeadersFinish`: battles between
leaders' own units end. `EndsOnce` and `EndedIsCleanedUp`: one cleanup for an
ended match however many arrivals ask for the victory again, and it is reached.

### EngineRunner

Each goroutine is a program counter: `starter`, `worker` (a command between
lookup and send) and `ender` (`ForceEnd`) for each engine, `loop` for each
match object. `hosted` is `Runner.matches`, `queue` the command channel,
`resync` the coalescing buffer, `cancelled` the context, `victim` the handle a
loop's `Stop` took from the map, which need not be its own, since `Stop` works
by match id. What the mutex or a channel makes atomic is one step; what happens
between an unlock and a send is two. JetStream is `startMsg` and `cmdMsg`:
acknowledgements may be lost and what is not acknowledged is delivered again.
Every delivery of a start builds a new object. `ForceEnd` writes status and
cleanup flag without synchronisation while the loop may be reading them: `racy`
lets the loop miss the write until its context is cancelled. What the timeline
does to the match is the set `Drained`: nothing, a victory, a cleanup.

Properties. `HostedIsAlive`: what the map hosts is a running, uncancelled loop
of this engine. `NoOrphanLoop`: a running loop is hosted, leaving, cancelled or
about to be cancelled by the `Stop` that took its handle. `GoneOnlyAfterFinal`:
without a crash no match leaves the runner before a final snapshot is
published. `AckedNotLost`: an acknowledged command was applied or refused, is
queued at a running loop, or the match ended or the engine crashed. `TornDown`
and `CommandSettles` are the liveness counterparts.

### MatchLobby and MatchLife

`status`, `seat`, `ai` and `seen` are the columns of `matches` and
`match_players`; `req` is, for each handler, the next SQL statement and its local
variables. No handler holds a transaction, so each statement is one step
(`JoinGet`, `JoinList`, `JoinAdd`; `MarkStarting`, `FillList`, `FillAdd`, `CountPlayers`,
`MarkActive`, `Assign`, `PublishStart`), and between two of them anything may
happen, the end of the handler included (`Abort`: the client goes away and the
request context is cancelled). The workers are the takeover scan
(`TakeoverScan`, `TakeoverFlip`), the abandonment scan (`AbandonList` to
`PublishEndMatch`), `TouchPresence` and `FinalState`; `WorkerRestart` drops what
they hold and a message in flight. The engine is `Host`, `Victory`, `EndHosted`.
`Quieten` is time passing for a user without a ping: two thresholds are all the
scans distinguish. A join goes on with an empty list when `ListPlayers` fails, since
`service.go:138` drops the error (`JoinList`). A creation and a join check that the
slot is on the map; the creator's request for a bot does not
(`lifecycle.go:108-139`, `200-217`, `matchctl.go:198-217`), so slots outside the map
are a parameter, `OffMap`, and a bot may sit in one of them (`PatchGet`). Scans and
handoffs only ever name slots of humans, which are on the map; that is in
`LTypeOK`.

`MatchLife` is the abstract specification: a row is claimed once, launched
once, over once; the start is announced at most once and never before the row
says the match runs. The refinement mapping sends `none` and `waiting` to open,
`starting` to launching, `active` to running, `ended` and `abandoned` to over.
That the announcement may come when the match is over is not a slip: the
handler that launches may be slow.

Properties. `LifeImplemented`, the refinement. `StartAnnouncedOnce`: once a
start is out, no handler is left that could publish another.
`TakenOverWasRelinquished`: a bot plays for a human only in a slot that was handed
off, or whose user was silent past the threshold at some time. `GoneIsTakenOver` and
`SilentIsAbandoned`: the two scans get to everybody they are for.

### Economy

`owner`, `bank`, `recruits`, `builds` and `buildings` are the fields of the match of
those names, `completions` what recruiting and construction have on the
timeline. Commands are `Recruit` and `Construct`, events `RecruitDone`,
`ConstructDone` and `MacroPulse`; `ProvinceCaptured` is the one thing a battle does
to the economy. When something comes due is left open, so completions and
captures meet in every order. The rules are not symmetric, and the model keeps
that: a lost recruit order is refunded by half, a lost building is forfeited; a
building counts for recruiting whoever built it, but pays its builder, whoever
holds the ground.

Properties. `ETypeOK`, beyond types: no bank below zero, although `Pay` deducts
without looking, and one building of a kind in a province, whoever ordered it
before and after a capture. `BookedOnce`: orders and timeline agree one to one,
so no province stays busy for ever and no order is finished twice.
`NothingMinted`: goods come from pulses only, and a pulse pays each province and
building once.

### Gateway

One connection. `reader` is where the read loop is (the upgrade handler before it
starts), `writer` the write loop, waiting or with a message in its hands, `out`
that message and the bounded channel `c.send`, `phase` and `hubbed` the close and
the hub's table, `seated` the slot that the index in Redis (`indexed`) gave. States
are numbered: `said` is the last the engine published. A connection may subscribe
to the states more than once: `subs` counts the subscriptions, `feeds` is what each
has still to deliver, `got` the last state the client received through each.
`peeked` is the state its coalition comes from, `missed` the last that went by
without being looked into.

`subscribeMatch` is `Subscribe`, `SubscribeEvents`, `SubscribeChat`, and each of the
three can fail. In the upgrade any failure closes (`EnteringFails`). In a hello it is
answered with an error and `c.matchID` stays empty. If the states are refused
nothing was done (`StatesRefused`), if the events are the states are unsubscribed
(`EventsRefused`); if the chat is (`ChatRefused`, `hub.go:215-217`), the
subscriptions to states and events stay in `c.subs`, `c.chat` is set, and the next
hello looks the slot up again and makes a second subscription. Everything that can
interleave in the code does so here: the close between two parts of a subscription,
the writer between taking a message and writing it.

Left out: `c.slot` and `c.chat` are written by the read loop and read by the
callbacks with no lock, a data race that can only matter in the connection's first
state; the second hello may name another match, whose states are then another
sequence (`c.chat` keeps the first match).

Properties. `StatesInOrder`: states may be dropped, but what comes through one
subscription never goes back; and it takes a hello that was answered with an error
for a client to have a second one, over which it sees states twice or, since the
subscriptions deliver independently, an older one after a newer one. `LeadIsFresh`:
as soon as the subscriptions have delivered what they hold, the coalition a
connection reads for is that of the last state, even if the state itself was dropped
because the client is slow, with the exceptions `missed` stands for: the state went by
before there was a subscription, a chat and a slot, or was held by a subscription
given up. `GoneLeavesHub`: a client that is gone leaves the table. That the read loop
ends as well is what a comment says and `ReaderEnds` refutes, see *Findings*.

### Chat

One message at a time (`post`, with a stage for each hop) and the connection it
is followed to; `allied` are the alliances of the match, `seen` those of the
last state a connection peeked into, so author and reader may know different
coalitions. `Say` is the gateway's way in, `SayOverHttp` the API's, where slot
and scope are the client's claim; `Refuse`, `Store`, `Fanout` (core NATS: it may
be lost) and `Deliver` are the rest.

Properties. `CoalitionHears`: author and reader who have seen the same alliances
agree who is in the coalition, since both name it by its least slot, however
long the chain. `HeardIsOnRecord`: whatever is heard was stored first, comes from
a player, and reaches the parties of a direct message or connections of the match.

### Heuristic and Bots

`Heuristic`: `offers` are the offers of peace to the bot, `sent` the commands a
decision has written. `Decide` gathers defence, recruiting, attack and
diplomacy on any of the views, and cuts to `MaxCommands`; `Handle` is the
engine. A unit under way is anywhere between two places, so it may count as the
garrison (`isOnProvince`) and, once its arrival is due, as idle. The throttle of
`onState` only delays a decision. `OffersAnswered`: of finitely many offers, which
may be withdrawn and made anew, each is answered, unless a decision is full
(`Crowded`) before it comes to diplomacy: that takes four units, and then no answer
need ever come (see *Findings*).

`Bots`: `flag` is what the database says of a seat, `table` the runner's map,
`session` where the goroutine of a seat is, `dealt` the account the pool dealt
it, `token` the one token of the shared client, `ticket` whom the ticket and
then the connection is for, `cancelled`, `up` and `pong` its context, its socket
and its ping loop. `Scan` is one pass with the reload of the pool and the deal;
`Login`, `MintWSTicket`, `Dial` the three calls of a session, each of which may
`Fail`; `Read` waits without the context, so that only a message or a closed
socket lets a cancelled session notice. `SessionsFollowSeats`: a seat of the
computer gets a connected session, and a seat that is over loses its own although
no state will ever come for it again; the pongs are what ends it.

### Notify

`players` are the seats in the database, `roster` the cached copy, `job` the
inserts an event still calls for, `rows` the notifications, `batch` what the
pass of the dispatch loop has still to mail. `HandleEvent` applies the
templates to what the engine and the presence worker really publish, `Insert`
debounces by a check before the insert, `Mail` and `MailFails` go through a
batch, `Die` drops what is in memory. `MailGoesOut`: a row for somebody who can be
reached is mailed and marked in the end, whatever fails before it in the queue,
unless rows that are refused for ever fill a batch before it (`Dammed`); without
that condition it is `MailIsRetried`, which a comment says and a run refutes.

### How the modules fit

`MatchLobby` sees the engine as three steps; `EngineRunner` is that engine with
its goroutines, and sees the simulation as the set `Drained`; `MatchSim` is that
simulation with its events, and sees diplomacy as stances that change;
`Diplomacy` is that registry. `AckedNotLost` and `EndedIsCleanedUp` meet in
`Over`, the pair of status and cleanup flag that lets the loop leave.
`ProvinceCaptured` of `Economy` is what `Capture` of `MatchSim` does to a
province; `Broadcast` of `Gateway` is the publication after an iteration of
`EngineRunner`; `Peek` of `Chat` is `FanOut` of `Gateway`; `TakeOver` of `Bots` and
`HandedOver` of `Notify` are `TakeoverFlip` and
`HandoffMark` of `MatchLobby`; `Accept` of `Diplomacy` is what `Handle` of
`Heuristic` does to an offer.

## Runs

| Run | Instance | Shows |
|---|---|---|
| `match` | the goroutines of the loop (one engine, two commands, channel of one, and two of a second delivery of the start, a `ForceEnd` and a crash), its events (two units on a road of three ticks, all stances, a right of way granted and revoked, one waypoint, lag of one), or the lobby row (two requests, one human, one bot, a slot off the map) | map, goroutines and acknowledged commands; arrivals and versions, the end; one start is announced and `MatchLife` is implemented |
| `realm` | the registry (two slots, both kinds of pact, cooldown 1, time to 3, version to 7), the vision (three slots of which two look, alliances and shared maps, version to 4), the chat (a chain of two alliances, three connections), the economy (two owners, two provinces, a unit, a building, a good, four orders), or a connection (channel of one, two states, two subscriptions) | stance changes are spaced and consented to; currency, shared eyes, coalition identifiers; who hears what; orders and goods are neither lost nor made; states rise and the coalition is fresh |
| `live` | the loop (one engine, two commands, channel of one, one start, a crash or a `ForceEnd`) or the row (one request at a time, two humans, no bot accounts) | an over match is torn down, a NAK'd command settles; takeover and abandonment; a seat taken over was given up; under fairness |
| `services` | a battle (three slots, three units of strength 2, capitals one tick apart, war and alliance), a connection, the decisions of a bot with four units, one seat for bots, or the mails of a match with a human and two bots | pools, captures, ends; a connection leaves the hub; offers answered; sessions follow seats; mail goes out; under fairness |
| `engine_command_twice` | one command delivered twice | violated: the idempotency key is not used |
| `lobby_seat_twice` | two requests, two humans, no bot | violated: two users in one slot |
| `sim_fights_end` | the battle of `services` | violated: a battle that never ends |
| `sim_peace_fight` | the road of `match` | violated: partners in peace fight |
| `bots_own_identity` | two seats, two accounts | violated: a session connects as the account of another |
| `notify_loss_untold` | a human and two bots | violated: who loses a province is not told |
| `notify_mail_stuck` | a human and two bots, a batch of two | violated: two mails nobody accepts stop the third |
| `gateway_reader_stuck` | one connection, channel of one, under fairness | violated: the read loop outlives the connection |

`match`, `realm`, `live` and `services` hold several modules that share no
variable. A variable `moving`, chosen at the start and never changed, says which
of them takes steps: the state space is the sum of the parts' and not their
product, and each property constrains the part it is about, whose reachable
states are those of its own specification. In `live` and `services` the fairness
conditions of the parts are stated together; because `moving` is constant, a
disjunction of actions of different parts is, in any one behaviour, the action of one
part. In `realm` the registry is part of the vision (`ViewerCache` extends it); when
it moves by itself it goes on for longer, between two slots. The two commands of
`match` are interchangeable, and so are its two requests: the first command is the
first one published (`GoroutineBounds`) and a request that comes alone is the first
(`RequestBounds`).

### Bounds

* `MaxTime`, `MaxVersion` (Diplomacy): a stance change is two commands (offer
  and acceptance) or one (war). Time 3 is three cooldowns of 1. Version 7 admits an
  offer, an acceptance, two pacts and a war that revokes them (which bumps
  by three). The vision looks at three slots up to version 4 (`LookedAt`), which is
  two alliances, a chain; time passes once, after an alliance may have been made, so
  that it can be broken; peace, which lends no vision, is left to the registry. The
  slots have the same rules: two that look and one that only makes and breaks
  treaties are every case of two entries of the cache. The theorems have no use for
  the bounds: they hold for every value.
* `MaxStarts`, `MaxDeliver`, `MaxEnds`, `MaxCrashes`, `QueueCap`
  (EngineRunner): two objects are what it takes for a `Stop` by match id to meet
  another handle than the one that ended; a channel of one is full with one
  command, so the second one is NAK'd. Of a second delivery, a
  `ForceEnd` and a crash a behaviour of `match` has two (`GoroutineBounds`), in
  either order: a crash empties the engine, so a `ForceEnd` after it meets only the
  object of the second delivery. One engine in the shipped instances: the
  consumers are shared but a match is hosted where its start was delivered, and two
  engines that both get the start double the state without a new path through
  the properties, all of which are stated per engine.
* `Handlers`, `Humans`, `BotCount`, `Slots` (MatchLobby): two handlers are two
  racing starts, or a start racing a join, leave or kick; a third would lose to the
  same conditional update. `OffMap` is one slot in `match`. The liveness run has two
  humans, so that one can be silent while the other stays, and one handler; the second
  human joins, asks for nothing else and is not kicked (`LobbyBounds`). There are no
  bot accounts in it: a takeover flips the row of the human and needs none. Its loop meets a crash or a `ForceEnd` and not both
  (`LoopBounds`): after a crash there is nothing left to end.
* `OrderIds`, `MaxBank` (Economy): two provinces with a recruit and a build order
  each are four identifiers at once; a bank of 2 pays one order whole, pulses stop
  above it. Two owners are a loser and a captor.
* `Backlog`, `MaxStates`, `MaxSubs` (Gateway): a channel of one is full with one
  answer while the writer has another message in its hands; two states are the least
  that could arrive out of order; two subscriptions are a failed hello and the next. A
  hello is not refused its chat beyond `MaxSubs`. Safety is checked in `realm` with
  these, `GoneLeavesHub` in `services` and `ReaderEnds` with one state and one
  subscription, as a second one changes nothing for the loops. The theorems hold for
  every value.
* `Users`, `Conns`, `MayAlly` (Chat): a chain of two alliances is the least in which
  a coalition is not the set of direct allies; one connection is to another
  match, one user does not play.
* `MaxCommands` is the code's 6. With the four units of the instance defence,
  recruiting and attack have up to six commands, so that `Cut` cuts the answer off;
  with fewer it never does. `MaxOffers` is 2: an offer withdrawn and made anew.
* `BotSeats`, `PoolSize`, `MaxCrashes` (Bots): seats share the table, the cursor
  and the token only. One seat shows the life of a session over a crash, two
  in `bots_own_identity` how sessions interleave.
* `BatchSize`, `MaxRows`, `MaxDeaths` (Notify): two bots can fill a batch of two and a
  third row waits behind them, or a human is second in the batch or between them.
* `MaxWaypoints`, `MaxLag`, `MaxEvents`, `CleanupDelay`, `StartHP`, `Hits`
  (MatchSim): a road of three ticks lets a unit be redirected twice under
  way, `MaxEvents` 2 is one valid and one stale arrival, or the arrivals of both
  units; `MaxLag` 1 lets an event be overdue when the next command is taken;
  strength 2 and hits of 1 let champions be weakened before they fall.

`CHECK_DEADLOCK FALSE` is set throughout: the instances stop at their bounds
(time, deliveries, requests, rows), a match that is over stops, and a loop that has
left takes no more steps. The liveness properties look for the deadlocks that
matter.

### Fairness

* `RFairSpec`: handlers and the straight-line part of an iteration run to their
  end (weak). Go's `select` picks at random among ready cases, so a case that
  is ready again and again is taken (strong: tick, cancelled context,
  command). JetStream delivers a command that is pending (strong, as a delivery is
  only possible while the worker is free). Nothing makes a client publish, a start
  arrive, the worker ask for an end or an engine crash.
* `LFairSpec`: a handler runs until it returns, the engine takes what it is
  sent, scans run on tickers. A restart of the worker may interrupt a scan but
  not every one: the statements of a scan are strongly fair. No fairness for
  pings, requests, or silence.
* `SFairSpec`: inside an iteration the loop goes on (weak); the ticker is
  selected and time passes (strong, as a stream of commands may come first
  at any one time but not at all times).
* `GFairness`: the two goroutines of a connection run (weak, a blocked send is
  not enabled; a write ends, by its deadline if not otherwise). Nothing is assumed of
  client, engine or subscriptions.
* `HFairness`: the engine sends states and handles what it is sent (weak).
* `BFairness`: the runner's ticker and the goroutines of a session run (weak); a
  call that is tried again and again, or the load of the pool, succeeds some time
  (strong). None for the flags, for drops and for crashes.
* `NFairness`: the dispatch loop ticks and goes through its batch (weak); a mail
  tried again and again gets through if its address is not one of `Bots` (strong).

## Proofs

Each theorem is about the specification as TLC runs it, for every value of
the constants that satisfies the module's named assumption
(`SeatsAssumption`, `DiplomacyAssumption`, `RunnerAssumption`, `LobbyAssumption`,
`EconomyAssumption` and `NoOrderAssumption`, `MatchSimAssumption`,
`GatewayAssumption`, `ChatAssumption`); TLC evaluates these on the runs of the
module. Every invariant and every action property that a passing run checks, and
the one refinement, is stated by a theorem.

* `DSpecTypeOK`, `GrantsPostdateWarHolds`, `CooldownHolds`, `ConsentHolds`
  (`DiplomacyProofs`). None of the three properties is inductive. `DInv` adds,
  for each pair, what ties the record to the history: the record was stamped no
  earlier than the last change and no later than now; an open offer was stamped a
  cooldown after the last change; an open offer is among the offers made since
  then; and for each pact, that it is not younger than now nor older than the
  pair's last war. One lemma per command shows `DInv` is kept; the two action
  properties follow from `DInv` and one lemma per command that changes a stance.
* `CoalitionsPartitionHolds`: no invariant is needed. Alliance is symmetric since
  a treaty belongs to an unordered pair; the least closed set of a member is
  therefore the same set, and a non-empty set of numbers has a least element.
* `ShownIsCurrentHolds` (`ViewerProofs`). `VInv` says that a cache at the
  version of the registry holds only current entries and that the cache is
  never ahead of the registry. The step that matters is `RegistryStepInv`: every
  command increases the version, so the cache's is then an old one.
* `VTypeOKHolds`, `AlliesShareEyesHolds` (`ViewerProofs`) add that what was
  shown last was shown to a slot. Two members of a coalition have one coalition,
  which is `CoalitionSame` of `DiplomacyProofs`; with `ShownIsCurrent` that is
  all `AlliesShareEyes` needs.
* `LSpecTypeOK`, `StartAnnouncedOnceHolds`, `LifeImplementedHolds`
  (`LobbyProofs`). `LInv` is the type invariant and `LauncherInv`: at most one
  handler is past `MarkStarting`; while it is before `MarkActive` the status is
  `starting`, afterwards the row is out; nothing is published while it is under
  way; engine and final state exist only after the publication; and the
  local variables fit the statement. The refinement goes through `StepKinds`, the
  list of what a step can do to status and announcement, each of which
  is a step of `MatchLife` or a stutter.
* `TakenOverWasRelinquishedHolds` (`LobbyProofs`). `markControlledByAI` is keyed
  by slot and not by user, and the slot was read some statements earlier.
  `GivenUp` follows it: what a handoff is about to mark and what the takeover scan
  listed is relinquished; so is every seat of a user that is gone, which covers
  the row that moves to another slot and keeps its `last_seen_at`; and a patch
  goes on to seat a bot only when there is a bot account.
* `EngineRTypeOK`, `EngineHostedIsAlive`, `EngineNoOrphanLoop`,
  `EngineGoneOnlyAfterFinal`, `EngineAckedNotLost` (`EngineProofs`). `RInv` joins
  the types with `Origins` (a loop runs an object that was built once, on the
  engine that built it; what a handler found in the map has had a loop),
  `Stopping` (a handle that a `Stop` took had a loop of this engine and is no
  longer in the map, so no start hosts it again) and `PublishedFirst` (both ways
  out publish before they stop). `Stop` works by match id and may take another
  loop's handle; the invariant says it is one of the same engine, and then
  whatever loop lost its place in the map is about to be cancelled. The
  types need `Origins`, since what a handler holds indexes the tables. The
  theorems are for every number of engines, commands, deliveries, end requests
  and crashes, and every capacity of the command channel.
* `EconomyBookedOnce`, `EconomyOneOfAKind` (`EconomyProofs`). `BookedOnce` needs
  `OwnIds` besides the types: no two recruit orders in force, and no two build
  orders, have the same identifier. That a province never holds two buildings
  of a kind (part of `ETypeOK`) needs `NotBuiltTwice`: while a build order is in force, no
  building of its kind stands there, which a capture in between does not
  change, since the check looks at the province and not at the slot.
* `EconomyTypeOK`, `EconomyNothingMinted` (`EconomyProofs`). `Rich` is `EInv` with
  the type of the banks: a command gets through only when the bank holds the
  price, so `Pay` stays above zero. `Gains` compares the wealth before and after
  each action: an order moves its price from the bank to what is pledged, a
  completion drops it, a refund returns half of it, a capture touches neither.
  In a pulse the slots' incomes add up to all the land that is owned and all
  the buildings, because each belongs to one slot (`SumByClass`). `OwnIds`
  matters here too: what comes due takes the price of exactly one order away.
* `SimTypeOK`, `SimOneValidArrival`, `SimUnderWayArrives`, `SimEndsOnce`
  (`MatchSimProofs`). `SInv` is the types, the two properties of arrivals (kept
  together: a new path withdraws the valid arrival and adds one), `EndInv` (which
  of three states the end of the match is in) and `BattleInv`. Each action is
  shown to keep each part, with lemmas on routes and on what a step does to one
  unit.
* `SimHolderStandsThere` (`MatchSimProofs`) needs `BattleInv`: everyone at rest in
  the province is still to be gathered or a champion (`Accounted`), a champion
  stands there and is listed under the name of its coalition (`Listed`), and one
  that fell is listed only beside another. So the one champion that is left when a
  province is captured is alive, and whoever else rests there is of its coalition.
  That the name of a coalition is one of its members, and the same for all of
  them, is `CoalitionIDFixed`.
* `SimStrengthIsConserved` (`MatchSimProofs`). The sum over the units changes in
  a round by what the round takes off, and in `Join` by nothing: the unit that
  disappears is added to the champion.

**Sums.** The community modules define a sum over a set as a fold, a recursive
function, and what it computes would call for an induction. `NatFacts` does
without. `AddsUp` says of a table with a value for every subset that it is what
the fold builds, taking out one element after the other; every finite set has such
a table (`AddsUpExists`) and two of them agree (`AddsUpAlike`), each time because
a least counterexample (`LeastNat`, `SmallestSet`) would leave a smaller one. The
folds of the model are such tables, so the lemmas about taking an element out,
splitting, adding, constants and classes are about the sums TLC computes.
* `GatewayStatesInOrder`, `GatewayLeadIsFresh` (`GatewayProofs`). `GInv` says which
  subscriptions there can be (`Hellos`: one, and one more for each hello answered with an
  error), that each feed is the end of what was published (`FeedIsSuffix`), that what
  waits to be written belongs to a subscription that was made (`OutIsKnown`) and rises
  for each of them, between what the client has and what the feed still holds
  (`OutRises`, `InHand`), and `LeadIsFresh` itself. One lemma per action; both theorems
  are for every backlog, any number of states and any number of subscriptions.
* `ChatCoalitionHears`, `ChatHeardIsOnRecord` (`ViewerProofs`). The invariant is
  about the message under way: how scope, slot and the author's view fit, and
  what each stage has established. The lemma behind the first is
  `LeaderNamesBloc`: two slots have the same leader exactly if they are in the
  same coalition, which again needs that a set of numbers has a least element.

Model-checked only: what holds under fairness (`TornDown`, `CommandSettles`,
`GoneIsTakenOver`, `SilentIsAbandoned`, `LeadersFinish`, `EndedIsCleanedUp`,
`GoneLeavesHub`, `OffersAnswered`, `SessionsFollowSeats`, `MailGoesOut`), since liveness
and `ENABLED` are outside TLAPS; and with it `Bots`, `Heuristic` and `Notify`, of
which no passing run asks anything else. Induction over data is outside TLAPS
as well: that is why `Coalition` is defined as the least closed set, without a
recursion, and why the sums go through `NatFacts`.

## Findings

1. **A redelivered command is applied again** (`engine_command_twice`). The
   engine copies the idempotency key (`engine/server.go:118`) and nothing reads
   it; `web/src/lib/idem.ts` says the server deduplicates by it.
2. **Two users in one slot** (`lobby_seat_twice`). `Join` lists, then inserts, with
   no unique constraint on match and slot; a join that lists before the creator is
   seated needs no race between users at all.
3. **A battle that never ends** (`sim_fights_end`). Champions are keyed by
   coalition, struck off by owner (`combat.go:82`): if the fallen champion is not
   its leader's own unit, `fightUntilOneStands` loops for ever on the match
   goroutine.
4. **Peace does not stop a fight** (`sim_peace_fight`). All coalitions at rest in
   a province fight, whatever their stance (`combat.go:22`).

5. **Nobody is told of a loss** (`notify_loss_untold`). The engine publishes
   `previous_owner` (`combat.go:117`), the template reads `prev_owner`
   (`notify_templates.go:39`). Of the five kinds of notification, three reach
   nobody: `combat_damage` carries no defender (`combat.go:75-79`), and offers are
   published as `peace_proposed` and `alliance_proposed` with `target_slot`, never
   as `treaty_proposed` with `to`.
6. **A bot connects as another** (`bots_own_identity`). All sessions share one
   client and its token (`coreclient.go:73`, `83`, `runner.go:152`), though
   `coreclient.go:24-27` says each owns one: a login between another session's
   login and its ticket makes that ticket the second account's.
7. **A read loop that never ends** (`gateway_reader_stuck`). The loop answers with a
   send on the bounded `c.send` that has no other way out (`hub.go:281`, `293`, `320`,
   `364`). When the channel is full and the writer leaves with a failed write, nobody
   makes room again: the goroutine and its connection stay for ever, though
   `hub.go:141` says its lifetime is bounded by `c.closed`.
8. **Two mails that stop all others** (`notify_mail_stuck`). The dispatcher takes the
   oldest unsent rows, a batch at a time (`notifications.go:126-131`), and a row whose
   mail is refused stays where it is. The end of a match leaves a row for each bot in
   it, at addresses like `bot-01@bots.supremacy.local` (`00003_phase5.sql:31-37`); as
   many of them as a batch holds (50 by default) stop all mail, although
   `notify.go:142-144` says a failure does not block the loop.

Counterexamples that the models contain and that are not runs of their own:

* The accounts are dealt to seats round and round (`runner.go:125`), whichever
  account the lobby seated there, so even without finding 6 a bot's connection
  need not find a slot of its own. Ping loop and read loop write to one
  connection with no lock between them (`session.go:127`, `172`): the library
  forbids that and panics when it notices, which is one reason for `Crash`.
* The slot index of a match lives for 24 hours (`slots.go:26-29`), a silent user
  may come back within 72. And a connection opened before the start never gets a
  slot: its second hello does not look again (`hub.go:312`; `hub.go:188-189`
  has it looked up anew for a player who joined after first connecting).
* A subscription made after the close is never removed. After a hello whose chat
  could not be subscribed to (`hub.go:215-217`) the next one makes a second
  subscription, and the client sees states twice or an older one after a newer one.
  A state that arrives before `c.chat` is set is not peeked into.
* A message for the coalition from a connection without a slot is stored and
  reaches nobody. The inbox of direct messages is one for all matches of a user
  (`natsbridge/chat.go:41`).
* The garrison of the capital marches off with the other idle units
  (`heuristic.go:109`), against `heuristic.go:45-51`; neutral provinces are no
  targets, against `heuristic.go:110`. Four idle units ordered about in vain,
  with defence and recruiting, fill every decision: no offer of peace is answered.
  `heuristic.go:140-143` has the bot accept peace only when it is behind and else
  declare war on the leader; the code (`148-161`) accepts whatever is pending and never
  declares war.
* A bot can be seated in a slot that is not on the map (`lifecycle.go:108-139`,
  `200-217`; `matchctl.go:198-217`), and counts as one of the players a start needs. A
  join whose list of players fails (`service.go:138`) moves a user who already sits in
  the match, or sits down on an occupied slot.
* `balance.go:9-10` speaks of a pulse per slot; there is one for all.

* `ForceEnd` and the loop can both pass the end and both publish the final
  snapshot (`runner.go:141`, `193`), which `finalstate.go:16-17` calls one-shot.
* A redelivered start broadcasts the fresh object it has built although the
  engine keeps the match it hosts (`engine/server.go:107`): clients see a ghost
  of the initial state until the next broadcast (`runner.go:120-121` says "for a
  brand new match").
* After an engine crash nothing hosts an acknowledged match again
  (`subscriber.go:87`); `worker/snapshot.go:17-20` calls the snapshot a
  recovery point, and no code reads one.
* `fillBots` takes the first accounts of `ListBots`, whether or not one already
  sits in the match (`lifecycle.go:176`): the upsert moves it, and the slot it
  leaves stays empty (`lifecycle.go:150` promises bots in every empty slot).
* A leave or kick that read a waiting match deletes the row after the start
  (`lifecycle.go:35`), although `Leave` promises a handoff (`22-23`).
* A start that fails after `MarkStarting` leaves the row in `starting` for ever, and
  later starts answer that it has started (`lifecycle.go:227`, `service.go:178`).
* `MarkEnded` does not look at the status (`matches.go:206`), so an abandoned
  match that is force-ended becomes ended; `status.go:23-24` does not list that.
  `MatchLife` sees both as over.
* If the request to end an abandoned match is lost (`abandon.go:74`), it stays
  hosted, and no scan looks at it again (`23-24` promises the force-end). The
  final state is as lossy.
* A queued move between the time a unit is due and the draining of the timeline
  bumps its version (`move.go:43`): the arrival is stale, the unit starts again
  from where the leg began, and if the waypoint is refused it is left on its path
  without an arrival. `UnderWayArrives`, and `SimUnderWayArrives` with it, is
  therefore stated for legs that have time left.

## Plan

What is left, in order.

1. **A refinement between the layers**: `EngineRunner` under the steps `Host`,
   `Victory` and `EndHosted` of `MatchLobby`.
2. **Safety of bots and mails**, as invariants of a run and then as theorems: a
   session plays for one seat at a time, a mail is recorded before it is sent.
3. **Delivery layer**: `MaxAckPending` of the shared consumer, filled by commands
   of matches nobody hosts; order of NAK'd commands.
4. **The composition of `Bots` with `MatchLobby`**: the seats that `fillBots` moves
   against the sessions that play them; and a seat that is flagged again, whose old
   session then deletes the key of the new one (`runner.go:117`, `149`).
5. **A connection whose second hello names another match** (`Gateway`).

## Not modelled

* *Registration, passwords, logins of humans*: one SQL statement per operation.
  The way of a bot's token to a ticket is in `Bots`; `GETDEL` makes a ticket
  single-use by itself.
* *Visibility geometry, map graph, snapping*: floating point geometry without
  state; the repository tests its equivalence to a direct computation. The
  travel time is cut to whole seconds (`movement.go:40`), which needs the
  floating point values too.
* *HTTP API, wire messages, errors, processes, platform*: decoding, rendering,
  start-up. The one HTTP decision with effects, the automatic start of the
  creator, is in `MatchLobby`; the NATS handlers of `engine/server.go` in
  `EngineRunner`; what the chat route lets through in `Chat`.
* *Rate limits*: the token buckets of gateway and chat may refuse anything, which
  is what the models assume of them.
* *The bell and the history*: listing, counting and marking notifications, listing
  chat: one SQL statement each, and no other part reads what they write.
* *Snapshots and statistics*: written, never read back.
* *Web client, deployment*: rendering; not program logic.

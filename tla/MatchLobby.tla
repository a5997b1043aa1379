------------------------------ MODULE MatchLobby ------------------------------
(***************************************************************************)
(* The lobby row of one match and its player rows in Postgres              *)
(* (internal/adapter/pgrepo), written by the request handlers of core-api  *)
(* (internal/service/lobbysvc) and by three workers (internal/worker):     *)
(* presence and takeover, abandonment, final state.                        *)
(*                                                                         *)
(* No handler holds a transaction: each SQL statement is one atomic step,  *)
(* and between two statements of a handler anything else may happen,       *)
(* including the end of the handler, because a request whose client goes   *)
(* away has its context cancelled.  The player column alive is TRUE in     *)
(* every row (nothing ever updates it) and is left out, as are colours,    *)
(* the winner and the statistics.                                          *)
(***************************************************************************)
EXTENDS Naturals, Seats

CONSTANTS
    Handlers,   \* concurrent request handlers of core-api
    Humans,     \* user accounts of players
    Creator,    \* the human whose request creates the match
    BotCount,   \* bot accounts; 1, 2, ... is the order of ListBots
    OffMap,     \* slot ids that are not on the map, as a request may name them
    NoUser

Bots == 1..BotCount
Users == Humans \cup Bots
Places == Slots \cup OffMap

ASSUME LobbyAssumption ==
    /\ BotCount \in Nat /\ Creator \in Humans /\ Humans \cap Bots = {}
    /\ NoUser \notin Users
    /\ OffMap \subseteq Nat /\ OffMap \cap Slots = {} /\ NoSlot \notin OffMap

VARIABLES
    status,       \* matches.status, "none" before the row exists
    seat,         \* per user: the slot of its row in match_players, or NoSlot
    ai,           \* per user: controlled_by_ai of that row
    seen,         \* per human: last_seen_at, "never", "fresh", older than the
                  \* abandonment threshold ("quiet") or the takeover one ("gone")
    req,          \* per handler: the statement it is about to run, its locals
    published,    \* the start message has been published
    assigned,     \* its SlotAssignments, a user for some of the slots
    host,         \* the engine: "none", "hosting" or "over"
    endMsg,       \* an end-match message is in flight
    finalMsg,     \* a final state is in flight
    due,          \* slots the takeover scan listed and has yet to flip
    abandoner,    \* the abandonment scan: "idle", "listed", "silent", "marked"
    relinquished  \* history: slots handed off or gone past the takeover threshold

row == <<status, seat, ai, seen>>
engine == <<host, endMsg, finalMsg>>
workers == <<due, abandoner>>
start == <<published, assigned>>
lobbyVars == <<row, req, start, engine, workers, relinquished>>

Empty == [s \in {} |-> NoUser]

\* A handler with no request.  "fill" is the bots still to be seated by
\* fillBots, by slot; "roster" the assignment read for the start message.
Idle == [at |-> "idle", user |-> NoUser, slot |-> NoSlot, fill |-> Empty, roster |-> Empty]

LInit ==
    /\ status = "none"
    /\ seat = [u \in Users |-> NoSlot]
    /\ ai = [u \in Users |-> FALSE]
    /\ seen = [u \in Humans |-> "never"]
    /\ req = [h \in Handlers |-> Idle]
    /\ published = FALSE /\ assigned = Empty
    /\ host = "none" /\ endMsg = FALSE /\ finalMsg = FALSE
    /\ due = {} /\ abandoner = "idle"
    /\ relinquished = {}

Least(S) == CHOOSE s \in S : \A t \in S : s <= t
Seated == {u \in Users : seat[u] # NoSlot}
Taken == {seat[u] : u \in Seated}
At(h, where) == req[h].at = where
Go(h, where) == req' = [req EXCEPT ![h].at = where]
Done(h) == req' = [req EXCEPT ![h] = Idle]

\* Postgres: INSERT ... ON CONFLICT (match_id, user_id) DO UPDATE, so a user
\* already in the match moves to the new slot and keeps last_seen_at.
AddPlayer(u, s, controlled) ==
    /\ seat' = [seat EXCEPT ![u] = s]
    /\ ai' = [ai EXCEPT ![u] = controlled]
    /\ relinquished' = IF u \in Humans /\ seen[u] = "gone"
                       THEN relinquished \cup {s} ELSE relinquished
    /\ UNCHANGED <<status, seen>>

\* DELETE by (match, user); the row is gone with its presence.
RemoveRow(u) ==
    /\ seat' = [seat EXCEPT ![u] = NoSlot]
    /\ ai' = [ai EXCEPT ![u] = FALSE]
    /\ seen' = [v \in Humans |-> IF v = u THEN "never" ELSE seen[v]]
    /\ UNCHANGED status

\* Mutant: the WHERE clause loses its slot.
MarkControlledByAIAnySlot(s) ==
    /\ ai' = [u \in Users |-> ai[u] \/ seat[u] # NoSlot]
    /\ UNCHANGED <<status, seat, seen>>

\* UPDATE by (match, slot): every row in the slot.
MarkControlledByAI(s) ==
    /\ ai' = [u \in Users |-> ai[u] \/ seat[u] = s]
    /\ UNCHANGED <<status, seat, seen>>

(***************************************************************************)
(* Requests while the match waits for players.                             *)
(***************************************************************************)
Locals(at, u, s) == [Idle EXCEPT !.at = at, !.user = u, !.slot = s]

Begin(h, at, u, s) == At(h, "idle") /\ req' = [req EXCEPT ![h] = Locals(at, u, s)]

\* The slot is checked against the map before the row is inserted.
Create(h, s, autoStart) ==
    /\ status = "none" /\ s \in Slots
    /\ status' = "waiting"
    /\ Begin(h, IF autoStart THEN "seatCreatorAndStart" ELSE "seatCreator", Creator, s)
    /\ UNCHANGED <<seat, ai, seen, start, engine, workers, relinquished>>

SeatCreator(h) ==
    /\ At(h, "seatCreator") \/ At(h, "seatCreatorAndStart")
    /\ AddPlayer(Creator, req[h].slot, FALSE)
    /\ IF At(h, "seatCreator") THEN Done(h) ELSE Go(h, "markStarting")
    /\ UNCHANGED <<start, engine, workers>>

\* NoSlot asks for the first free one.
JoinGet(h, u, s) ==
    /\ status = "waiting"
    /\ Begin(h, "joinList", u, s)
    /\ UNCHANGED <<row, start, engine, workers, relinquished>>

\* The error of ListPlayers is dropped: a list that failed reads as an empty
\* match, in which nobody sits and every slot is free.
JoinList(h) ==
    /\ At(h, "joinList")
    /\ \E read \in {Seated, {}} :
          LET u == req[h].user
              free == Slots \ {seat[v] : v \in read}
              chosen == IF req[h].slot # NoSlot THEN req[h].slot
                        ELSE IF free = {} THEN NoSlot ELSE Least(free)
          IN  IF u \notin read /\ chosen \in free
              THEN req' = [req EXCEPT ![h] = Locals("joinAdd", u, chosen)]
              ELSE Done(h)
    /\ UNCHANGED <<row, start, engine, workers, relinquished>>

JoinAdd(h) ==
    /\ At(h, "joinAdd")
    /\ AddPlayer(req[h].user, req[h].slot, FALSE)
    /\ Done(h)
    /\ UNCHANGED <<start, engine, workers>>

\* Any user may ask to leave; a match that runs turns it into a handoff.
LeaveGet(h, u) ==
    /\ \/ status = "waiting" /\ Begin(h, "remove", u, NoSlot)
       \/ status \in {"starting", "active"} /\ Begin(h, "handoffGet", u, NoSlot)
    /\ UNCHANGED <<row, start, engine, workers, relinquished>>

\* Only the creator may kick; the target may be a seated bot.
KickGet(h, target) ==
    /\ status = "waiting"
    /\ Begin(h, "remove", target, NoSlot)
    /\ UNCHANGED <<row, start, engine, workers, relinquished>>

RemovePlayer(h) ==
    /\ At(h, "remove")
    /\ RemoveRow(req[h].user)
    /\ Done(h)
    /\ UNCHANGED <<start, engine, workers, relinquished>>

\* The creator asks for a bot in a slot.  Clearing a slot is not possible: the
\* request is refused when the slot is occupied and has nothing to do when not.
\* Nothing checks that the slot is on the map.
PatchGet(h, s) ==
    /\ status = "waiting" /\ s \in Places
    /\ Begin(h, "patchList", NoUser, s)
    /\ UNCHANGED <<row, start, engine, workers, relinquished>>

PatchList(h) ==
    /\ At(h, "patchList")
    /\ IF req[h].slot \in Taken \/ BotCount = 0 THEN Done(h) ELSE Go(h, "patchAdd")
    /\ UNCHANGED <<row, start, engine, workers, relinquished>>

\* ListBots(1) is the first account, whether or not it already sits somewhere.
PatchAdd(h) ==
    /\ At(h, "patchAdd")
    /\ AddPlayer(1, req[h].slot, TRUE)
    /\ Done(h)
    /\ UNCHANGED <<start, engine, workers>>

(***************************************************************************)
(* Handoff: the caller gives its slot to a bot while the match runs.       *)
(***************************************************************************)
UnderWay == status \in {"starting", "active"}

HandoffAsk(h, u) ==
    /\ UnderWay
    /\ Begin(h, "handoffList", u, NoSlot)
    /\ UNCHANGED <<row, start, engine, workers, relinquished>>

\* Leave reads the row again through Handoff.
HandoffGet(h) ==
    /\ At(h, "handoffGet")
    /\ IF UnderWay THEN Go(h, "handoffList") ELSE Done(h)
    /\ UNCHANGED <<row, start, engine, workers, relinquished>>

HandoffList(h) ==
    LET s == seat[req[h].user] IN
    /\ At(h, "handoffList")
    /\ IF s = NoSlot
       THEN Done(h) /\ UNCHANGED relinquished
       ELSE /\ req' = [req EXCEPT ![h] = Locals("handoffMark", req[h].user, s)]
            /\ relinquished' = relinquished \cup {s}
    /\ UNCHANGED <<row, start, engine, workers>>

HandoffMark(h) ==
    /\ At(h, "handoffMark")
    /\ MarkControlledByAI(req[h].slot)
    /\ Done(h)
    /\ UNCHANGED <<start, engine, workers, relinquished>>

(***************************************************************************)
(* Starting: claim the row, fill the free slots, make it active, announce. *)
(***************************************************************************)
StartGet(h) ==
    /\ status = "waiting"
    /\ Begin(h, "markStarting", NoUser, NoSlot)
    /\ UNCHANGED <<row, start, engine, workers, relinquished>>

\* Mutant: losing the race is not reported to the caller.
MarkStartingUnchecked(h) ==
    /\ At(h, "markStarting")
    /\ status' = IF status = "waiting" THEN "starting" ELSE status
    /\ Go(h, "fillList")
    /\ UNCHANGED <<seat, ai, seen, start, engine, workers, relinquished>>

\* UPDATE ... WHERE status = 'waiting'; zero rows means somebody was faster.
MarkStarting(h) ==
    /\ At(h, "markStarting")
    /\ IF status = "waiting"
       THEN status' = "starting" /\ Go(h, "fillList")
       ELSE UNCHANGED status /\ Done(h)
    /\ UNCHANGED <<seat, ai, seen, start, engine, workers, relinquished>>

\* The n-th account of ListBots goes to the n-th free slot of the map.
Filling(free) == [s \in free |-> Cardinality({t \in free : t <= s})]

\* Mutant: the number of accounts is not compared with the need.
FillListUnchecked(h) ==
    LET free == Slots \ Taken IN
    /\ At(h, "fillList")
    /\ req' = [req EXCEPT ![h] = [Idle EXCEPT !.at = "fillAdd", !.fill = Filling(free)]]
    /\ UNCHANGED <<row, start, engine, workers, relinquished>>

FillList(h) ==
    LET free == Slots \ Taken IN
    /\ At(h, "fillList")
    /\ IF Cardinality(free) > BotCount
       THEN Done(h)
       ELSE req' = [req EXCEPT ![h] = [Idle EXCEPT !.at = "fillAdd", !.fill = Filling(free)]]
    /\ UNCHANGED <<row, start, engine, workers, relinquished>>

FillAdd(h) ==
    LET fill == req[h].fill
        s == Least(DOMAIN fill)
    IN  /\ At(h, "fillAdd") /\ DOMAIN fill # {}
        /\ AddPlayer(fill[s], s, TRUE)
        /\ req' = [req EXCEPT ![h].fill = [t \in DOMAIN fill \ {s} |-> fill[t]]]
        /\ UNCHANGED <<start, engine, workers>>

\* Mutant: the start is announced before the row is made active.
CountPlayersPublishes(h) ==
    /\ At(h, "fillAdd") /\ DOMAIN req[h].fill = {}
    /\ IF Cardinality(Seated) >= 2
       THEN published' = TRUE /\ Go(h, "markActive")
       ELSE UNCHANGED published /\ Done(h)
    /\ UNCHANGED <<row, assigned, engine, workers, relinquished>>

CountPlayers(h) ==
    /\ At(h, "fillAdd") /\ DOMAIN req[h].fill = {}
    /\ IF Cardinality(Seated) >= 2 THEN Go(h, "markActive") ELSE Done(h)
    /\ UNCHANGED <<row, start, engine, workers, relinquished>>

\* The number of rows the conditional UPDATE changed is not looked at.
MarkActive(h) ==
    /\ At(h, "markActive")
    /\ status' = IF status = "starting" THEN "active" ELSE status
    /\ Go(h, "assign")
    /\ UNCHANGED <<seat, ai, seen, start, engine, workers, relinquished>>

\* The payload is a map by slot: of two rows in one slot the last one wins.
Assign(h) ==
    /\ At(h, "assign")
    /\ \E roster \in [Taken -> Users] :
          /\ \A s \in Taken : seat[roster[s]] = s
          /\ req' = [req EXCEPT ![h].at = "publish", ![h].roster = roster]
    /\ UNCHANGED <<row, start, engine, workers, relinquished>>

PublishStart(h) ==
    /\ At(h, "publish")
    /\ published' = TRUE /\ assigned' = req[h].roster
    /\ Done(h)
    /\ UNCHANGED <<row, engine, workers, relinquished>>

\* The client disconnects: the next statement fails and the handler returns.
Abort(h) ==
    /\ ~At(h, "idle")
    /\ Done(h)
    /\ UNCHANGED <<row, start, engine, workers, relinquished>>

(***************************************************************************)
(* The engine, seen from here: it hosts what is announced, ends it by      *)
(* itself or on request, and then publishes a final state.                 *)
(***************************************************************************)
Host ==
    /\ published /\ host = "none" /\ host' = "hosting"
    /\ UNCHANGED <<row, req, start, endMsg, finalMsg, workers, relinquished>>

Victory ==
    /\ host = "hosting" /\ host' = "over" /\ finalMsg' = TRUE
    /\ UNCHANGED <<row, req, start, endMsg, workers, relinquished>>

\* A request for a match the engine does not host does nothing.
EndHosted ==
    /\ endMsg /\ endMsg' = FALSE
    /\ IF host = "hosting"
       THEN host' = "over" /\ finalMsg' = TRUE
       ELSE UNCHANGED <<host, finalMsg>>
    /\ UNCHANGED <<row, req, start, workers, relinquished>>

(***************************************************************************)
(* The workers.                                                            *)
(***************************************************************************)
\* A ping names the slot of a session the engine assigned it to.
TouchPresence(s) ==
    /\ host # "none" /\ s \in DOMAIN assigned
    /\ seen' = [u \in Humans |-> IF seat[u] = s THEN "fresh" ELSE seen[u]]
    /\ UNCHANGED <<status, seat, ai, req, start, engine, workers, relinquished>>

\* Time passes without a ping of the user.
Quieten(u) ==
    /\ status = "active" /\ seat[u] # NoSlot /\ seen[u] \in {"fresh", "quiet"}
    /\ seen' = [seen EXCEPT ![u] = IF @ = "fresh" THEN "quiet" ELSE "gone"]
    /\ relinquished' = IF seen[u] = "quiet" THEN relinquished \cup {seat[u]} ELSE relinquished
    /\ UNCHANGED <<status, seat, ai, req, start, engine, workers>>

\* Mutant: only slots between the two thresholds.
SlotsNeedingTakeoverQuiet == {seat[u] : u \in {v \in Humans :
    status = "active" /\ seat[v] # NoSlot /\ ~ai[v] /\ seen[v] = "quiet"}}

SlotsNeedingTakeover == {seat[u] : u \in {v \in Humans :
    status = "active" /\ seat[v] # NoSlot /\ ~ai[v] /\ seen[v] = "gone"}}

TakeoverScan ==
    /\ due = {} /\ due' = SlotsNeedingTakeover
    /\ UNCHANGED <<row, req, start, engine, abandoner, relinquished>>

TakeoverFlip ==
    /\ due # {}
    /\ MarkControlledByAI(Least(due))
    /\ due' = due \ {Least(due)}
    /\ UNCHANGED <<req, start, engine, abandoner, relinquished>>

\* Every human still in control has been seen once and is silent since.
MatchAbandonedCandidate ==
    /\ Seated # {}
    /\ \A u \in Humans : seat[u] # NoSlot /\ ~ai[u] => seen[u] \in {"quiet", "gone"}

AbandonList ==
    /\ abandoner = "idle" /\ status = "active" /\ abandoner' = "listed"
    /\ UNCHANGED <<row, req, start, engine, due, relinquished>>

AbandonCheck ==
    /\ abandoner = "listed"
    /\ abandoner' = IF MatchAbandonedCandidate THEN "silent" ELSE "idle"
    /\ UNCHANGED <<row, req, start, engine, due, relinquished>>

\* Mutant: the update looks for the wrong status.
MarkAbandonedStarting ==
    /\ abandoner = "silent" /\ abandoner' = "marked"
    /\ status' = IF status = "starting" THEN "abandoned" ELSE status
    /\ UNCHANGED <<seat, ai, seen, req, start, engine, due, relinquished>>

MarkAbandoned ==
    /\ abandoner = "silent" /\ abandoner' = "marked"
    /\ status' = IF status = "active" THEN "abandoned" ELSE status
    /\ UNCHANGED <<seat, ai, seen, req, start, engine, due, relinquished>>

PublishEndMatch ==
    /\ abandoner = "marked" /\ abandoner' = "idle"
    /\ endMsg' = TRUE
    /\ UNCHANGED <<row, req, start, host, finalMsg, due, relinquished>>

\* MarkEnded writes the row whatever its status is.
FinalState ==
    /\ finalMsg /\ finalMsg' = FALSE
    /\ status' = "ended"
    /\ UNCHANGED <<seat, ai, seen, req, start, host, endMsg, workers, relinquished>>

\* The worker restarts; the final state it was to receive is lost as well,
\* because the subject is not persisted.
WorkerRestart ==
    /\ due' = {} /\ abandoner' = "idle" /\ finalMsg' = FALSE
    /\ UNCHANGED <<row, req, start, host, endMsg, relinquished>>

Request(h) ==
    \/ \E s \in Places : PatchGet(h, s)
    \/ \E s \in Slots, autoStart \in BOOLEAN : Create(h, s, autoStart)
    \/ \E u \in Humans : LeaveGet(h, u) \/ HandoffAsk(h, u)
    \/ \E u \in Humans, s \in Slots \cup {NoSlot} : JoinGet(h, u, s)
    \/ \E target \in Users : KickGet(h, target)
    \/ StartGet(h)

\* The next statement of a request under way.
Statement(h) ==
    \/ SeatCreator(h) \/ JoinList(h) \/ JoinAdd(h) \/ RemovePlayer(h)
    \/ PatchList(h) \/ PatchAdd(h)
    \/ HandoffGet(h) \/ HandoffList(h) \/ HandoffMark(h)
    \/ MarkStarting(h) \/ FillList(h) \/ FillAdd(h) \/ CountPlayers(h)
    \/ MarkActive(h) \/ Assign(h) \/ PublishStart(h)

LNext ==
    \/ \E h \in Handlers : Request(h) \/ Statement(h) \/ Abort(h)
    \/ Host \/ Victory \/ EndHosted
    \/ \E s \in Slots : TouchPresence(s)
    \/ \E u \in Humans : Quieten(u)
    \/ TakeoverScan \/ TakeoverFlip
    \/ AbandonList \/ AbandonCheck \/ MarkAbandoned \/ PublishEndMatch
    \/ FinalState \/ WorkerRestart

LSpec == LInit /\ [][LNext]_lobbyVars

(***************************************************************************)
(* A handler runs until it returns; the engine consumes what it is sent;   *)
(* the scans run on tickers.  A worker restart may interrupt a scan, but   *)
(* not every one of them: a statement of a scan that comes up again and    *)
(* again is executed again and again.                                      *)
(***************************************************************************)
LFairSpec ==
    /\ LSpec
    /\ \A h \in Handlers : WF_lobbyVars(Statement(h))
    /\ WF_lobbyVars(Host) /\ WF_lobbyVars(EndHosted)
    /\ WF_lobbyVars(TakeoverScan) /\ SF_lobbyVars(TakeoverFlip)
    /\ WF_lobbyVars(AbandonList) /\ SF_lobbyVars(AbandonCheck)
    /\ SF_lobbyVars(MarkAbandoned) /\ SF_lobbyVars(PublishEndMatch)

(***************************************************************************)
(* Properties.                                                             *)
(***************************************************************************)
Statuses == {"none", "waiting", "starting", "active", "ended", "abandoned"}

\* The statements of a start that MarkStarting let through.
Launching == {"fillList", "fillAdd", "markActive", "assign", "publish"}

Statements == Launching \cup {
    "idle", "seatCreator", "seatCreatorAndStart", "joinList", "joinAdd", "remove",
    "patchList", "patchAdd", "handoffGet", "handoffList", "handoffMark", "markStarting"}

Partial(S, V) == UNION {[T -> V] : T \in SUBSET S}

Requests == [at : Statements, user : Users \cup {NoUser}, slot : Places \cup {NoSlot},
             fill : Partial(Slots, Bots), roster : Partial(Places, Users)]

\* Every variable keeps its type.  A bot may sit in a place that is not on the
\* map, a human never does; fillBots fills slots of the map only and never runs
\* out of the accounts it counted.
LTypeOK ==
    /\ status \in Statuses
    /\ seat \in [Users -> Places \cup {NoSlot}]
    /\ \A u \in Humans : seat[u] \in Slots \cup {NoSlot}
    /\ ai \in [Users -> BOOLEAN]
    /\ seen \in [Humans -> {"never", "fresh", "quiet", "gone"}]
    /\ req \in [Handlers -> Requests]
    /\ published \in BOOLEAN /\ endMsg \in BOOLEAN /\ finalMsg \in BOOLEAN
    /\ assigned \in Partial(Places, Users)
    /\ host \in {"none", "hosting", "over"}
    /\ due \subseteq Slots /\ relinquished \subseteq Slots
    /\ abandoner \in {"idle", "listed", "silent", "marked"}

\* Several starts of one match race (two clients, or the creator's automatic
\* start): only the one whose MarkStarting changed the row goes on to publish,
\* so no handler can publish a start that has been published.
StartAnnouncedOnce == published => \A h \in Handlers : req[h].at \notin Launching

\* A bot plays for a human only in a slot that was handed off by the user in
\* it, or whose user was once seen and then silent past the takeover threshold.
TakenOverWasRelinquished ==
    \A u \in Humans : seat[u] # NoSlot /\ ai[u] => seat[u] \in relinquished

Life == INSTANCE MatchLife WITH
    phase <- CASE status \in {"none", "waiting"} -> "open"
               [] status = "starting" -> "launching"
               [] status = "active" -> "running"
               [] OTHER -> "over",
    announced <- published

\* The handlers and the workers together implement the life of a match row.
LifeImplemented == Life!LifeSpec

\* A user silent past the takeover threshold in an active match is replaced
\* by a bot, unless it comes back, is removed or the match ends.
GoneIsTakenOver ==
    \A u \in Humans :
        status = "active" /\ seat[u] # NoSlot /\ seen[u] = "gone"
            ~> ai[u] \/ status # "active" \/ seat[u] = NoSlot \/ seen[u] # "gone"

\* A match that all its remaining humans left silent is abandoned, unless one
\* of them comes back.
SilentIsAbandoned ==
    status = "active" /\ MatchAbandonedCandidate
        ~> status # "active" \/ ~MatchAbandonedCandidate


================================================================================

----------------------------- MODULE LobbyProofs ------------------------------
(***************************************************************************)
(* Proofs about MatchLobby, for any number of handlers, users, bots and    *)
(* slots: types, a start is announced at most once, and the handlers and   *)
(* workers implement MatchLife.                                            *)
(***************************************************************************)
EXTENDS MatchLobby, FiniteSetTheorems, NatFacts, TLAPS

Out == {"active", "ended", "abandoned"}
BeforeActive == {"fillList", "fillAdd", "markActive"}
AfterActive == {"assign", "publish"}

\* Where a handler is about to use the slot of its request.
Seating == {"seatCreator", "seatCreatorAndStart", "joinAdd", "patchList", "patchAdd"}

\* Where that slot was checked against the map.
Checked == {"seatCreator", "seatCreatorAndStart", "joinAdd"}

\* Where it needs neither.
Plain == {"idle", "remove", "handoffMark", "markStarting"}

\* Where it is about to look up the user.
Asking == {"handoffGet", "handoffList"}

\* A bot is only asked for when there is an account; only humans hand off.
LocalsOK(r) ==
    /\ r.at \in Seating => r.slot \in Places
    /\ r.at \in Checked => r.slot \in Slots
    /\ r.at = "patchAdd" => 1 \in Bots
    /\ r.at \in Asking => r.user \in Humans

\* Where the one handler that won MarkStarting is, against the row.
LauncherInv ==
    /\ \A h, g \in Handlers : req[h].at \in Launching /\ req[g].at \in Launching => h = g
    /\ \A h \in Handlers : req[h].at \in BeforeActive => status = "starting"
    /\ \A h \in Handlers : req[h].at \in AfterActive => status \in Out
    /\ \A h \in Handlers : req[h].at \in Launching => ~published
    /\ published => status \in Out
    /\ host # "none" \/ finalMsg => published
    /\ \A h \in Handlers : LocalsOK(req[h])

\* The inductive invariant.
LInv == LTypeOK /\ LauncherInv

USE LobbyAssumption, SeatsAssumption

LEMMA LeastMember ==
    ASSUME NEW C, C \subseteq Slots, C # {}
    PROVE  Least(C) \in C
<1>1. \E m \in C : \A t \in C : m <= t
  BY LeastNat
<1> QED
  BY <1>1 DEF Least

LEMMA EmptyType == ASSUME NEW S, NEW V PROVE Empty \in Partial(S, V)
BY DEF Empty, Partial

LEMMA IdleType == Idle \in Requests
BY EmptyType DEF Idle, Requests, Statements

\* A request that just began or that lost its locals.
LEMMA LocalsType ==
    ASSUME NEW at \in Statements, NEW u \in Users \cup {NoUser}, NEW s \in Places \cup {NoSlot}
    PROVE  /\ Locals(at, u, s) \in Requests
           /\ Locals(at, u, s).at = at /\ Locals(at, u, s).slot = s /\ Locals(at, u, s).user = u
BY EmptyType DEF Locals, Idle, Requests

\* Moving to another statement keeps the locals and every other handler.
LEMMA GoEffect ==
    ASSUME LTypeOK, NEW h \in Handlers, NEW at \in Statements, Go(h, at)
    PROVE  /\ req' \in [Handlers -> Requests]
           /\ req'[h].at = at /\ req'[h].slot = req[h].slot /\ req'[h].user = req[h].user
           /\ \A g \in Handlers \ {h} : req'[g] = req[g]
BY DEF LTypeOK, Go, Requests

LEMMA DoneEffect ==
    ASSUME LTypeOK, NEW h \in Handlers, Done(h)
    PROVE  /\ req' \in [Handlers -> Requests]
           /\ req'[h].at = "idle"
           /\ \A g \in Handlers \ {h} : req'[g] = req[g]
<1>1. Idle \in Requests /\ Idle.at = "idle"
  BY IdleType DEF Idle
<1> QED
  BY <1>1 DEF LTypeOK, Done

LEMMA BeginEffect ==
    ASSUME LTypeOK, NEW h \in Handlers, NEW at \in Statements,
           NEW u \in Users \cup {NoUser}, NEW s \in Places \cup {NoSlot},
           Begin(h, at, u, s)
    PROVE  /\ req' \in [Handlers -> Requests]
           /\ req'[h].at = at /\ req'[h].slot = s /\ req'[h].user = u
           /\ \A g \in Handlers \ {h} : req'[g] = req[g]
<1>1. /\ Locals(at, u, s) \in Requests
      /\ Locals(at, u, s).at = at /\ Locals(at, u, s).slot = s /\ Locals(at, u, s).user = u
  BY LocalsType
<1> QED
  BY <1>1 DEF LTypeOK, Begin, At

\* The tables with their types, and what the statements on them preserve.
Tables ==
    /\ status \in Statuses
    /\ seat \in [Users -> Places \cup {NoSlot}]
    /\ \A u \in Humans : seat[u] \in Slots \cup {NoSlot}
    /\ ai \in [Users -> BOOLEAN]
    /\ seen \in [Humans -> {"never", "fresh", "quiet", "gone"}]
    /\ relinquished \subseteq Slots

LEMMA AddPlayerEffect ==
    ASSUME LTypeOK, NEW u, NEW s \in Places, NEW c \in BOOLEAN, AddPlayer(u, s, c),
           u \in Humans => s \in Slots
    PROVE  Tables' /\ status' = status
<1>1. seat' \in [Users -> Places \cup {NoSlot}]
  BY DEF LTypeOK, AddPlayer
<1>4. \A v \in Humans : seat'[v] \in Slots \cup {NoSlot}
  BY DEF LTypeOK, AddPlayer, Users
<1>2. ai' \in [Users -> BOOLEAN]
  BY DEF LTypeOK, AddPlayer
<1>3. relinquished' \subseteq Slots
  BY DEF LTypeOK, AddPlayer
<1> QED
  BY <1>1, <1>2, <1>3, <1>4 DEF LTypeOK, AddPlayer, Tables

LEMMA RemoveRowEffect ==
    ASSUME LTypeOK, NEW u \in Users \cup {NoUser}, RemoveRow(u), UNCHANGED relinquished
    PROVE  Tables' /\ status' = status
<1>1. seat' \in [Users -> Places \cup {NoSlot}] /\ ai' \in [Users -> BOOLEAN]
  BY DEF LTypeOK, RemoveRow
<1>3. \A v \in Humans : seat'[v] \in Slots \cup {NoSlot}
  BY DEF LTypeOK, RemoveRow, Users
<1>2. seen' \in [Humans -> {"never", "fresh", "quiet", "gone"}]
  BY DEF LTypeOK, RemoveRow
<1> QED
  BY <1>1, <1>2, <1>3 DEF LTypeOK, RemoveRow, Tables

LEMMA MarkControlledByAIEffect ==
    ASSUME LTypeOK, NEW s, MarkControlledByAI(s), UNCHANGED relinquished
    PROVE  Tables' /\ status' = status
BY DEF LTypeOK, MarkControlledByAI, Tables

\* The steps of handlers that neither claim nor carry on a start.
LEMMA OrdinaryStep ==
    ASSUME LauncherInv, NEW h \in Handlers,
           req'[h].at \notin Launching, LocalsOK(req'[h]),
           \A g \in Handlers \ {h} : req'[g] = req[g],
           status' = status \/ (status = "none" /\ status' = "waiting"),
           UNCHANGED <<start, engine>>
    PROVE  LauncherInv'
BY DEF LauncherInv, Launching, BeforeActive, AfterActive, Out, start, engine

\* The winner's next statement, while the row stays as it is.
LEMMA WinnerStep ==
    ASSUME LauncherInv, NEW h \in Handlers,
           \/ req[h].at \in BeforeActive /\ req'[h].at \in BeforeActive
           \/ req[h].at \in AfterActive /\ req'[h].at \in AfterActive,
           \A g \in Handlers \ {h} : req'[g] = req[g],
           status' = status, UNCHANGED <<start, engine>>
    PROVE  LauncherInv'
<1>1. LocalsOK(req'[h])
  BY DEF LocalsOK, Seating, Checked, Asking, BeforeActive, AfterActive
<1> QED
  BY <1>1 DEF LauncherInv, Launching, BeforeActive, AfterActive, Out, start, engine

\* A worker or the engine moves the row of a match that runs or is over.
LEMMA OthersStep ==
    ASSUME LauncherInv, req' = req, UNCHANGED published,
           status' = status \/ (status \in Out /\ status' \in Out),
           host' # "none" \/ finalMsg' => published
    PROVE  LauncherInv'
BY DEF LauncherInv, Launching, BeforeActive, AfterActive, Out

LEMMA TypeFrom ==
    ASSUME LTypeOK, Tables', req' \in [Handlers -> Requests],
           UNCHANGED <<start, engine, workers>>
    PROVE  LTypeOK'
BY DEF LTypeOK, Tables, start, engine, workers

\* Rows that do not change keep their types.
LEMMA SameTables ==
    ASSUME LTypeOK, UNCHANGED row, relinquished' \subseteq Slots
    PROVE  Tables' /\ status' = status
BY DEF LTypeOK, Tables, row

\* A handler that has no row to write: it goes to a place outside a start.
LEMMA ReadStep ==
    ASSUME LInv, NEW h \in Handlers, UNCHANGED row, relinquished' \subseteq Slots,
           UNCHANGED <<start, engine, workers>>,
           req' \in [Handlers -> Requests], req'[h].at \notin Launching,
           LocalsOK(req'[h]),
           \A g \in Handlers \ {h} : req'[g] = req[g]
    PROVE  LInv'
<1>1. Tables' /\ status' = status
  BY SameTables DEF LInv
<1> QED
  BY <1>1, TypeFrom, OrdinaryStep DEF LInv

\* A new request.
LEMMA BeginStep ==
    ASSUME LInv, NEW h \in Handlers, NEW at \in Statements \ Launching,
           NEW u \in Users \cup {NoUser}, NEW s \in Places \cup {NoSlot},
           Begin(h, at, u, s), at \in Seating => s \in Places, at \in Checked => s \in Slots,
           at # "patchAdd", at \in Asking => u \in Humans,
           UNCHANGED <<row, start, engine, workers, relinquished>>
    PROVE  LInv'
<1>1. /\ req' \in [Handlers -> Requests] /\ req'[h].at = at
      /\ req'[h].slot = s /\ req'[h].user = u
      /\ \A g \in Handlers \ {h} : req'[g] = req[g]
  BY BeginEffect DEF LInv
<1>2. relinquished' \subseteq Slots
  BY DEF LInv, LTypeOK
<1> QED
  BY <1>1, <1>2, ReadStep DEF LocalsOK

LEMMA RequestStep ==
    ASSUME LInv, NEW h \in Handlers, Request(h)
    PROVE  LInv'
<1>1. ASSUME NEW s \in Places, PatchGet(h, s) PROVE LInv'
  BY <1>1, BeginStep DEF PatchGet, Statements, Launching, Seating, Checked, Asking
<1>2. ASSUME NEW s \in Slots, NEW autoStart \in BOOLEAN, Create(h, s, autoStart) PROVE LInv'
  <2> DEFINE at == IF autoStart THEN "seatCreatorAndStart" ELSE "seatCreator"
  <2>1. at \in Statements /\ at \notin Launching /\ Creator \in Users \cup {NoUser}
        /\ s \in Places
    BY DEF Statements, Launching, Users, Places
  <2>2. /\ req' \in [Handlers -> Requests] /\ req'[h].at = at /\ req'[h].slot = s
        /\ \A g \in Handlers \ {h} : req'[g] = req[g]
    BY <1>2, <2>1, BeginEffect DEF LInv, Create
  <2>3. Tables' /\ status = "none" /\ status' = "waiting"
    BY <1>2 DEF LInv, LTypeOK, Tables, Create, Statuses
  <2>4. UNCHANGED <<start, engine, workers>>
    BY <1>2 DEF Create
  <2> QED
    BY <2>1, <2>2, <2>3, <2>4, TypeFrom, OrdinaryStep DEF LInv, LocalsOK, Asking
<1>3. ASSUME NEW u \in Humans, LeaveGet(h, u) PROVE LInv'
  <2>1. u \in Users \cup {NoUser} /\ {"remove", "handoffGet"} \subseteq Statements \ Launching
    BY DEF Users, Statements, Launching
  <2>2. "remove" \notin Seating \cup Checked \cup Asking /\ "handoffGet" \notin Seating \cup Checked
    BY DEF Seating, Checked, Asking
  <2> QED
    BY <1>3, <2>1, <2>2, BeginStep DEF LeaveGet
<1>4. ASSUME NEW u \in Humans, HandoffAsk(h, u) PROVE LInv'
  BY <1>4, BeginStep DEF HandoffAsk, Users, Statements, Launching, Seating, Checked, Asking
<1>5. ASSUME NEW u \in Humans, NEW s \in Slots \cup {NoSlot}, JoinGet(h, u, s) PROVE LInv'
  BY <1>5, BeginStep DEF JoinGet, Users, Places, Statements, Launching, Seating, Checked, Asking
<1>6. ASSUME NEW target \in Users, KickGet(h, target) PROVE LInv'
  BY <1>6, BeginStep DEF KickGet, Statements, Launching, Seating, Checked, Asking
<1>7. ASSUME StartGet(h) PROVE LInv'
  BY <1>7, BeginStep DEF StartGet, Statements, Launching, Seating, Checked, Asking
<1> QED
  BY <1>1, <1>2, <1>3, <1>4, <1>5, <1>6, <1>7 DEF Request

\* Back to idle, or to another place outside a start.
LEMMA LeaveStep ==
    ASSUME LInv, NEW h \in Handlers, NEW at \in Statements \ Launching,
           Done(h) \/ Go(h, at),
           at \in Seating => req[h].slot \in Places, at \in Checked => req[h].slot \in Slots,
           at = "patchAdd" => 1 \in Bots, at \in Asking => req[h].user \in Humans
    PROVE  /\ req' \in [Handlers -> Requests] /\ req'[h].at \notin Launching
           /\ LocalsOK(req'[h])
           /\ \A g \in Handlers \ {h} : req'[g] = req[g]
<1>1. "idle" \notin Launching /\ "idle" \notin Seating \cup Checked \cup Asking
  BY DEF Launching, Seating, Checked, Asking
<1>2. CASE Done(h)
  BY <1>1, <1>2, DoneEffect DEF LInv, LocalsOK
<1>3. CASE Go(h, at)
  BY <1>3, GoEffect DEF LInv, LocalsOK
<1> QED
  BY <1>2, <1>3

LEMMA GoneStep ==
    ASSUME LInv, NEW h \in Handlers, Done(h), UNCHANGED row, relinquished' \subseteq Slots,
           UNCHANGED <<start, engine, workers>>
    PROVE  LInv'
<1>1. "idle" \in Statements \ Launching /\ "idle" \notin Seating \cup Checked \cup Asking
  BY DEF Statements, Launching, Seating, Checked, Asking
<1> QED
  BY <1>1, LeaveStep, ReadStep

\* A handler that writes rows and not the status.
LEMMA WriteStep ==
    ASSUME LInv, NEW h \in Handlers, Tables', status' = status,
           UNCHANGED <<start, engine, workers>>,
           NEW at \in Statements \ Launching, Done(h) \/ Go(h, at),
           at \notin Seating \cup Checked \cup Asking
    PROVE  LInv'
<1>1. /\ req' \in [Handlers -> Requests] /\ req'[h].at \notin Launching
      /\ LocalsOK(req'[h])
      /\ \A g \in Handlers \ {h} : req'[g] = req[g]
  BY LeaveStep DEF Seating
<1> QED
  BY <1>1, TypeFrom, OrdinaryStep DEF LInv

\* The locals of a handler; a slot is known where one is needed.
LEMMA LocalsKnown ==
    ASSUME LTypeOK, NEW h \in Handlers
    PROVE  /\ req[h] \in Requests /\ req[h].at \in Statements
           /\ req[h].user \in Users \cup {NoUser} /\ req[h].slot \in Places \cup {NoSlot}
           /\ req[h].fill \in Partial(Slots, Bots) /\ req[h].roster \in Partial(Places, Users)
BY DEF LTypeOK, Requests

LEMMA PlainPlaces == Plain \subseteq (Statements \ Launching) \ (Seating \cup Checked \cup Asking)
BY DEF Plain, Statements, Launching, Seating, Checked, Asking

LEMMA SlotKnown ==
    ASSUME LInv, NEW h \in Handlers, req[h].at \in Seating
    PROVE  /\ req[h].slot \in Places
           /\ req[h].at \in Checked => req[h].slot \in Slots
           /\ req[h].at = "patchAdd" => 1 \in Bots
BY DEF LInv, LauncherInv, LocalsOK

LEMMA SeatingStep ==
    ASSUME LInv, NEW h \in Handlers, SeatCreator(h) \/ JoinAdd(h) \/ PatchAdd(h)
    PROVE  LInv'
<1>1. /\ Creator \in Users \cup {NoUser}
      /\ {"idle", "markStarting"} \subseteq Plain
  BY DEF Users, Plain
<1>2. CASE SeatCreator(h)
  <2>1. req[h].slot \in Slots /\ req[h].slot \in Places
    BY <1>2, SlotKnown DEF SeatCreator, At, Seating, Checked
  <2>2. Tables' /\ status' = status
    BY <1>1, <1>2, <2>1, AddPlayerEffect DEF SeatCreator, LInv
  <2> QED
    BY <1>1, PlainPlaces, <1>2, <2>2, WriteStep DEF SeatCreator
<1>3. CASE JoinAdd(h)
  <2>1. req[h].slot \in Slots /\ req[h].slot \in Places /\ req[h].user \in Users \cup {NoUser}
    BY <1>3, SlotKnown, LocalsKnown DEF JoinAdd, At, Seating, Checked, LInv
  <2>2. Tables' /\ status' = status
    BY <1>3, <2>1, AddPlayerEffect DEF JoinAdd, LInv
  <2> QED
    BY <1>1, PlainPlaces, <1>3, <2>2, WriteStep DEF JoinAdd
<1>4. CASE PatchAdd(h)
  <2>1. req[h].slot \in Places /\ 1 \in Bots /\ 1 \notin Humans
    BY <1>4, SlotKnown DEF PatchAdd, At, Seating
  <2>2. Tables' /\ status' = status
    BY <1>4, <2>1, AddPlayerEffect DEF PatchAdd, LInv
  <2> QED
    BY <1>1, PlainPlaces, <1>4, <2>2, WriteStep DEF PatchAdd
<1> QED
  BY <1>2, <1>3, <1>4

LEMMA JoinListStep ==
    ASSUME LInv, NEW h \in Handlers, JoinList(h)
    PROVE  LInv'
<1> DEFINE u == req[h].user
<1>1. relinquished' \subseteq Slots /\ UNCHANGED <<row, start, engine, workers>>
  BY DEF JoinList, LInv, LTypeOK
<1>2. CASE Done(h)
  BY <1>1, <1>2, GoneStep
<1>3. CASE ~Done(h)
  <2>1. PICK chosen \in Slots : req' = [req EXCEPT ![h] = Locals("joinAdd", u, chosen)]
    BY <1>3 DEF JoinList
  <2>2. u \in Users \cup {NoUser} /\ chosen \in Places
    BY LocalsKnown DEF LInv, Places
  <2> HIDE DEF u
  <2>3. "joinAdd" \in Statements /\ "joinAdd" \notin Launching
    BY DEF Statements, Launching
  <2>4. /\ Locals("joinAdd", u, chosen) \in Requests
        /\ Locals("joinAdd", u, chosen).at = "joinAdd"
        /\ Locals("joinAdd", u, chosen).slot = chosen
    BY <2>2, <2>3, LocalsType
  <2>5. /\ req' \in [Handlers -> Requests] /\ req'[h].at = "joinAdd"
        /\ req'[h].slot = chosen /\ \A g \in Handlers \ {h} : req'[g] = req[g]
    BY <2>1, <2>4 DEF LInv, LTypeOK
  <2> QED
    BY <1>1, <2>2, <2>3, <2>5, ReadStep DEF LocalsOK, Asking
<1> QED
  BY <1>2, <1>3

LEMMA RemoveStep ==
    ASSUME LInv, NEW h \in Handlers, RemovePlayer(h)
    PROVE  LInv'
<1>1. Tables' /\ status' = status
  BY LocalsKnown, RemoveRowEffect DEF RemovePlayer, LInv
<1>2. "idle" \in Statements \ Launching /\ "idle" \notin Seating \cup Checked \cup Asking
  BY DEF Statements, Launching, Seating, Checked, Asking
<1> QED
  BY <1>1, <1>2, WriteStep DEF RemovePlayer

LEMMA PatchListStep ==
    ASSUME LInv, NEW h \in Handlers, PatchList(h)
    PROVE  LInv'
<1>1. relinquished' \subseteq Slots /\ UNCHANGED <<row, start, engine, workers>>
  BY DEF PatchList, LInv, LTypeOK
<1>2. CASE Done(h)
  BY <1>1, <1>2, GoneStep
<1>3. CASE Go(h, "patchAdd")
  <2>1. "patchAdd" \in Statements \ Launching /\ "patchAdd" \notin Checked
    BY DEF Statements, Launching, Checked
  <2>2. req[h].slot \in Places
    BY SlotKnown DEF PatchList, At, Seating
  <2>4. 1 \in Bots
    <3>1. BotCount # 0
      <4>1. CASE Done(h)
        BY <1>3, <4>1, DoneEffect, GoEffect, <2>1 DEF LInv
      <4> QED
        BY <4>1 DEF PatchList
    <3> QED
      BY <3>1 DEF Bots
  <2>3. /\ req' \in [Handlers -> Requests] /\ req'[h].at \notin Launching
        /\ LocalsOK(req'[h])
        /\ \A g \in Handlers \ {h} : req'[g] = req[g]
    BY <1>3, <2>1, <2>2, <2>4, LeaveStep DEF Asking
  <2> QED
    BY <1>1, <2>3, ReadStep
<1> QED
  BY <1>2, <1>3 DEF PatchList

LEMMA HandoffStep ==
    ASSUME LInv, NEW h \in Handlers,
           HandoffGet(h) \/ HandoffList(h) \/ HandoffMark(h)
    PROVE  LInv'
<1>1. /\ "handoffList" \in Statements \ Launching /\ "handoffList" \notin Seating \cup Checked
      /\ {"idle", "handoffMark"} \subseteq Plain
  BY DEF Statements, Launching, Seating, Checked, Plain
<1>2. CASE HandoffGet(h)
  <2>1. relinquished' \subseteq Slots /\ UNCHANGED <<row, start, engine, workers>>
    BY <1>2 DEF HandoffGet, LInv, LTypeOK
  <2>2. req[h].user \in Humans
    BY <1>2 DEF HandoffGet, At, Asking, LInv, LauncherInv, LocalsOK
  <2>3. /\ req' \in [Handlers -> Requests] /\ req'[h].at \notin Launching
        /\ LocalsOK(req'[h])
        /\ \A g \in Handlers \ {h} : req'[g] = req[g]
    BY <1>1, <1>2, <2>2, PlainPlaces, LeaveStep DEF HandoffGet
  <2> QED
    BY <2>1, <2>3, ReadStep
<1>3. CASE HandoffList(h)
  <2> DEFINE u == req[h].user
             s == seat[u]
  <2>0. UNCHANGED <<row, start, engine, workers>>
    BY <1>3 DEF HandoffList
  <2>1. CASE s = NoSlot
    <3>1. Done(h) /\ relinquished' \subseteq Slots
      BY <1>3, <2>1 DEF HandoffList, LInv, LTypeOK
    <3> QED
      BY <2>0, <3>1, GoneStep
  <2>2. CASE s # NoSlot
    <3>1. /\ req' = [req EXCEPT ![h] = Locals("handoffMark", u, s)]
          /\ relinquished' = relinquished \cup {s}
          /\ At(h, "handoffList")
      BY <1>3, <2>2 DEF HandoffList
    <3>2. u \in Humans /\ u \in Users
      BY <3>1 DEF LInv, LauncherInv, LocalsOK, Asking, At, Users
    <3>3. s \in Slots /\ s \in Places /\ relinquished' \subseteq Slots
      BY <2>2, <3>1, <3>2 DEF LInv, LTypeOK, Places
    <3> HIDE DEF s, u
    <3>4. Locals("handoffMark", u, s) \in Requests /\ Locals("handoffMark", u, s).at = "handoffMark"
      BY <1>1, PlainPlaces, <3>2, <3>3, LocalsType
    <3>5. /\ req' \in [Handlers -> Requests] /\ req'[h].at = "handoffMark"
          /\ \A g \in Handlers \ {h} : req'[g] = req[g]
      BY <3>1, <3>4 DEF LInv, LTypeOK
    <3> QED
      BY <1>1, <2>0, <3>3, <3>5, PlainPlaces, ReadStep DEF LocalsOK, Seating
  <2> QED
    BY <2>1, <2>2
<1>4. CASE HandoffMark(h)
  <2>1. Tables' /\ status' = status
    BY <1>4, MarkControlledByAIEffect DEF HandoffMark, LInv
  <2> QED
    BY <1>1, PlainPlaces, <1>4, <2>1, WriteStep DEF HandoffMark
<1> QED
  BY <1>2, <1>3, <1>4

LEMMA LaunchPlaces ==
    /\ Launching \subseteq Statements
    /\ Launching = BeforeActive \cup AfterActive
    /\ BeforeActive \cap AfterActive = {}
    /\ Launching \cap (Seating \cup Checked \cup Asking) = {}
    /\ "patchAdd" \notin Launching
BY DEF Launching, Statements, BeforeActive, AfterActive, Seating, Checked, Asking

\* service.go:221: the row is free only while nobody launches it.
LEMMA MarkStartingStep ==
    ASSUME LInv, NEW h \in Handlers, MarkStarting(h)
    PROVE  LInv'
<1>0. UNCHANGED <<start, engine, workers>>
  BY DEF MarkStarting
<1>1. CASE status = "waiting"
  <2>1. Go(h, "fillList") /\ status' = "starting"
    BY <1>1 DEF MarkStarting
  <2>2. "fillList" \in Statements /\ "fillList" \in BeforeActive
    BY DEF Statements, Launching, BeforeActive
  <2>3. /\ req' \in [Handlers -> Requests] /\ req'[h].at = "fillList"
        /\ \A g \in Handlers \ {h} : req'[g] = req[g]
    BY <2>1, <2>2, GoEffect DEF LInv
  <2>4. Tables'
    BY <2>1 DEF MarkStarting, LInv, LTypeOK, Tables, Statuses
  <2>5. ~published /\ host = "none" /\ ~finalMsg
    BY <1>1 DEF LInv, LauncherInv, Out
  <2>6. \A g \in Handlers : req[g].at \notin Launching
    BY <1>1, LaunchPlaces DEF LInv, LauncherInv, Out
  <2>7. LTypeOK'
    BY <1>0, <2>3, <2>4, TypeFrom DEF LInv
  <2>8. \A g \in Handlers : g # h => req'[g].at \notin Launching /\ LocalsOK(req'[g])
    BY <2>3, <2>6 DEF LInv, LauncherInv
  <2>9. LocalsOK(req'[h])
    BY <2>2, <2>3, LaunchPlaces DEF LocalsOK
  <2> QED
    BY <1>0, <2>1, <2>2, <2>3, <2>5, <2>7, <2>8, <2>9, LaunchPlaces
    DEF LInv, LauncherInv, start, engine
<1>2. CASE status # "waiting"
  <2>1. Done(h) /\ UNCHANGED row /\ relinquished' \subseteq Slots
    BY <1>2 DEF MarkStarting, row, LInv, LTypeOK
  <2> QED
    BY <1>0, <2>1, GoneStep
<1> QED
  BY <1>1, <1>2

\* What fillBots plans: an account for every free slot.
LEMMA FillingType ==
    ASSUME NEW free \in SUBSET Slots, Cardinality(free) <= BotCount
    PROVE  Filling(free) \in Partial(Slots, Bots)
<1> SUFFICES ASSUME NEW s \in free
             PROVE  Cardinality({t \in free : t <= s}) \in Bots
  BY DEF Filling, Partial
<1> DEFINE below == {t \in free : t <= s}
<1>1. IsFiniteSet(free) /\ below \subseteq free
  BY FS_Subset
<1>2. Cardinality(below) <= Cardinality(free) /\ IsFiniteSet(below)
  BY <1>1, FS_Subset
<1>3. s \in below
  OBVIOUS
<1>4. Cardinality(below) # 0
  BY <1>2, <1>3, FS_EmptySet
<1>5. Cardinality(below) \in Nat /\ Cardinality(free) \in Nat
  BY <1>1, <1>2, FS_CardinalityType
<1> QED
  BY <1>2, <1>4, <1>5 DEF Bots

LEMMA FillListStep ==
    ASSUME LInv, NEW h \in Handlers, FillList(h)
    PROVE  LInv'
<1> DEFINE free == Slots \ Taken
<1>0. /\ UNCHANGED <<row, start, engine, workers>>
      /\ relinquished' \subseteq Slots
  BY DEF FillList, LInv, LTypeOK
<1>1. CASE Done(h)
  BY <1>0, <1>1, GoneStep
<1>2. CASE ~Done(h)
  <2>1. /\ ~(Cardinality(free) > BotCount) /\ At(h, "fillList")
        /\ req' = [req EXCEPT ![h] = [Idle EXCEPT !.at = "fillAdd", !.fill = Filling(free)]]
    BY <1>2 DEF FillList
  <2>2. Cardinality(free) <= BotCount
    <3>1. IsFiniteSet(free)
      BY FS_Subset
    <3> QED
      BY <2>1, <3>1, FS_CardinalityType
  <2>3. Filling(free) \in Partial(Slots, Bots)
    BY <2>2, FillingType
  <2> DEFINE r == [Idle EXCEPT !.at = "fillAdd", !.fill = Filling(free)]
  <2>4. r \in Requests /\ r.at = "fillAdd"
    <3> HIDE DEF free
    <3> QED
      BY <2>3, IdleType DEF Requests, Statements, Launching
  <2> HIDE DEF r
  <2>5. /\ req' \in [Handlers -> Requests] /\ req'[h].at = "fillAdd"
        /\ \A g \in Handlers \ {h} : req'[g] = req[g]
    BY <2>1, <2>4 DEF LInv, LTypeOK, r
  <2>6. Tables' /\ status' = status
    BY <1>0, SameTables DEF LInv
  <2>7. req[h].at \in BeforeActive /\ req'[h].at \in BeforeActive
    BY <2>1, <2>5 DEF At, BeforeActive
  <2> QED
    BY <1>0, <2>5, <2>6, <2>7, TypeFrom, WinnerStep DEF LInv
<1> QED
  BY <1>1, <1>2

LEMMA FillAddStep ==
    ASSUME LInv, NEW h \in Handlers, FillAdd(h)
    PROVE  LInv'
<1> DEFINE fill == req[h].fill
           s == Least(DOMAIN fill)
           rest == [t \in DOMAIN fill \ {s} |-> fill[t]]
<1>1. fill \in Partial(Slots, Bots) /\ DOMAIN fill # {} /\ DOMAIN fill \subseteq Slots
  BY LocalsKnown DEF FillAdd, LInv, Partial
<1>2. s \in DOMAIN fill
  BY <1>1, LeastMember
<1>3. AddPlayer(fill[s], s, TRUE) /\ req' = [req EXCEPT ![h].fill = rest]
  BY DEF FillAdd
<1>4. Tables' /\ status' = status
  <2>1. s \in Slots /\ s \in Places /\ fill[s] \in Bots /\ fill[s] \notin Humans
    <3>1. PICK S \in SUBSET Slots : fill \in [S -> Bots]
      BY <1>1 DEF Partial
    <3>2. DOMAIN fill = S /\ s \in S
      BY <1>2, <3>1
    <3> HIDE DEF s, fill
    <3> QED
      BY <3>1, <3>2 DEF Places
  <2> HIDE DEF s, fill
  <2> QED
    BY <1>3, <2>1, AddPlayerEffect DEF LInv
<1>5. rest \in Partial(Slots, Bots)
  <2>1. PICK S \in SUBSET Slots : fill \in [S -> Bots]
    BY <1>1 DEF Partial
  <2>2. S \ {s} \in SUBSET Slots /\ rest \in [S \ {s} -> Bots]
    BY <2>1
  <2> QED
    BY <2>2 DEF Partial
<1> HIDE DEF rest
<1>6. /\ req' \in [Handlers -> Requests] /\ req'[h].at = req[h].at
      /\ \A g \in Handlers \ {h} : req'[g] = req[g]
  BY <1>3, <1>5 DEF LInv, LTypeOK, Requests
<1>7. req[h].at \in BeforeActive /\ UNCHANGED <<start, engine, workers>>
  BY DEF FillAdd, At, BeforeActive
<1> QED
  BY <1>4, <1>6, <1>7, TypeFrom, WinnerStep DEF LInv

LEMMA CountPlayersStep ==
    ASSUME LInv, NEW h \in Handlers, CountPlayers(h)
    PROVE  LInv'
<1>0. UNCHANGED <<row, start, engine, workers>> /\ relinquished' \subseteq Slots
  BY DEF CountPlayers, LInv, LTypeOK
<1>1. CASE Done(h)
  BY <1>0, <1>1, GoneStep
<1>2. CASE Go(h, "markActive")
  <2>1. "markActive" \in Statements /\ "markActive" \in BeforeActive /\ req[h].at \in BeforeActive
    BY DEF CountPlayers, At, Statements, Launching, BeforeActive
  <2>2. /\ req' \in [Handlers -> Requests] /\ req'[h].at = "markActive"
        /\ \A g \in Handlers \ {h} : req'[g] = req[g]
    BY <1>2, <2>1, GoEffect DEF LInv
  <2>3. Tables' /\ status' = status
    BY <1>0, SameTables DEF LInv
  <2> QED
    BY <1>0, <2>1, <2>2, <2>3, TypeFrom, WinnerStep DEF LInv
<1> QED
  BY <1>1, <1>2 DEF CountPlayers

\* Until the winner makes the row active nobody else moves it.
LEMMA MarkActiveStep ==
    ASSUME LInv, NEW h \in Handlers, MarkActive(h)
    PROVE  LInv' /\ status = "starting" /\ status' = "active" /\ UNCHANGED published
<1>0. UNCHANGED <<start, engine, workers>>
  BY DEF MarkActive
<1>1. req[h].at \in BeforeActive /\ Go(h, "assign")
  BY DEF MarkActive, At, BeforeActive
<1>2. status = "starting"
  BY <1>1 DEF LInv, LauncherInv
<1>3. status' = "active" /\ Tables'
  BY <1>2 DEF MarkActive, LInv, LTypeOK, Tables, Statuses
<1>4. "assign" \in Statements /\ "assign" \in AfterActive
  BY DEF Statements, Launching, AfterActive
<1>5. /\ req' \in [Handlers -> Requests] /\ req'[h].at = "assign"
      /\ \A g \in Handlers \ {h} : req'[g] = req[g]
  BY <1>1, <1>4, GoEffect DEF LInv
<1>6. LTypeOK'
  BY <1>0, <1>3, <1>5, TypeFrom DEF LInv
<1>7. \A g \in Handlers : g # h => req'[g].at \notin Launching /\ LocalsOK(req'[g])
  BY <1>1, <1>5, LaunchPlaces DEF LInv, LauncherInv
<1>8. LocalsOK(req'[h])
  BY <1>4, <1>5, LaunchPlaces DEF LocalsOK
<1>9. ~published /\ host = "none" /\ ~finalMsg
  BY <1>1, LaunchPlaces DEF LInv, LauncherInv
<1> QED
  BY <1>0, <1>2, <1>3, <1>4, <1>5, <1>6, <1>7, <1>8, <1>9, LaunchPlaces
  DEF LInv, LauncherInv, start, engine, Out

LEMMA AssignStep ==
    ASSUME LInv, NEW h \in Handlers, Assign(h)
    PROVE  LInv'
<1>0. UNCHANGED <<row, start, engine, workers>> /\ relinquished' \subseteq Slots
  BY DEF Assign, LInv, LTypeOK
<1>1. PICK roster \in [Taken -> Users] :
         req' = [req EXCEPT ![h].at = "publish", ![h].roster = roster]
  BY DEF Assign
<1>2. Taken \subseteq Places
  BY DEF Taken, Seated, LInv, LTypeOK
<1>3. roster \in Partial(Places, Users) /\ "publish" \in Statements
  BY <1>2 DEF Partial, Statements, Launching
<1>4. /\ req' \in [Handlers -> Requests] /\ req'[h].at = "publish"
      /\ \A g \in Handlers \ {h} : req'[g] = req[g]
  <2> DEFINE r == [req[h] EXCEPT !.at = "publish", !.roster = roster]
  <2>1. r \in Requests /\ r.at = "publish"
    BY <1>3, LocalsKnown DEF LInv, Requests
  <2>2. req' = [req EXCEPT ![h] = r]
    BY <1>1 DEF LInv, LTypeOK
  <2> HIDE DEF r
  <2> QED
    BY <2>1, <2>2 DEF LInv, LTypeOK
<1>5. req[h].at \in AfterActive /\ req'[h].at \in AfterActive
  BY <1>4 DEF Assign, At, AfterActive
<1>6. Tables' /\ status' = status
  BY <1>0, SameTables DEF LInv
<1> QED
  BY <1>0, <1>4, <1>5, <1>6, TypeFrom, WinnerStep DEF LInv

LEMMA PublishStartStep ==
    ASSUME LInv, NEW h \in Handlers, PublishStart(h)
    PROVE  LInv' /\ status \in Out /\ ~published /\ published' = TRUE /\ status' = status
<1>1. req[h].at \in AfterActive /\ Done(h) /\ UNCHANGED <<row, engine, workers>>
  BY DEF PublishStart, At, AfterActive
<1>2. status \in Out /\ ~published
  BY <1>1, LaunchPlaces DEF LInv, LauncherInv
<1>3. /\ req' \in [Handlers -> Requests] /\ req'[h].at = "idle"
      /\ \A g \in Handlers \ {h} : req'[g] = req[g]
  BY <1>1, DoneEffect DEF LInv
<1>4. published' = TRUE /\ assigned' \in Partial(Places, Users) /\ relinquished' = relinquished
  BY LocalsKnown DEF PublishStart, LInv
<1>5. LTypeOK'
  BY <1>1, <1>3, <1>4 DEF LInv, LTypeOK, row, engine, workers
<1>6. \A g \in Handlers : req'[g].at \notin Launching /\ LocalsOK(req'[g])
  <2>1. "idle" \notin Launching \cup Seating \cup Checked \cup Asking
    BY DEF Launching, Seating, Checked, Asking
  <2>2. \A g \in Handlers : g # h => req[g].at \notin Launching
    BY <1>1, LaunchPlaces DEF LInv, LauncherInv
  <2> QED
    BY <1>3, <2>1, <2>2 DEF LInv, LauncherInv, LocalsOK
<1>7. status' = status
  BY <1>1 DEF row
<1> QED
  BY <1>1, <1>2, <1>4, <1>5, <1>6, <1>7, LaunchPlaces DEF LInv, LauncherInv, engine

LEMMA AbortStep ==
    ASSUME LInv, NEW h \in Handlers, Abort(h)
    PROVE  LInv'
BY GoneStep DEF Abort, LInv, LTypeOK

LEMMA StatementStep ==
    ASSUME LInv, NEW h \in Handlers, Statement(h)
    PROVE  LInv'
BY SeatingStep, JoinListStep, RemoveStep, PatchListStep, HandoffStep, MarkStartingStep,
   FillListStep, FillAddStep, CountPlayersStep, MarkActiveStep, AssignStep, PublishStartStep
DEF Statement

EngineStep == Host \/ Victory \/ EndHosted

\* The engine acts only on a published start.
LEMMA EngineStepLemma ==
    ASSUME LInv, EngineStep
    PROVE  LInv' /\ status' = status /\ UNCHANGED published
<1>1. req' = req /\ UNCHANGED published /\ status' = status
  BY DEF EngineStep, Host, Victory, EndHosted, row, start
<1>2. host' # "none" \/ finalMsg' => published
  BY DEF EngineStep, Host, Victory, EndHosted, LInv, LauncherInv
<1>3. LTypeOK'
  BY DEF EngineStep, Host, Victory, EndHosted, LInv, LTypeOK, row, start, workers
<1> QED
  BY <1>1, <1>2, <1>3, OthersStep DEF LInv

\* The scans, pings and time leave the status alone or abandon a running match.
WorkerStep ==
    \/ \E s \in Slots : TouchPresence(s)
    \/ \E u \in Humans : Quieten(u)
    \/ TakeoverScan \/ TakeoverFlip
    \/ AbandonList \/ AbandonCheck \/ MarkAbandoned \/ PublishEndMatch
    \/ FinalState \/ WorkerRestart

LEMMA WorkerTypes == ASSUME LInv, WorkerStep PROVE LTypeOK'
<1>1. ASSUME NEW s \in Slots, TouchPresence(s) PROVE LTypeOK'
  BY <1>1 DEF TouchPresence, LInv, LTypeOK, start, engine, workers
<1>2. ASSUME NEW u \in Humans, Quieten(u) PROVE LTypeOK'
  <2>1. seat[u] \in Slots
    BY <1>2 DEF Quieten, LInv, LTypeOK
  <2>2. seen' \in [Humans -> {"never", "fresh", "quiet", "gone"}]
    BY <1>2 DEF Quieten, LInv, LTypeOK
  <2>3. relinquished' \subseteq Slots
    BY <1>2, <2>1 DEF Quieten, LInv, LTypeOK
  <2> QED
    BY <1>2, <2>2, <2>3 DEF Quieten, LInv, LTypeOK, start, engine, workers
<1>3. ASSUME TakeoverScan PROVE LTypeOK'
  <2>1. SlotsNeedingTakeover \subseteq Slots
    BY DEF SlotsNeedingTakeover, LInv, LTypeOK, Users
  <2> QED
    BY <1>3, <2>1 DEF TakeoverScan, LInv, LTypeOK, row, start, engine
<1>4. ASSUME TakeoverFlip PROVE LTypeOK'
  <2>1. Tables'
    BY <1>4, MarkControlledByAIEffect DEF TakeoverFlip, LInv
  <2> QED
    BY <1>4, <2>1 DEF TakeoverFlip, LInv, LTypeOK, Tables, start, engine
<1>5. ASSUME AbandonList \/ AbandonCheck \/ MarkAbandoned \/ PublishEndMatch PROVE LTypeOK'
  BY <1>5 DEF AbandonList, AbandonCheck, MarkAbandoned, PublishEndMatch, LInv, LTypeOK,
     Statuses, row, start, engine
<1>6. ASSUME FinalState \/ WorkerRestart PROVE LTypeOK'
  BY <1>6 DEF FinalState, WorkerRestart, LInv, LTypeOK, Statuses, row, start, workers
<1> QED
  BY <1>1, <1>2, <1>3, <1>4, <1>5, <1>6 DEF WorkerStep

LEMMA WorkerStepLemma ==
    ASSUME LInv, WorkerStep
    PROVE  /\ LInv' /\ UNCHANGED published
           /\ \/ status' = status
              \/ status = "active" /\ status' \in Out
              \/ status \in Out \ {"active"} /\ status' = "ended"
<1>1. req' = req /\ UNCHANGED published
  BY DEF WorkerStep, TouchPresence, Quieten, TakeoverScan, TakeoverFlip, AbandonList,
     AbandonCheck, MarkAbandoned, PublishEndMatch, FinalState, WorkerRestart, start
<1>2. host' # "none" \/ finalMsg' => published
  BY DEF WorkerStep, TouchPresence, Quieten, TakeoverScan, TakeoverFlip, AbandonList,
     AbandonCheck, MarkAbandoned, PublishEndMatch, FinalState, WorkerRestart, engine,
     LInv, LauncherInv
<1>3. CASE FinalState
  <2>1. status \in Out /\ status' = "ended"
    BY <1>3 DEF FinalState, LInv, LauncherInv
  <2> QED
    BY <1>1, <1>2, <2>1, WorkerTypes, OthersStep DEF LInv, Out
<1>4. CASE MarkAbandoned
  <2>1. status' = status \/ (status = "active" /\ status' = "abandoned")
    BY <1>4 DEF MarkAbandoned
  <2> QED
    BY <1>1, <1>2, <2>1, WorkerTypes, OthersStep DEF LInv, Out
<1>5. CASE ~FinalState /\ ~MarkAbandoned
  <2>1. status' = status
    BY <1>5 DEF WorkerStep, TouchPresence, Quieten, TakeoverScan, TakeoverFlip, AbandonList,
       AbandonCheck, PublishEndMatch, WorkerRestart, row, MarkControlledByAI
  <2> QED
    BY <1>1, <1>2, <2>1, WorkerTypes, OthersStep DEF LInv
<1> QED
  BY <1>3, <1>4, <1>5

LEMMA LInitInv == LInit => LInv
<1> SUFFICES ASSUME LInit PROVE LInv
  OBVIOUS
<1>1. req \in [Handlers -> Requests] /\ assigned \in Partial(Places, Users)
  BY IdleType, EmptyType DEF LInit
<1>2. LTypeOK
  BY <1>1 DEF LInit, LTypeOK, Statuses, Users
<1>3. \A h \in Handlers : req[h].at = "idle"
  BY DEF LInit, Idle
<1>4. LauncherInv
  BY <1>3 DEF LInit, LauncherInv, Launching, BeforeActive, AfterActive, LocalsOK, Seating,
     Checked, Asking
<1> QED
  BY <1>2, <1>4 DEF LInv

LEMMA LNextInv == LInv /\ [LNext]_lobbyVars => LInv'
<1> SUFFICES ASSUME LInv, [LNext]_lobbyVars PROVE LInv'
  OBVIOUS
<1>1. CASE UNCHANGED lobbyVars
  BY <1>1 DEF lobbyVars, row, start, engine, workers, LInv, LTypeOK, LauncherInv, LocalsOK
<1>2. CASE LNext
  <2>1. EngineStep \/ WorkerStep \/ \E h \in Handlers : Request(h) \/ Statement(h) \/ Abort(h)
    BY <1>2 DEF LNext, EngineStep, WorkerStep
  <2> QED
    BY <2>1, RequestStep, StatementStep, AbortStep, EngineStepLemma, WorkerStepLemma
<1> QED
  BY <1>1, <1>2

\* LInv holds in every reachable state.
THEOREM LSpecInv == LSpec => []LInv
BY LInitInv, LNextInv, PTL DEF LSpec

\* lobbysvc and worker: every row, request and message keeps its type, though
\* the creator may seat a bot in a slot that is not on the map (lifecycle.go:108);
\* no human ever sits there, the scans and handoffs name slots of the map only,
\* and fillBots never asks for an account past the ones it counted.
THEOREM LSpecTypeOK == LSpec => []LTypeOK
<1>1. LInv => LTypeOK
  BY DEF LInv
<1> QED
  BY <1>1, LSpecInv, PTL

\* lifecycle.go:219-255: of all the starts that race on a match, one publishes.
THEOREM StartAnnouncedOnceHolds == LSpec => []StartAnnouncedOnce
<1>1. LInv => StartAnnouncedOnce
  BY DEF LInv, LauncherInv, StartAnnouncedOnce
<1> QED
  BY <1>1, LSpecInv, PTL

\* What a step can do to the status and the start message.
StepKinds ==
    \/ UNCHANGED <<status, published>>
    \/ status = "none" /\ status' = "waiting" /\ UNCHANGED published
    \/ status = "waiting" /\ status' = "starting" /\ UNCHANGED published
    \/ status = "starting" /\ status' = "active" /\ UNCHANGED published
    \/ status \in Out /\ UNCHANGED status /\ ~published /\ published' = TRUE
    \/ status = "active" /\ status' \in Out /\ UNCHANGED published
    \/ status \in Out \ {"active"} /\ status' = "ended" /\ UNCHANGED published

LEMMA HandlerKinds ==
    ASSUME LInv, NEW h \in Handlers, Request(h) \/ Statement(h) \/ Abort(h)
    PROVE  StepKinds
<1>1. CASE Request(h) \/ Abort(h)
  BY <1>1 DEF Request, PatchGet, Create, LeaveGet, HandoffAsk, JoinGet, KickGet, StartGet,
     Abort, row, start, StepKinds
<1>2. CASE MarkStarting(h)
  BY <1>2 DEF MarkStarting, start, StepKinds
<1>3. CASE MarkActive(h)
  BY <1>3, MarkActiveStep DEF StepKinds
<1>4. CASE PublishStart(h)
  BY <1>4, PublishStartStep DEF StepKinds
<1>5. CASE SeatCreator(h) \/ JoinAdd(h) \/ PatchAdd(h) \/ FillAdd(h)
  BY <1>5 DEF SeatCreator, JoinAdd, PatchAdd, FillAdd, AddPlayer, start, StepKinds
<1>6. CASE RemovePlayer(h) \/ HandoffMark(h)
  BY <1>6 DEF RemovePlayer, RemoveRow, HandoffMark, MarkControlledByAI, start, StepKinds
<1>7. CASE JoinList(h) \/ PatchList(h) \/ HandoffGet(h) \/ HandoffList(h)
  BY <1>7 DEF JoinList, PatchList, HandoffGet, HandoffList, row, start, StepKinds
<1>8. CASE FillList(h) \/ CountPlayers(h) \/ Assign(h)
  BY <1>8 DEF FillList, CountPlayers, Assign, row, start, StepKinds
<1> QED
  BY <1>1, <1>2, <1>3, <1>4, <1>5, <1>6, <1>7, <1>8 DEF Statement

LEMMA AllKinds == LInv /\ [LNext]_lobbyVars => StepKinds
<1> SUFFICES ASSUME LInv, [LNext]_lobbyVars PROVE StepKinds
  OBVIOUS
<1>1. CASE UNCHANGED lobbyVars
  BY <1>1 DEF lobbyVars, row, start, StepKinds
<1>2. CASE LNext
  <2>1. EngineStep \/ WorkerStep \/ \E h \in Handlers : Request(h) \/ Statement(h) \/ Abort(h)
    BY <1>2 DEF LNext, EngineStep, WorkerStep
  <2>2. CASE EngineStep
    BY <2>2, EngineStepLemma DEF StepKinds
  <2>3. CASE WorkerStep
    BY <2>3, WorkerStepLemma DEF StepKinds
  <2> QED
    BY <2>1, <2>2, <2>3, HandlerKinds
<1> QED
  BY <1>1, <1>2

LEMMA LifeStep ==
    ASSUME LInv, LInv', StepKinds
    PROVE  [Life!LifeNext]_(Life!lifeVars)
<1>1. status \in Statuses /\ status' \in Statuses
  BY DEF LInv, LTypeOK
<1>2. CASE UNCHANGED <<status, published>>
  BY <1>2 DEF Life!lifeVars
<1>3. CASE status = "none" /\ status' = "waiting" /\ UNCHANGED published
  BY <1>3 DEF Life!lifeVars
<1>4. CASE status = "waiting" /\ status' = "starting" /\ UNCHANGED published
  BY <1>4 DEF Life!LifeNext, Life!Claim
<1>5. CASE status = "starting" /\ status' = "active" /\ UNCHANGED published
  BY <1>5 DEF Life!LifeNext, Life!Launch
<1>6. CASE status \in Out /\ UNCHANGED status /\ ~published /\ published' = TRUE
  BY <1>6 DEF Life!LifeNext, Life!Announce, Out
<1>7. CASE status = "active" /\ status' \in Out /\ UNCHANGED published
  BY <1>7 DEF Life!LifeNext, Life!Finish, Life!lifeVars, Out
<1>8. CASE status \in Out \ {"active"} /\ status' = "ended" /\ UNCHANGED published
  BY <1>8 DEF Life!lifeVars, Out
<1> QED
  BY <1>2, <1>3, <1>4, <1>5, <1>6, <1>7, <1>8 DEF StepKinds

\* lobbysvc, pgrepo and worker together: a row is claimed, launched and
\* finished once, and its start is announced once, after it became active.
THEOREM LifeImplementedHolds == LSpec => LifeImplemented
<1>1. LInit => Life!LifeInit
  BY DEF LInit, Life!LifeInit
<1>2. LInv /\ LInv' /\ [LNext]_lobbyVars => [Life!LifeNext]_(Life!lifeVars)
  BY AllKinds, LifeStep
<1> QED
  BY <1>1, <1>2, LSpecInv, PTL DEF LSpec, LifeImplemented, Life!LifeSpec

------------------------------------------------------------------------------
\* Whose slot a bot may have: what a scan listed and what a handoff is about to
\* mark was relinquished when it was read, and stays so however the rows moved
\* since; who is silent too long relinquishes every slot it sits in.
SilentGiveUp ==
    \A u \in Humans : seat[u] # NoSlot /\ (ai[u] \/ seen[u] = "gone") => seat[u] \in relinquished

MarksAreDue == \A h \in Handlers : At(h, "handoffMark") => req[h].slot \in relinquished

GivenUp == SilentGiveUp /\ MarksAreDue /\ due \subseteq relinquished

LEMMA AddPlayerGives ==
    ASSUME LInv, GivenUp, NEW u, NEW s \in Places, NEW c \in BOOLEAN, AddPlayer(u, s, c),
           c => u \notin Humans
    PROVE  SilentGiveUp' /\ relinquished \subseteq relinquished'
<1>1. relinquished \subseteq relinquished'
  BY DEF AddPlayer
<1>2. ASSUME NEW v \in Humans, seat'[v] # NoSlot, ai'[v] \/ seen'[v] = "gone"
      PROVE  seat'[v] \in relinquished'
  <2>1. v \in Users /\ seat \in [Users -> Places \cup {NoSlot}] /\ ai \in [Users -> BOOLEAN]
    BY DEF LInv, LTypeOK, Users
  <2>2. CASE v = u
    <3>1. seat'[v] = s /\ ai'[v] = FALSE /\ seen'[v] = seen[v]
      BY <2>1, <2>2 DEF AddPlayer
    <3> QED
      BY <1>2, <2>2, <3>1 DEF AddPlayer
  <2>3. CASE v # u
    <3>1. seat'[v] = seat[v] /\ ai'[v] = ai[v] /\ seen'[v] = seen[v]
      BY <2>1, <2>3 DEF AddPlayer
    <3> QED
      BY <1>1, <1>2, <3>1 DEF GivenUp, SilentGiveUp
  <2> QED
    BY <2>2, <2>3
<1> QED
  BY <1>1, <1>2 DEF SilentGiveUp

LEMMA RemoveRowGives ==
    ASSUME LInv, GivenUp, NEW u, RemoveRow(u), UNCHANGED relinquished
    PROVE  SilentGiveUp'
<1> SUFFICES ASSUME NEW v \in Humans, seat'[v] # NoSlot, ai'[v] \/ seen'[v] = "gone"
             PROVE  seat'[v] \in relinquished'
  BY DEF SilentGiveUp
<1>1. v \in Users /\ seat \in [Users -> Places \cup {NoSlot}] /\ ai \in [Users -> BOOLEAN]
  BY DEF LInv, LTypeOK, Users
<1>2. v # u
  BY <1>1 DEF RemoveRow
<1>3. seat'[v] = seat[v] /\ ai'[v] = ai[v] /\ seen'[v] = seen[v]
  BY <1>1, <1>2 DEF RemoveRow
<1> QED
  BY <1>3 DEF GivenUp, SilentGiveUp

LEMMA MarkGives ==
    ASSUME LInv, GivenUp, NEW s \in relinquished, MarkControlledByAI(s), UNCHANGED relinquished
    PROVE  SilentGiveUp'
BY DEF LInv, LTypeOK, Users, GivenUp, SilentGiveUp, MarkControlledByAI

LEMMA SameRowsGive ==
    ASSUME GivenUp, UNCHANGED row, relinquished \subseteq relinquished'
    PROVE  SilentGiveUp'
BY DEF GivenUp, SilentGiveUp, row

\* One handler moves, to a place where it is not about to mark a slot.
LEMMA MovesOn ==
    ASSUME GivenUp, SilentGiveUp', NEW h \in Handlers,
           req'[h].at # "handoffMark",
           \A g \in Handlers \ {h} : req'[g] = req[g],
           UNCHANGED workers, relinquished \subseteq relinquished'
    PROVE  GivenUp'
BY DEF GivenUp, MarksAreDue, At, workers

\* A handler that begins, goes on or returns, and where it may not be then.
LEMMA Reaches ==
    ASSUME LInv, NEW h \in Handlers, NEW at \in Statements \ {"handoffMark"},
           \/ Done(h) \/ Go(h, at)
           \/ \E u \in Users \cup {NoUser}, s \in Places \cup {NoSlot} : Begin(h, at, u, s)
    PROVE  /\ req'[h].at # "handoffMark"
           /\ \A g \in Handlers \ {h} : req'[g] = req[g]
BY DoneEffect, GoEffect, BeginEffect DEF LInv

LEMMA RequestGives ==
    ASSUME LInv, GivenUp, NEW h \in Handlers, Request(h)
    PROVE  GivenUp'
<1> DEFINE First == {"seatCreator", "seatCreatorAndStart", "joinList", "remove", "handoffGet",
                     "handoffList", "patchList", "markStarting"}
<1>1. First \subseteq Statements \ {"handoffMark"}
  BY DEF Statements, Launching
<1>2. \E at \in First, u \in Users \cup {NoUser}, s \in Places \cup {NoSlot} : Begin(h, at, u, s)
  BY DEF Request, PatchGet, Create, LeaveGet, HandoffAsk, JoinGet, KickGet, StartGet, Users, Places
<1>3. UNCHANGED <<seat, ai, seen, workers, relinquished>>
  BY DEF Request, PatchGet, Create, LeaveGet, HandoffAsk, JoinGet, KickGet, StartGet, row
<1>4. SilentGiveUp'
  BY <1>3 DEF GivenUp, SilentGiveUp
<1> HIDE DEF First
<1> QED
  BY <1>1, <1>2, <1>3, <1>4, Reaches, MovesOn

\* The statements that seat somebody: a bot sits down for a human nowhere.
LEMMA SeatingGives ==
    ASSUME LInv, GivenUp, NEW h \in Handlers, SeatCreator(h) \/ JoinAdd(h) \/ PatchAdd(h)
    PROVE  GivenUp'
<1>1. req[h].slot \in Places
  BY SlotKnown DEF SeatCreator, JoinAdd, PatchAdd, At, Seating
<1>2. SilentGiveUp' /\ relinquished \subseteq relinquished'
  <2>1. PatchAdd(h) => 1 \notin Humans
    BY SlotKnown DEF PatchAdd, At, Seating
  <2> QED
    BY <1>1, <2>1, AddPlayerGives DEF SeatCreator, JoinAdd, PatchAdd
<1>3. UNCHANGED workers
  BY DEF SeatCreator, JoinAdd, PatchAdd
<1>4. Done(h) \/ Go(h, "markStarting")
  BY DEF SeatCreator, JoinAdd, PatchAdd
<1>5. "markStarting" \in Statements \ {"handoffMark"}
  BY DEF Statements
<1> QED
  BY <1>2, <1>3, <1>4, <1>5, Reaches, MovesOn

LEMMA FillAddGives ==
    ASSUME LInv, GivenUp, NEW h \in Handlers, FillAdd(h)
    PROVE  GivenUp'
<1> DEFINE fill == req[h].fill
           s == Least(DOMAIN fill)
<1>1. fill \in Partial(Slots, Bots) /\ DOMAIN fill # {}
  BY LocalsKnown DEF FillAdd, LInv
<1>2. PICK S \in SUBSET Slots : fill \in [S -> Bots]
  BY <1>1 DEF Partial
<1>3. s \in DOMAIN fill /\ DOMAIN fill \subseteq Slots /\ fill[s] \in Bots
  <2>1. DOMAIN fill = S
    BY <1>2
  <2>2. s \in S
    BY <1>1, <2>1, LeastMember
  <2> HIDE DEF fill, s
  <2> QED
    BY <1>2, <2>1, <2>2
<1>4. AddPlayer(fill[s], s, TRUE) /\ UNCHANGED workers
  BY DEF FillAdd
<1>5. SilentGiveUp' /\ relinquished \subseteq relinquished'
  <2>1. s \in Places /\ fill[s] \notin Humans
    BY <1>3 DEF Places
  <2> HIDE DEF fill, s
  <2> QED
    BY <1>4, <2>1, AddPlayerGives
<1>6. req'[h].at = "fillAdd" /\ \A g \in Handlers \ {h} : req'[g] = req[g]
  BY DEF FillAdd, LInv, LTypeOK, Requests, At
<1> QED
  BY <1>4, <1>5, <1>6, MovesOn

\* The slot a handoff will mark is relinquished as it is read.
LEMMA HandoffGives ==
    ASSUME LInv, GivenUp, NEW h \in Handlers, HandoffList(h) \/ HandoffMark(h)
    PROVE  GivenUp'
<1>1. CASE HandoffMark(h)
  <2>1. SilentGiveUp'
    BY <1>1, MarkGives DEF HandoffMark, GivenUp, MarksAreDue
  <2>2. "idle" \in Statements \ {"handoffMark"}
    BY DEF Statements
  <2> QED
    BY <1>1, <2>1, <2>2, Reaches, MovesOn DEF HandoffMark
<1>2. CASE HandoffList(h)
  <2> DEFINE u == req[h].user
  <2>1. relinquished \subseteq relinquished' /\ UNCHANGED <<row, workers>>
    BY <1>2 DEF HandoffList
  <2>2. SilentGiveUp'
    BY <2>1, SameRowsGive
  <2>3. CASE seat[u] = NoSlot
    <3>1. Done(h)
      BY <1>2, <2>3 DEF HandoffList
    <3>2. "idle" \in Statements \ {"handoffMark"}
      BY DEF Statements
    <3> QED
      BY <2>1, <2>2, <3>1, <3>2, Reaches, MovesOn
  <2>4. CASE seat[u] # NoSlot
    <3>1. u \in Users /\ seat[u] \in Places /\ "handoffMark" \in Statements
      BY <1>2, <2>4 DEF HandoffList, At, LInv, LTypeOK, LauncherInv, LocalsOK, Asking, Statements,
         Users
    <3>2. req' = [req EXCEPT ![h] = Locals("handoffMark", u, seat[u])]
          /\ seat[u] \in relinquished'
      BY <1>2, <2>4 DEF HandoffList
    <3>3. /\ Locals("handoffMark", u, seat[u]).at = "handoffMark"
          /\ Locals("handoffMark", u, seat[u]).slot = seat[u]
      BY <3>1, LocalsType
    <3>4. req'[h].at = "handoffMark" /\ req'[h].slot \in relinquished'
          /\ \A g \in Handlers \ {h} : req'[g] = req[g]
      BY <3>2, <3>3 DEF LInv, LTypeOK
    <3> QED
      BY <2>1, <2>2, <3>4 DEF GivenUp, MarksAreDue, At, workers
  <2> QED
    BY <2>3, <2>4
<1> QED
  BY <1>1, <1>2

\* The statements that read, or that write the status only.
LEMMA ReadingGives ==
    ASSUME LInv, GivenUp, NEW h \in Handlers,
           \/ JoinList(h) \/ PatchList(h) \/ HandoffGet(h) \/ MarkStarting(h) \/ FillList(h)
           \/ CountPlayers(h) \/ MarkActive(h) \/ Assign(h) \/ PublishStart(h) \/ Abort(h)
    PROVE  GivenUp'
<1>1. UNCHANGED <<seat, ai, seen, workers, relinquished>>
  BY DEF JoinList, PatchList, HandoffGet, MarkStarting, FillList, CountPlayers, MarkActive,
     Assign, PublishStart, Abort, row
<1>2. SilentGiveUp'
  BY <1>1 DEF GivenUp, SilentGiveUp
<1>3. req'[h].at # "handoffMark" /\ \A g \in Handlers \ {h} : req'[g] = req[g]
  <2>1. CASE JoinList(h) /\ ~Done(h)
    <3>1. PICK s \in Slots :
             req' = [req EXCEPT ![h] = Locals("joinAdd", req[h].user, s)]
      BY <2>1 DEF JoinList
    <3>2. Locals("joinAdd", req[h].user, s).at = "joinAdd"
      BY DEF Locals, Idle
    <3> QED
      BY <3>1, <3>2 DEF LInv, LTypeOK
  <2>2. CASE FillList(h) /\ ~Done(h)
    <3>1. PICK f : req' = [req EXCEPT ![h] = [Idle EXCEPT !.at = "fillAdd", !.fill = f]]
      BY <2>2 DEF FillList
    <3>2. [Idle EXCEPT !.at = "fillAdd", !.fill = f].at = "fillAdd"
      BY DEF Idle
    <3> QED
      BY <3>1, <3>2 DEF LInv, LTypeOK
  <2>3. CASE Assign(h)
    <3>1. PICK roster \in [Taken -> Users] :
             req' = [req EXCEPT ![h].at = "publish", ![h].roster = roster]
      BY <2>3 DEF Assign
    <3>2. req'[h] = [req[h] EXCEPT !.at = "publish", !.roster = roster]
          /\ \A g \in Handlers \ {h} : req'[g] = req[g]
      BY <3>1 DEF LInv, LTypeOK
    <3>3. req'[h].at = "publish"
      BY <3>2, LocalsKnown DEF LInv, Requests
    <3> QED
      BY <3>2, <3>3
  <2>4. CASE ~(JoinList(h) \/ FillList(h) \/ Assign(h)) \/ Done(h)
    <3> DEFINE Then == {"patchAdd", "handoffList", "fillList", "markActive", "assign"}
    <3>1. Then \subseteq Statements \ {"handoffMark"}
      BY DEF Statements, Launching
    <3>2. Done(h) \/ \E at \in Then : Go(h, at)
      BY <2>4 DEF PatchList, HandoffGet, MarkStarting, CountPlayers, MarkActive, PublishStart, Abort
    <3> HIDE DEF Then
    <3>3. PICK at \in Statements \ {"handoffMark"} : Done(h) \/ Go(h, at)
      <4>1. "idle" \in Statements \ {"handoffMark"}
        BY DEF Statements
      <4> QED
        BY <3>1, <3>2, <4>1
    <3> QED
      BY <3>3, Reaches
  <2> QED
    BY <2>1, <2>2, <2>3, <2>4
<1> QED
  BY <1>1, <1>2, <1>3, MovesOn

LEMMA StatementGives ==
    ASSUME LInv, GivenUp, NEW h \in Handlers, Statement(h) \/ Abort(h)
    PROVE  GivenUp'
<1>1. ASSUME RemovePlayer(h) PROVE GivenUp'
  <2>1. SilentGiveUp'
    BY <1>1, RemoveRowGives DEF RemovePlayer
  <2>2. "idle" \in Statements \ {"handoffMark"}
    BY DEF Statements
  <2> QED
    BY <1>1, <2>1, <2>2, Reaches, MovesOn DEF RemovePlayer
<1> QED
  BY <1>1, SeatingGives, FillAddGives, HandoffGives, ReadingGives DEF Statement

LEMMA OthersGive ==
    ASSUME LInv, GivenUp, EngineStep \/ WorkerStep
    PROVE  GivenUp'
<1>1. req' = req
  BY DEF EngineStep, Host, Victory, EndHosted, WorkerStep, TouchPresence, Quieten, TakeoverScan,
     TakeoverFlip, AbandonList, AbandonCheck, MarkAbandoned, PublishEndMatch, FinalState, WorkerRestart
<1>2. ASSUME SilentGiveUp', relinquished \subseteq relinquished', due' \subseteq relinquished'
      PROVE  GivenUp'
  BY <1>1, <1>2 DEF GivenUp, MarksAreDue, At
<1>3. ASSUME NEW s \in Slots, TouchPresence(s) PROVE GivenUp'
  <2>1. /\ UNCHANGED <<seat, ai, due, relinquished>>
        /\ \A u \in Humans : seen'[u] = "gone" => seen[u] = "gone"
    BY <1>3 DEF TouchPresence, workers
  <2> QED
    BY <1>2, <2>1 DEF GivenUp, SilentGiveUp
<1>4. ASSUME NEW u \in Humans, Quieten(u) PROVE GivenUp'
  <2>1. /\ UNCHANGED <<seat, ai, due>> /\ relinquished \subseteq relinquished'
        /\ \A v \in Humans : v # u => seen'[v] = seen[v]
        /\ seen[u] \in {"fresh", "quiet"} /\ seen'[u] = IF seen[u] = "fresh" THEN "quiet" ELSE "gone"
        /\ seen[u] = "quiet" => seat[u] \in relinquished'
    BY <1>4 DEF Quieten, workers, LInv, LTypeOK
  <2>2. SilentGiveUp'
    BY <2>1 DEF GivenUp, SilentGiveUp
  <2> QED
    BY <1>2, <2>1, <2>2 DEF GivenUp
<1>5. ASSUME TakeoverScan PROVE GivenUp'
  <2>1. SlotsNeedingTakeover \subseteq relinquished
    BY DEF SlotsNeedingTakeover, GivenUp, SilentGiveUp
  <2> QED
    BY <1>2, <1>5, <2>1, SameRowsGive DEF TakeoverScan
<1>6. ASSUME TakeoverFlip PROVE GivenUp'
  <2>1. Least(due) \in relinquished
    BY <1>6, LeastMember DEF TakeoverFlip, GivenUp, LInv, LTypeOK
  <2>2. SilentGiveUp'
    BY <1>6, <2>1, MarkGives DEF TakeoverFlip
  <2> QED
    BY <1>2, <1>6, <2>2 DEF TakeoverFlip, GivenUp
<1>7. ASSUME EngineStep \/ AbandonList \/ AbandonCheck \/ MarkAbandoned \/ PublishEndMatch
                \/ FinalState \/ WorkerRestart
      PROVE  GivenUp'
  <2>1. UNCHANGED <<seat, ai, seen, relinquished>> /\ (due' = due \/ due' = {})
    BY <1>7 DEF EngineStep, Host, Victory, EndHosted, AbandonList, AbandonCheck, MarkAbandoned,
       PublishEndMatch, FinalState, WorkerRestart, row, workers
  <2>2. SilentGiveUp'
    BY <2>1 DEF GivenUp, SilentGiveUp
  <2> QED
    BY <1>2, <2>1, <2>2 DEF GivenUp
<1> QED
  BY <1>3, <1>4, <1>5, <1>6, <1>7 DEF WorkerStep

\* Whatever the handlers read long ago, a bot never plays for a human in a slot
\* nobody relinquished: markControlledByAI is keyed by slot, and the slots it
\* is given were handed off or silent when they were read.
THEOREM TakenOverWasRelinquishedHolds == LSpec => []TakenOverWasRelinquished
<1>1. LInit => GivenUp
  <2> SUFFICES ASSUME LInit PROVE GivenUp
    OBVIOUS
  <2>1. \A h \in Handlers : req[h].at = "idle"
    BY DEF LInit, Idle
  <2>2. SilentGiveUp
    BY DEF LInit, SilentGiveUp, Users
  <2> QED
    BY <2>1, <2>2 DEF LInit, GivenUp, MarksAreDue, At
<1>2. LInv /\ GivenUp /\ [LNext]_lobbyVars => GivenUp'
  <2> SUFFICES ASSUME LInv, GivenUp, [LNext]_lobbyVars PROVE GivenUp'
    OBVIOUS
  <2>1. CASE UNCHANGED lobbyVars
    BY <2>1 DEF lobbyVars, row, workers, GivenUp, SilentGiveUp, MarksAreDue, At
  <2>2. ASSUME NEW h \in Handlers, Request(h) \/ Statement(h) \/ Abort(h) PROVE GivenUp'
    BY <2>2, RequestGives, StatementGives
  <2>3. ASSUME EngineStep \/ WorkerStep PROVE GivenUp'
    BY <2>3, OthersGive
  <2> QED
    BY <2>1, <2>2, <2>3 DEF LNext, EngineStep, WorkerStep
<1>3. GivenUp => TakenOverWasRelinquished
  BY DEF GivenUp, SilentGiveUp, TakenOverWasRelinquished
<1> QED
  BY <1>1, <1>2, <1>3, LSpecInv, PTL DEF LSpec

================================================================================

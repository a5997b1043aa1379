------------------------------- MODULE Notify -------------------------------
(***************************************************************************)
(* Notifications of one match (internal/worker/notify.go,                  *)
(* notify_templates.go, mailer.go; service/notifysvc; pgrepo): public      *)
(* events become rows for the users they concern, and a dispatch loop      *)
(* mails the rows.  Both run in the worker, which may die between any two  *)
(* steps; an event that comes while it is down is lost.                    *)
(***************************************************************************)
EXTENDS Seats, Sequences, SequencesExt

CONSTANTS
    Sitting,       \* slot -> the user of its player row, if it has one
    Bots,          \* those of the pool; a relay may refuse their addresses for ever
    BatchSize,     \* NOTIFY_BATCH_SIZE
    MaxRows, MaxDeaths,   \* bounds: rows, deaths of the worker
    NoRoster

Seated == DOMAIN Sitting
Members == {Sitting[s] : s \in Seated}

ASSUME NotifyAssumption ==
    /\ Seated \subseteq Slots /\ Bots \subseteq Members
    /\ BatchSize \in Nat \ {0} /\ MaxRows \in Nat /\ MaxDeaths \in Nat

VARIABLES
    players,   \* slot -> "human" or "computer", in the database (alive is never cleared)
    ended,     \* match_ended was published
    roster,    \* w.cache: the players as last read, or NoRoster
    job,       \* the inserts the event being handled still calls for
    rows,      \* the notifications, the oldest first
    batch,     \* what the pass of the dispatch loop has still to mail
    deaths

notifyVars == <<players, ended, roster, job, rows, batch, deaths>>

NInit ==
    /\ players = [s \in Seated |-> IF Sitting[s] \in Bots THEN "computer" ELSE "human"]
    /\ ended = FALSE /\ roster = NoRoster /\ job = {}
    /\ rows = <<>> /\ batch = <<>> /\ deaths = 0

------------------------------------------------------------------------------
Published(kind, extra) == [kind |-> kind, extra |-> extra]
Captured(prev) == Published("province_captured", [previous_owner |-> prev])

\* The events with the users and slots their Extra carries, under the keys the
\* engine and the presence worker write.
Events ==
    {Captured(s) : s \in Slots \cup {NoSlot}}
    \cup {Published("combat_damage", <<>>)}
    \cup {Published(kind, [from_slot |-> s, target_slot |-> t]) :
             kind \in {"peace_proposed", "alliance_proposed"}, s, t \in Slots}
    \cup {Published("match_ended", <<>>)}
    \cup {Published("bot_takeover", [slot |-> s, prev_user_id |-> Sitting[s]]) :
             s \in {t \in Seated : Sitting[t] \notin Bots}}

\* A key that is missing reads as the empty string.
Extra(ev, key) == IF key \in DOMAIN ev.extra THEN ev.extra[key] ELSE NoSlot

\* The templates that address a slot, with the key they take it from.
AddressKey ==
    [province_captured |-> "prev_owner", combat_damage |-> "defender", treaty_proposed |-> "to"]

\* userIDsForSlots: whoever is replaced by a bot is not told.
UserIDsForSlot(known, slot) == {Sitting[s] : s \in {t \in Seated : t = slot /\ known[t] = "human"}}

Addressees(ev, known) ==
    CASE ev.kind \in DOMAIN AddressKey -> UserIDsForSlot(known, Extra(ev, AddressKey[ev.kind]))
      [] ev.kind = "match_ended"       -> Members
      [] ev.kind = "bot_takeover"      -> {Extra(ev, "prev_user_id")}
      [] OTHER                         -> {}

\* DebounceWindow: of all kinds but one, a second within the window is not kept.
Debounced(kind) == kind # "match_ended"

\* handleEvent, up to the inserts: the roster is read, unless it was less than
\* cacheTTL ago.  (A failed read drops the event.)
HandleEvent(ev) ==
    /\ job = {} /\ ~ended
    /\ ev.kind = "bot_takeover" => players[ev.extra.slot] = "computer"
    /\ ended' = (ev.kind = "match_ended")
    /\ roster' \in {players, roster} \ {NoRoster}
    /\ job' = {[to |-> user, kind |-> ev.kind] : user \in Addressees(ev, roster')}
    /\ UNCHANGED <<players, rows, batch, deaths>>

\* notifysvc.Insert for one target: nothing is kept within the window of the
\* last row of that kind, nor when the database fails.
Insert(in) ==
    /\ job' = job \ {in}
    /\ \/ rows' = rows
       \/ /\ Len(rows) < MaxRows
          /\ ~\E i \in DOMAIN rows : rows[i].recent /\ rows[i].to = in.to /\ rows[i].kind = in.kind
          /\ rows' = Append(rows, [to |-> in.to, kind |-> in.kind, recent |-> Debounced(in.kind), sent |-> FALSE])
    /\ UNCHANGED <<players, ended, roster, batch, deaths>>

\* The window of a row passes.
Age(i) ==
    /\ rows[i].recent
    /\ rows' = [rows EXCEPT ![i].recent = FALSE]
    /\ UNCHANGED <<players, ended, roster, job, batch, deaths>>

------------------------------------------------------------------------------
\* PendingDelivery: the oldest that are not sent.
Unsent == SelectSeq([i \in DOMAIN rows |-> i], LAMBDA i : ~rows[i].sent)
PendingDelivery == SubSeq(Unsent, 1, IF Len(Unsent) < BatchSize THEN Len(Unsent) ELSE BatchSize)

\* dispatch: the next pass starts when the one before is through.
Dispatch ==
    /\ batch = <<>> /\ PendingDelivery # <<>>
    /\ batch' = PendingDelivery
    /\ UNCHANGED <<players, ended, roster, job, rows, deaths>>

\* dispatchOne: mailed and marked.
Mail(i) ==
    /\ batch # <<>> /\ Head(batch) = i /\ rows[i].to \notin Bots
    /\ rows' = [rows EXCEPT ![i].sent = TRUE] /\ batch' = Tail(batch)
    /\ UNCHANGED <<players, ended, roster, job, deaths>>

\* Mutant: a failure ends the pass.
MailFailsStops ==
    /\ batch # <<>> /\ batch' = <<>>
    /\ UNCHANGED <<players, ended, roster, job, rows, deaths>>

\* The mail fails, or the mark does (then it will be mailed again): the next one.
MailFails ==
    /\ batch # <<>> /\ batch' = Tail(batch)
    /\ UNCHANGED <<players, ended, roster, job, rows, deaths>>

Die ==
    /\ deaths < MaxDeaths /\ deaths' = deaths + 1
    /\ roster' = NoRoster /\ job' = {} /\ batch' = <<>>
    /\ UNCHANGED <<players, ended, rows>>

\* The seat of a human is handed to the computer, for good; the roster is not told.
HandedOver(s) ==
    /\ players[s] = "human"
    /\ players' = [players EXCEPT ![s] = "computer"]
    /\ UNCHANGED <<ended, roster, job, rows, batch, deaths>>

NNext ==
    \/ \E ev \in Events : HandleEvent(ev)
    \/ \E in \in job : Insert(in)
    \/ Dispatch \/ MailFails \/ Die
    \/ \E i \in DOMAIN rows : Age(i) \/ Mail(i)
    \/ \E s \in Seated : HandedOver(s)

\* The ticker of the dispatch loop; a mail that is tried often enough gets through.
NFairness ==
    /\ WF_notifyVars(Dispatch) /\ WF_notifyVars(MailFails)
    /\ \A i \in 1..MaxRows : SF_notifyVars(i \in DOMAIN rows /\ Mail(i))

NSpec == NInit /\ [][NNext]_notifyVars /\ NFairness

------------------------------------------------------------------------------
\* Whether the rows before row i can fill a batch and never leave it.
Dammed(i) == Cardinality({j \in 1..(i - 1) : rows[j].to \in Bots}) >= BatchSize

\* A notification for somebody who can be reached is mailed and marked in the
\* end, whatever fails meanwhile and whoever is before it in the queue: unless
\* those no relay accepts fill a batch before it (notifications.go:126-131).
MailGoesOut == \A i \in 1..MaxRows :
    i \in DOMAIN rows /\ rows[i].to \notin Bots /\ ~Dammed(i) ~> (i \in DOMAIN rows /\ rows[i].sent)

(***************************************************************************)
(* What documents, comments and tests say and the code does not do.        *)
(***************************************************************************)
\* notify.go:142-144: a failure of the mailer does not block the loop, and it is
\* tried again at the next tick; so whoever can be reached gets the mail.
MailIsRetried == \A i \in 1..MaxRows :
    i \in DOMAIN rows /\ rows[i].to \notin Bots ~> (i \in DOMAIN rows /\ rows[i].sent)

\* Whoever loses a province and is not replaced by a bot is told
\* (TestNotifyWorkerInsertsForCaptureLoss; the engine names the previous owner
\* under a key the template does not read).
LossIsTold ==
    [][\A s \in Seated :
        HandleEvent(Captured(s)) /\ roster'[s] = "human"
            => job' = {[to |-> Sitting[s], kind |-> "province_captured"]}]_notifyVars

==============================================================================

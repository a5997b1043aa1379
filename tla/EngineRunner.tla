----------------------------- MODULE EngineRunner -----------------------------
(***************************************************************************)
(* The life of one match in the engine processes (internal/service/        *)
(* enginesvc, internal/engine) between the JetStream consumers that feed   *)
(* it (internal/adapter/natsbridge) and its own loop.                      *)
(*                                                                         *)
(* A start message builds a match object and hosts it unless the engine    *)
(* already hosts the match; commands go through a bounded channel to the   *)
(* loop of the hosted object; the loop ends itself after victory and       *)
(* cleanup, ForceEnd ends it from the goroutine of a NATS callback.  Each  *)
(* goroutine is a program counter; what a mutex or a channel makes atomic  *)
(* is one step.  JetStream delivers at least once: acknowledgements can be *)
(* lost, and an unacknowledged message is delivered again.                 *)
(***************************************************************************)
EXTENDS Naturals, Sequences, FiniteSets

CONSTANTS
    Engines,      \* engine processes sharing the durable consumers
    Cmds,         \* the player commands published to the match
    NoEngine,     \* no engine
    NoCmd,        \* no command
    QueueCap,     \* capacity of matchHandle.cmds (64 in the code)
    MaxStarts,    \* bound: deliveries of the start message
    MaxDeliver,   \* bound: deliveries of a command that reach a channel
    MaxEnds,      \* bound: end requests published by the worker
    MaxCrashes    \* bound: engine crashes

ASSUME RunnerAssumption ==
    /\ NoEngine \notin Engines /\ NoCmd \notin Cmds
    /\ QueueCap \in Nat \ {0}
    /\ MaxStarts \in Nat /\ MaxDeliver \in Nat
    /\ MaxEnds \in Nat /\ MaxCrashes \in Nat

Objects == 1..MaxStarts
NoObject == 0

VARIABLES
    startMsg,   \* the start message: "unsent", "pending", "delivered", "acked"
    starts,     \* deliveries of the start message so far; each builds an object
    starter,    \* per engine: the start handler
    hosted,     \* per engine: Runner.matches for this match, an object or none
    home,       \* per object: the engine that built it
    match,      \* per object: Status, CleanupDone, and racy while ForceEnd's
                \* unsynchronised writes may not be visible to the loop
    loop,       \* per object: the program counter of runMatch
    victim,     \* per object: whose handle its loop's Stop took from the map
    cancelled,  \* per object: the context of the handle
    queue,      \* per object: matchHandle.cmds
    resync,     \* per object: matchHandle.resync, a coalescing buffer of one
    cmdMsg,     \* per command: "unsent", "pending", "delivered", "acked"
    tries,      \* per command: times it was put on a channel
    worker,     \* per engine: the command handler between lookup and send
    ender,      \* per engine: the end handler
    ends,       \* end requests so far
    crashes,    \* crashes so far
    finals,     \* history: final snapshots published
    applied,    \* history: times each command was applied
    refused     \* history: commands a loop took and rejected

mvars == <<home, match, loop, victim, cancelled, queue, resync>>
jvars == <<startMsg, starts, cmdMsg, tries>>
hvars == <<finals, applied, refused>>
rvars == <<startMsg, starts, starter, hosted, home, match, loop, victim, cancelled,
          queue, resync, cmdMsg, tries, worker, ender, ends, crashes, finals,
          applied, refused>>

------------------------------------------------------------------------------
IdleStarter == [pc |-> "idle", obj |-> NoObject]
IdleWorker == [pc |-> "idle", obj |-> NoObject, cmd |-> NoCmd]
IdleEnder == [pc |-> "idle", obj |-> NoObject]
Fresh == [status |-> "active", cleanup |-> FALSE, racy |-> FALSE]

Running(g) == loop[g] \notin {"none", "gone"}
Over(g) == match[g].status = "ended" /\ match[g].cleanup

RInit ==
    /\ startMsg = "unsent" /\ starts = 0
    /\ starter = [e \in Engines |-> IdleStarter]
    /\ hosted = [e \in Engines |-> NoObject]
    /\ home = [g \in Objects |-> NoEngine]
    /\ match = [g \in Objects |-> Fresh]
    /\ loop = [g \in Objects |-> "none"]
    /\ victim = [g \in Objects |-> NoObject]
    /\ cancelled = [g \in Objects |-> FALSE]
    /\ queue = [g \in Objects |-> <<>>]
    /\ resync = [g \in Objects |-> FALSE]
    /\ cmdMsg = [c \in Cmds |-> "unsent"] /\ tries = [c \in Cmds |-> 0]
    /\ worker = [e \in Engines |-> IdleWorker]
    /\ ender = [e \in Engines |-> IdleEnder]
    /\ ends = 0 /\ crashes = 0
    /\ finals = 0 /\ applied = [c \in Cmds |-> 0] /\ refused = {}

------------------------------------------------------------------------------
(* The start message. *)

\* Core-api publishes the start of the match, once.
StartPublished ==
    /\ startMsg = "unsent"
    /\ startMsg' = "pending"
    /\ UNCHANGED <<starts, starter, hosted, mvars, cmdMsg, tries, worker, ender,
                   ends, crashes, hvars>>

\* The handler builds a new object on every delivery.
DeliverStart(e) ==
    /\ startMsg = "pending" /\ starter[e].pc = "idle" /\ starts < MaxStarts
    /\ starts' = starts + 1
    /\ startMsg' = "delivered"
    /\ starter' = [starter EXCEPT ![e] = [pc |-> "built", obj |-> starts + 1]]
    /\ home' = [home EXCEPT ![starts + 1] = e]
    /\ UNCHANGED <<hosted, match, loop, victim, cancelled, queue, resync, cmdMsg,
                   tries, worker, ender, ends, crashes, hvars>>

\* Mutant: the new object replaces the hosted one.
EnsureMatchAlways(e) ==
    LET g == starter[e].obj IN
    /\ starter[e].pc = "built"
    /\ starter' = [starter EXCEPT ![e].pc = "ensured"]
    /\ hosted' = [hosted EXCEPT ![e] = g]
    /\ loop' = [loop EXCEPT ![g] = "select"]
    /\ UNCHANGED <<home, match, victim, cancelled, queue, resync, jvars, worker,
                   ender, ends, crashes, hvars>>

\* EnsureMatch: under the mutex, host the object unless one is hosted.
EnsureMatch(e) ==
    LET g == starter[e].obj IN
    /\ starter[e].pc = "built"
    /\ starter' = [starter EXCEPT ![e].pc = "ensured"]
    /\ IF hosted[e] = NoObject
       THEN /\ hosted' = [hosted EXCEPT ![e] = g]
            /\ loop' = [loop EXCEPT ![g] = "select"]
       ELSE UNCHANGED <<hosted, loop>>
    /\ UNCHANGED <<home, match, victim, cancelled, queue, resync, jvars, worker,
                   ender, ends, crashes, hvars>>

\* BroadcastInitial of the object just built, hosted or not; then the
\* acknowledgement, which may be lost.
FinishStart(e) ==
    /\ starter[e].pc = "ensured"
    /\ starter' = [starter EXCEPT ![e] = IdleStarter]
    /\ startMsg' \in {startMsg, "acked"}
    /\ UNCHANGED <<starts, hosted, mvars, cmdMsg, tries, worker, ender, ends,
                   crashes, finals, applied, refused>>

\* The acknowledgement did not arrive in time: the message is due again.
RedeliverStart ==
    /\ startMsg = "delivered"
    /\ startMsg' = "pending"
    /\ UNCHANGED <<starts, starter, hosted, mvars, cmdMsg, tries, worker, ender,
                   ends, crashes, hvars>>

------------------------------------------------------------------------------
(* Commands. *)

PublishCommand(c) ==
    /\ cmdMsg[c] = "unsent"
    /\ cmdMsg' = [cmdMsg EXCEPT ![c] = "pending"]
    /\ UNCHANGED <<startMsg, starts, tries, starter, hosted, mvars, worker, ender,
                   ends, crashes, hvars>>

\* Submit looks the handle up under the mutex.  An engine that does not host
\* the match answers ErrNotHosted and the message stays pending (NAK).
SubmitLookup(e, c) ==
    /\ worker[e].pc = "idle" /\ cmdMsg[c] = "pending" /\ tries[c] < MaxDeliver
    /\ hosted[e] # NoObject
    /\ worker' = [worker EXCEPT ![e] = [pc |-> "found", obj |-> hosted[e], cmd |-> c]]
    /\ cmdMsg' = [cmdMsg EXCEPT ![c] = "delivered"]
    /\ UNCHANGED <<startMsg, starts, tries, starter, hosted, mvars, ender, ends,
                   crashes, hvars>>

\* Mutant: the send does not look at the channel's capacity.
SubmitSendUnbounded(e) ==
    LET g == worker[e].obj  c == worker[e].cmd IN
    /\ worker[e].pc = "found"
    /\ queue' = [queue EXCEPT ![g] = Append(@, c)]
    /\ tries' = [tries EXCEPT ![c] = @ + 1]
    /\ \E answer \in {"acked", "pending"} : cmdMsg' = [cmdMsg EXCEPT ![c] = answer]
    /\ worker' = [worker EXCEPT ![e] = IdleWorker]
    /\ UNCHANGED <<startMsg, starts, starter, hosted, home, match, loop, victim,
                   cancelled, resync, ender, ends, crashes, hvars>>

\* The send, outside the mutex: the handle may have been stopped meanwhile.
SubmitSend(e) ==
    LET g == worker[e].obj  c == worker[e].cmd IN
    /\ worker[e].pc = "found" /\ Len(queue[g]) < QueueCap
    /\ queue' = [queue EXCEPT ![g] = Append(@, c)]
    /\ tries' = [tries EXCEPT ![c] = @ + 1]
    /\ \E answer \in {"acked", "pending"} :      \* the Ack arrives or is lost
           cmdMsg' = [cmdMsg EXCEPT ![c] = answer]
    /\ worker' = [worker EXCEPT ![e] = IdleWorker]
    /\ UNCHANGED <<startMsg, starts, starter, hosted, home, match, loop, victim,
                   cancelled, resync, ender, ends, crashes, hvars>>

\* Mutant: a command that found the channel full is acknowledged.
SubmitFullAcked(e) ==
    /\ worker[e].pc = "found" /\ Len(queue[worker[e].obj]) = QueueCap
    /\ cmdMsg' = [cmdMsg EXCEPT ![worker[e].cmd] = "acked"]
    /\ worker' = [worker EXCEPT ![e] = IdleWorker]
    /\ UNCHANGED <<startMsg, starts, tries, starter, hosted, mvars, ender, ends,
                   crashes, hvars>>

\* A full channel: the message is NAK'd and due again.
SubmitFull(e) ==
    /\ worker[e].pc = "found" /\ Len(queue[worker[e].obj]) = QueueCap
    /\ cmdMsg' = [cmdMsg EXCEPT ![worker[e].cmd] = "pending"]
    /\ worker' = [worker EXCEPT ![e] = IdleWorker]
    /\ UNCHANGED <<startMsg, starts, tries, starter, hosted, mvars, ender, ends,
                   crashes, hvars>>

\* Rebroadcast: coalesced into the buffer of one.
Rebroadcast(e) ==
    /\ hosted[e] # NoObject /\ ~resync[hosted[e]]
    /\ resync' = [resync EXCEPT ![hosted[e]] = TRUE]
    /\ UNCHANGED <<startMsg, starts, starter, hosted, home, match, loop, victim,
                   cancelled, queue, cmdMsg, tries, worker, ender, ends, crashes,
                   hvars>>

------------------------------------------------------------------------------
(* The match loop.  Every case of its select can be taken when it is ready. *)

\* The status the loop reads: while ForceEnd's write is racy it may be missed.
MayReadActive(g) == match[g].status = "active" \/ match[g].racy
MayReadOver(g) == Over(g)
MayReadNotOver(g) == ~Over(g) \/ match[g].racy

\* What a drained timeline can do to the match: nothing that ends it, victory
\* by an arrival, or the cleanup event of a match that is over.
Drained(g) ==
    {match[g]}
    \cup (IF match[g].status = "active" THEN {[match[g] EXCEPT !.status = "ended"]} ELSE {})
    \cup (IF match[g].status = "ended" THEN {[match[g] EXCEPT !.cleanup = TRUE]} ELSE {})

LoopCommand(g) ==
    LET c == Head(queue[g]) IN
    /\ loop[g] = "select" /\ queue[g] # <<>>
    /\ queue' = [queue EXCEPT ![g] = Tail(@)]
    /\ \/ \* Dispatch refuses: the iteration is abandoned before the end check
          /\ loop' = loop /\ match' = match
          /\ refused' = refused \cup {c} /\ UNCHANGED applied
       \/ /\ MayReadActive(g)
          /\ \E next \in Drained(g) : match' = [match EXCEPT ![g] = next]
          /\ loop' = [loop EXCEPT ![g] = "check"]
          /\ applied' = [applied EXCEPT ![c] = @ + 1] /\ UNCHANGED refused
    /\ UNCHANGED <<jvars, starter, hosted, home, victim, cancelled, resync, worker,
                   ender, ends, crashes, finals>>

\* Mutant: a tick, like a refused command, skips the end check.
LoopTickUnchecked(g) ==
    /\ loop[g] = "select"
    /\ \E next \in Drained(g) : match' = [match EXCEPT ![g] = next]
    /\ UNCHANGED <<jvars, starter, hosted, home, loop, victim, cancelled, queue,
                   resync, worker, ender, ends, crashes, hvars>>

LoopTick(g) ==
    /\ loop[g] = "select"
    /\ \E next \in Drained(g) : match' = [match EXCEPT ![g] = next]
    /\ loop' = [loop EXCEPT ![g] = "check"]
    /\ UNCHANGED <<jvars, starter, hosted, home, victim, cancelled, queue, resync,
                   worker, ender, ends, crashes, hvars>>

LoopResync(g) ==
    /\ loop[g] = "select" /\ resync[g]
    /\ resync' = [resync EXCEPT ![g] = FALSE]
    /\ loop' = [loop EXCEPT ![g] = "check"]
    /\ UNCHANGED <<jvars, starter, hosted, home, match, victim, cancelled, queue,
                   worker, ender, ends, crashes, hvars>>

LoopDone(g) ==
    /\ loop[g] = "select" /\ cancelled[g]
    /\ loop' = [loop EXCEPT ![g] = "gone"]
    /\ UNCHANGED <<jvars, starter, hosted, home, match, victim, cancelled, queue,
                   resync, worker, ender, ends, crashes, hvars>>

\* The end check after an iteration.
LoopCheck(g) ==
    /\ loop[g] = "check"
    /\ \/ MayReadOver(g) /\ loop' = [loop EXCEPT ![g] = "publish"]
       \/ MayReadNotOver(g) /\ loop' = [loop EXCEPT ![g] = "select"]
    /\ UNCHANGED <<jvars, starter, hosted, home, match, victim, cancelled, queue,
                   resync, worker, ender, ends, crashes, hvars>>

LoopPublishFinal(g) ==
    /\ loop[g] = "publish"
    /\ finals' = finals + 1
    /\ loop' = [loop EXCEPT ![g] = "stop"]
    /\ UNCHANGED <<jvars, starter, hosted, home, match, victim, cancelled, queue,
                   resync, worker, ender, ends, crashes, applied, refused>>

\* Stop: by match id, so whatever handle the engine now has under it.
LoopStop(g) ==
    /\ loop[g] = "stop"
    /\ victim' = [victim EXCEPT ![g] = hosted[home[g]]]
    /\ hosted' = [hosted EXCEPT ![home[g]] = NoObject]
    /\ loop' = [loop EXCEPT ![g] = "cancel"]
    /\ UNCHANGED <<jvars, starter, home, match, cancelled, queue, resync, worker,
                   ender, ends, crashes, hvars>>

LoopCancel(g) ==
    /\ loop[g] = "cancel"
    /\ cancelled' = [h \in Objects |-> cancelled[h] \/ h = victim[g]]
    /\ loop' = [loop EXCEPT ![g] = "gone"]
    /\ UNCHANGED <<jvars, starter, hosted, home, match, victim, queue, resync,
                   worker, ender, ends, crashes, hvars>>

------------------------------------------------------------------------------
(* ForceEnd, on the goroutine of the end subscription. *)

\* Mutant: the handle is stopped without a final snapshot.
ForceEndSilently(e) ==
    /\ ender[e].pc = "idle" /\ hosted[e] # NoObject /\ ends < MaxEnds
    /\ ends' = ends + 1
    /\ match' = [match EXCEPT ![hosted[e]] =
                    [status |-> "ended", cleanup |-> TRUE, racy |-> TRUE]]
    /\ ender' = [ender EXCEPT ![e] = [pc |-> "stop", obj |-> hosted[e]]]
    /\ UNCHANGED <<jvars, starter, hosted, home, loop, victim, cancelled, queue,
                   resync, worker, crashes, hvars>>

ForceEnd(e) ==
    /\ ender[e].pc = "idle" /\ hosted[e] # NoObject /\ ends < MaxEnds
    /\ ends' = ends + 1
    /\ match' = [match EXCEPT ![hosted[e]] =
                    [status |-> "ended", cleanup |-> TRUE, racy |-> TRUE]]
    /\ ender' = [ender EXCEPT ![e] = [pc |-> "publish", obj |-> hosted[e]]]
    /\ UNCHANGED <<jvars, starter, hosted, home, loop, victim, cancelled, queue,
                   resync, worker, crashes, hvars>>

EnderPublishFinal(e) ==
    /\ ender[e].pc = "publish"
    /\ finals' = finals + 1
    /\ ender' = [ender EXCEPT ![e].pc = "stop"]
    /\ UNCHANGED <<jvars, starter, hosted, mvars, worker, ends, crashes, applied,
                   refused>>

\* Mutant: the handle is cancelled but stays in the map.
EnderStopKeeps(e) ==
    /\ ender[e].pc = "stop"
    /\ ender' = [ender EXCEPT ![e] = [pc |-> "cancel", obj |-> hosted[e]]]
    /\ UNCHANGED <<jvars, starter, hosted, mvars, worker, ends, crashes, hvars>>

EnderStop(e) ==
    /\ ender[e].pc = "stop"
    /\ ender' = [ender EXCEPT ![e] = [pc |-> "cancel", obj |-> hosted[e]]]
    /\ hosted' = [hosted EXCEPT ![e] = NoObject]
    /\ UNCHANGED <<jvars, starter, mvars, worker, ends, crashes, hvars>>

\* The cancellation also publishes the racy writes to the cancelled loop.
EnderCancel(e) ==
    /\ ender[e].pc = "cancel"
    /\ cancelled' = [h \in Objects |-> cancelled[h] \/ h = ender[e].obj]
    /\ ender' = [ender EXCEPT ![e] = IdleEnder]
    /\ UNCHANGED <<jvars, starter, hosted, home, match, loop, victim, queue, resync,
                   worker, ends, crashes, hvars>>

------------------------------------------------------------------------------
\* An engine dies and restarts: its memory is gone; what it had not
\* acknowledged is delivered again by the durable consumers.
Crash(e) ==
    /\ crashes < MaxCrashes
    /\ crashes' = crashes + 1
    /\ hosted' = [hosted EXCEPT ![e] = NoObject]
    /\ loop' = [g \in Objects |-> IF home[g] = e /\ Running(g) THEN "gone" ELSE loop[g]]
    /\ queue' = [g \in Objects |-> IF home[g] = e THEN <<>> ELSE queue[g]]
    /\ resync' = [g \in Objects |-> IF home[g] = e THEN FALSE ELSE resync[g]]
    /\ starter' = [starter EXCEPT ![e] = IdleStarter]
    /\ cmdMsg' = [c \in Cmds |-> IF worker[e].cmd = c THEN "pending" ELSE cmdMsg[c]]
    /\ worker' = [worker EXCEPT ![e] = IdleWorker]
    /\ ender' = [ender EXCEPT ![e] = IdleEnder]
    /\ UNCHANGED <<startMsg, starts, tries, home, match, victim, cancelled, ends, hvars>>

StartStep(e) == DeliverStart(e) \/ EnsureMatch(e) \/ FinishStart(e)
WorkerStep(e) == (\E c \in Cmds : SubmitLookup(e, c)) \/ SubmitSend(e) \/ SubmitFull(e)
EnderStep(e) == EnderPublishFinal(e) \/ EnderStop(e) \/ EnderCancel(e)
LoopStep(g) ==
    \/ LoopCommand(g) \/ LoopTick(g) \/ LoopResync(g) \/ LoopDone(g)
    \/ LoopCheck(g) \/ LoopPublishFinal(g) \/ LoopStop(g) \/ LoopCancel(g)

RNext ==
    \/ StartPublished \/ RedeliverStart
    \/ \E c \in Cmds : PublishCommand(c)
    \/ \E e \in Engines : \/ StartStep(e) \/ WorkerStep(e) \/ EnderStep(e)
                          \/ ForceEnd(e) \/ Rebroadcast(e) \/ Crash(e)
    \/ \E g \in Objects : LoopStep(g)

RSpec == RInit /\ [][RNext]_rvars

\* Fairness.  Handlers and the straight line of a loop iteration run to their
\* end; Go's select picks among the ready cases at random, so a case that is
\* ready again and again is taken; JetStream delivers again a command that was
\* NAK'd.  Nothing makes a client publish, a start arrive, an engine crash or the
\* worker ask for an end.
Fairness ==
    /\ \A e \in Engines :
          /\ WF_rvars(EnderStep(e)) /\ WF_rvars(SubmitSend(e) \/ SubmitFull(e))
          /\ \A c \in Cmds : SF_rvars(SubmitLookup(e, c))
    /\ \A g \in Objects :
          /\ SF_rvars(LoopTick(g)) /\ SF_rvars(LoopDone(g)) /\ SF_rvars(LoopCommand(g))
          /\ WF_rvars(LoopCheck(g) \/ LoopPublishFinal(g) \/ LoopStop(g) \/ LoopCancel(g))

RFairSpec == RSpec /\ Fairness

------------------------------------------------------------------------------
(***************************************************************************)
(* Properties                                                              *)
(***************************************************************************)

\* The variables have their types.
RTypeOK ==
    /\ startMsg \in {"unsent", "pending", "delivered", "acked"}
    /\ starts \in 0..MaxStarts
    /\ hosted \in [Engines -> Objects \cup {NoObject}]
    /\ loop \in [Objects -> {"none", "select", "check", "publish", "stop", "cancel", "gone"}]
    /\ victim \in [Objects -> Objects \cup {NoObject}]
    /\ \A g \in Objects : Len(queue[g]) <= QueueCap
    /\ cmdMsg \in [Cmds -> {"unsent", "pending", "delivered", "acked"}]
    /\ ends \in 0..MaxEnds /\ crashes \in 0..MaxCrashes

\* A Stop that took g's handle from the map and has not cancelled it yet.
BeingStopped(g) ==
    \/ \E h \in Objects : loop[h] = "cancel" /\ victim[h] = g
    \/ \E e \in Engines : ender[e].pc = "cancel" /\ ender[e].obj = g

\* runner.go:23-24, 58-76: one handle, one goroutine.  What the map hosts is a
\* running loop of this engine that nobody has cancelled, so a command it
\* accepts can still be taken.
HostedIsAlive ==
    \A e \in Engines : hosted[e] # NoObject =>
        Running(hosted[e]) /\ home[hosted[e]] = e /\ ~cancelled[hosted[e]]

\* runner.go:145-156: no goroutine is left behind.  A running loop is hosted,
\* or on its own way out, or cancelled, or about to be cancelled by the Stop
\* that took its handle, whatever handle that Stop meant to take.
NoOrphanLoop ==
    \A g \in Objects : Running(g) =>
        \/ hosted[home[g]] = g
        \/ loop[g] \in {"stop", "cancel"}
        \/ cancelled[g]
        \/ BeingStopped(g)

\* runner.go:130-156, 193-197: the match leaves the runner only after a final
\* snapshot went out for the worker to persist.
GoneOnlyAfterFinal ==
    \A g \in Objects :
        crashes = 0 /\ (loop[g] = "gone" \/ cancelled[g]) => finals > 0

\* runner.go:77-93: an acknowledged command reached the loop, or waits in the
\* channel of a running one, unless the match ended or the engine crashed.
AckedNotLost ==
    \A c \in Cmds : cmdMsg[c] = "acked" =>
        \/ applied[c] > 0
        \/ c \in refused
        \/ \E g \in Objects : Running(g) /\ \E i \in 1..Len(queue[g]) : queue[g][i] = c
        \/ finals > 0
        \/ crashes > 0

\* runner.go:193-198: a match that is over is torn down, although a refused
\* command skips the end check of its iteration.
TornDown == \A g \in Objects : Over(g) /\ Running(g) ~> loop[g] = "gone"

\* subscriber.go:30-32: while an engine hosts the match a command that was
\* NAK'd is not forgotten: it reaches the loop or the match ends.
CommandSettles ==
    \A c \in Cmds :
        cmdMsg[c] = "pending" /\ (\E e \in Engines : hosted[e] # NoObject)
            ~> \/ applied[c] > 0 \/ c \in refused
               \/ \A e \in Engines : hosted[e] = NoObject

\* web/src/lib/idem.ts:1-2: the server deduplicates retries.
CommandAppliedOnce == \A c \in Cmds : applied[c] <= 1

==============================================================================

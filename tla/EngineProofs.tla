----------------------------- MODULE EngineProofs -----------------------------
(***************************************************************************)
(* For every set of engines and commands, every channel capacity and every *)
(* number of deliveries, end requests and crashes: what the map of matches *)
(* hosts is a running loop, no loop runs that nobody will stop, a match    *)
(* leaves only after its final snapshot, and a command that was            *)
(* acknowledged has reached the loop or waits for it.                      *)
(***************************************************************************)
EXTENDS EngineRunner, TLAPS

AnyObject == Objects \cup {NoObject}
Starters == [pc : {"idle", "built", "ensured"}, obj : AnyObject]
Workers == [pc : {"idle", "found"}, obj : AnyObject, cmd : Cmds \cup {NoCmd}]
Enders == [pc : {"idle", "publish", "stop", "cancel"}, obj : AnyObject]
LoopStages == {"none", "select", "check", "publish", "stop", "cancel", "gone"}

MessageTypes ==
    /\ startMsg \in {"unsent", "pending", "delivered", "acked"}
    /\ starts \in 0..MaxStarts
    /\ cmdMsg \in [Cmds -> {"unsent", "pending", "delivered", "acked"}]
    /\ ends \in 0..MaxEnds /\ crashes \in 0..MaxCrashes
    /\ finals \in Nat /\ applied \in [Cmds -> Nat]

HandlerTypes ==
    /\ starter \in [Engines -> Starters]
    /\ worker \in [Engines -> Workers]
    /\ ender \in [Engines -> Enders]
    /\ hosted \in [Engines -> AnyObject]

LoopTypes ==
    /\ home \in [Objects -> Engines \cup {NoEngine}]
    /\ loop \in [Objects -> LoopStages]
    /\ victim \in [Objects -> AnyObject]
    /\ cancelled \in [Objects -> BOOLEAN]

QueueTypes ==
    /\ queue \in [Objects -> Seq(Cmds)]
    /\ \A g \in Objects : Len(queue[g]) <= QueueCap

\* An object is built once, for the engine that will run it, and is given a loop
\* by that engine; only then can a handler have found it.
Origins ==
    /\ \A g \in Objects : loop[g] # "none" => g <= starts /\ home[g] \in Engines
    /\ \A e \in Engines : starter[e].pc = "built" =>
          LET g == starter[e].obj IN
          g \in Objects /\ g <= starts /\ home[g] = e /\ loop[g] = "none"
    /\ \A e \in Engines : worker[e].pc = "found" =>
          worker[e].obj \in Objects /\ loop[worker[e].obj] # "none" /\ worker[e].cmd \in Cmds

\* A handle that a Stop of this engine took from the map: it had a loop, so no
\* start will ever host it again.
Taken(h, e) == h # NoObject => loop[h] # "none" /\ home[h] = e /\ hosted[e] # h

\* What is being stopped, or has been, is not in the map.
Stopping ==
    /\ \A g \in Objects : cancelled[g] => loop[g] # "none"
    /\ \A g \in Objects : loop[g] = "cancel" => hosted[home[g]] # g /\ Taken(victim[g], home[g])
    /\ \A e \in Engines : ender[e].pc = "cancel" => Taken(ender[e].obj, e)

\* Both ways out publish before they stop.
PublishedFirst ==
    /\ \A g \in Objects : loop[g] \in {"stop", "cancel"} => finals > 0
    /\ \A e \in Engines : ender[e].pc \in {"stop", "cancel"} => finals > 0

\* The inductive invariant.
RTypes == MessageTypes /\ HandlerTypes /\ LoopTypes /\ QueueTypes
MapInv == Origins /\ Stopping /\ HostedIsAlive /\ NoOrphanLoop
OutInv == PublishedFirst /\ GoneOnlyAfterFinal /\ AckedNotLost
RInv == RTypes /\ MapInv /\ OutInv

------------------------------------------------------------------------------
\* Every step keeps the types.
LEMMA TypesStep == RTypes /\ Origins /\ [RNext]_rvars => RTypes'
<1> SUFFICES ASSUME RTypes, Origins, [RNext]_rvars PROVE RTypes'
  OBVIOUS
<1> USE RunnerAssumption DEF RTypes, MessageTypes, HandlerTypes, LoopTypes, QueueTypes, mvars, jvars, hvars,
        Objects, AnyObject, NoObject, Starters, Workers, Enders, LoopStages, IdleStarter, IdleWorker, IdleEnder
<1>1. CASE StartPublished
  BY <1>1 DEF StartPublished
<1>2. CASE RedeliverStart
  BY <1>2 DEF RedeliverStart
<1>3. ASSUME NEW c \in Cmds, PublishCommand(c) PROVE RTypes'
  BY <1>3 DEF PublishCommand
<1>4. ASSUME NEW e \in Engines, DeliverStart(e) PROVE RTypes'
  <2>1. starts + 1 \in Objects
    BY <1>4 DEF DeliverStart
  <2>2. HandlerTypes' /\ LoopTypes'
    BY <1>4, <2>1 DEF DeliverStart
  <2>3. MessageTypes' /\ QueueTypes'
    BY <1>4, <2>1 DEF DeliverStart
  <2> QED
    BY <2>2, <2>3
<1>5. ASSUME NEW e \in Engines, EnsureMatch(e) PROVE RTypes'
  <2>1. starter[e].obj \in Objects
    BY <1>5 DEF EnsureMatch, Origins
  <2>2. hosted' \in [Engines -> AnyObject] /\ loop' \in [Objects -> LoopStages]
    BY <1>5, <2>1 DEF EnsureMatch
  <2>3. starter' \in [Engines -> Starters]
    BY <1>5 DEF EnsureMatch
  <2> QED
    BY <1>5, <2>2, <2>3 DEF EnsureMatch
<1>6. ASSUME NEW e \in Engines, FinishStart(e) PROVE RTypes'
  BY <1>6 DEF FinishStart
<1>7. ASSUME NEW e \in Engines, NEW c \in Cmds, SubmitLookup(e, c) PROVE RTypes'
  BY <1>7 DEF SubmitLookup
<1>8. ASSUME NEW e \in Engines, SubmitSend(e) PROVE RTypes'
  <2> DEFINE g == worker[e].obj
             c == worker[e].cmd
  <2>1. g \in Objects /\ c \in Cmds
    BY <1>8 DEF SubmitSend, Origins
  <2>2. QueueTypes'
    <3>1. Append(queue[g], c) \in Seq(Cmds) /\ Len(Append(queue[g], c)) = Len(queue[g]) + 1
      BY <2>1
    <3>2. queue' = [queue EXCEPT ![g] = Append(queue[g], c)] /\ Len(queue[g]) < QueueCap
          /\ Len(queue[g]) \in Nat
      BY <1>8, <2>1 DEF SubmitSend
    <3> HIDE DEF g, c
    <3> QED
      BY <2>1, <3>1, <3>2
  <2>3. HandlerTypes' /\ LoopTypes'
    BY <1>8 DEF SubmitSend
  <2>4. MessageTypes'
    BY <1>8, <2>1 DEF SubmitSend
  <2> QED
    BY <2>2, <2>3, <2>4
<1>9. ASSUME NEW e \in Engines, SubmitFull(e) PROVE RTypes'
  BY <1>9 DEF SubmitFull, Origins
<1>10. ASSUME NEW e \in Engines, EnderPublishFinal(e) PROVE RTypes'
  <2>1. ender' \in [Engines -> Enders]
    BY <1>10 DEF EnderPublishFinal
  <2> QED
    BY <1>10, <2>1 DEF EnderPublishFinal
<1>11. ASSUME NEW e \in Engines, EnderStop(e) PROVE RTypes'
  BY <1>11 DEF EnderStop
<1>12. ASSUME NEW e \in Engines, EnderCancel(e) PROVE RTypes'
  BY <1>12 DEF EnderCancel
<1>13. ASSUME NEW e \in Engines, ForceEnd(e) PROVE RTypes'
  BY <1>13 DEF ForceEnd
<1>14. ASSUME NEW e \in Engines, Rebroadcast(e) PROVE RTypes'
  BY <1>14 DEF Rebroadcast
<1>15. ASSUME NEW e \in Engines, Crash(e) PROVE RTypes'
  BY <1>15 DEF Crash, Running
<1>16. ASSUME NEW g \in Objects, LoopCommand(g) PROVE RTypes'
  <2>1. Head(queue[g]) \in Cmds /\ Tail(queue[g]) \in Seq(Cmds)
        /\ Len(Tail(queue[g])) <= QueueCap
    BY <1>16 DEF LoopCommand
  <2>2. QueueTypes'
    BY <1>16, <2>1 DEF LoopCommand
  <2>3. applied' \in [Cmds -> Nat] /\ loop' \in [Objects -> LoopStages]
    <3> DEFINE c == Head(queue[g])
    <3>1. applied' = applied \/ applied' = [applied EXCEPT ![c] = @ + 1]
      BY <1>16 DEF LoopCommand
    <3>2. loop' = loop \/ loop' = [loop EXCEPT ![g] = "check"]
      BY <1>16 DEF LoopCommand
    <3>3. c \in Cmds
      BY <2>1
    <3> HIDE DEF c
    <3>4. applied' \in [Cmds -> Nat]
      <4>1. CASE applied' = applied
        BY <4>1
      <4>2. CASE applied' = [applied EXCEPT ![c] = @ + 1]
        BY <3>3, <4>2
      <4> QED
        BY <3>1, <4>1, <4>2
    <3>5. loop' \in [Objects -> LoopStages]
      BY <3>2
    <3> QED
      BY <3>4, <3>5
  <2>4. MessageTypes' /\ HandlerTypes' /\ LoopTypes'
    BY <1>16, <2>3 DEF LoopCommand
  <2> QED
    BY <2>2, <2>4
<1>17. ASSUME NEW g \in Objects, LoopTick(g) PROVE RTypes'
  BY <1>17 DEF LoopTick
<1>18. ASSUME NEW g \in Objects, LoopResync(g) PROVE RTypes'
  BY <1>18 DEF LoopResync
<1>19. ASSUME NEW g \in Objects, LoopDone(g) PROVE RTypes'
  BY <1>19 DEF LoopDone
<1>20. ASSUME NEW g \in Objects, LoopCheck(g) PROVE RTypes'
  BY <1>20 DEF LoopCheck
<1>21. ASSUME NEW g \in Objects, LoopPublishFinal(g) PROVE RTypes'
  BY <1>21 DEF LoopPublishFinal
<1>22. ASSUME NEW g \in Objects, LoopStop(g) PROVE RTypes'
  BY <1>22 DEF LoopStop, Origins
<1>23. ASSUME NEW g \in Objects, LoopCancel(g) PROVE RTypes'
  BY <1>23 DEF LoopCancel
<1>24. CASE UNCHANGED rvars
  BY <1>24 DEF rvars
<1> QED
  BY <1>1, <1>2, <1>3, <1>4, <1>5, <1>6, <1>7, <1>8, <1>9, <1>10, <1>11, <1>12, <1>13, <1>14, <1>15, <1>16, <1>17, <1>18, <1>19, <1>20, <1>21, <1>22, <1>23, <1>24 DEF RNext, StartStep, WorkerStep, EnderStep, LoopStep

------------------------------------------------------------------------------
(* The map and the goroutines. *)

\* A loop goes on, or takes the way out, and nothing else happens to the map.
LEMMA LoopGoesOn ==
    ASSUME RTypes, MapInv, NEW g \in Objects, NEW next \in {"select", "check", "publish", "stop"},
           loop[g] \in {"select", "check", "publish"},
           loop' = [loop EXCEPT ![g] = next],
           UNCHANGED <<starts, home, starter, worker, hosted, victim, cancelled, ender>>
    PROVE  MapInv'
<1>1. /\ loop'[g] = next
      /\ \A h \in Objects : h # g => loop'[h] = loop[h]
  BY DEF RTypes, LoopTypes
<1>2. Origins'
  BY <1>1 DEF MapInv, Origins
<1>3. Stopping'
  BY <1>1 DEF MapInv, Stopping, Taken, RTypes, LoopTypes, HandlerTypes, AnyObject, Enders
<1>4. HostedIsAlive'
  BY <1>1 DEF MapInv, HostedIsAlive, Running, RTypes, HandlerTypes, AnyObject
<1>5. NoOrphanLoop'
  BY <1>1 DEF MapInv, NoOrphanLoop, Running, BeingStopped
<1> QED
  BY <1>2, <1>3, <1>4, <1>5 DEF MapInv

\* A start or a command passes through a handler without a change to the map.
LEMMA HandlersGoOn ==
    ASSUME RTypes, MapInv,
           UNCHANGED <<starts, home, loop, hosted, victim, cancelled, ender>>,
           \A e \in Engines : \/ starter'[e] = starter[e]
                              \/ starter'[e].pc # "built",
           \A e \in Engines : \/ worker'[e] = worker[e]
                              \/ worker'[e].pc = "idle"
                              \/ worker'[e].obj = hosted[e] /\ hosted[e] # NoObject /\ worker'[e].cmd \in Cmds
    PROVE  MapInv'
<1>1. Origins'
  BY DEF MapInv, Origins, HostedIsAlive, Running, RTypes, HandlerTypes, AnyObject
<1>2. Stopping' /\ HostedIsAlive' /\ NoOrphanLoop'
  BY DEF MapInv, Stopping, Taken, HostedIsAlive, NoOrphanLoop, Running, BeingStopped
<1> QED
  BY <1>1, <1>2 DEF MapInv

LEMMA DeliverStartMap ==
    ASSUME RTypes, MapInv, NEW e \in Engines, DeliverStart(e)
    PROVE  MapInv'
<1> DEFINE n == starts + 1
<1>1. n \in Objects /\ starts' = n /\ loop[n] = "none" /\ starts \in Nat
      /\ UNCHANGED <<hosted, loop, victim, cancelled, worker, ender>>
      /\ starter' = [starter EXCEPT ![e] = [pc |-> "built", obj |-> n]]
      /\ home' = [home EXCEPT ![n] = e]
  <2>1. starts \in Nat /\ n \in Objects
    BY RunnerAssumption DEF DeliverStart, RTypes, MessageTypes, Objects
  <2>2. loop[n] = "none"
    BY <2>1 DEF MapInv, Origins
  <2> QED
    BY <2>1, <2>2 DEF DeliverStart
<1>2. n > starts
  BY <1>1
<1> HIDE DEF n
<1>3. home'[n] = e /\ \A h \in Objects : h # n => home'[h] = home[h]
  BY <1>1 DEF RTypes, LoopTypes
<1>4. Origins'
  <2>1. \A g \in Objects : loop'[g] # "none" => g <= starts' /\ home'[g] \in Engines
    BY <1>1, <1>2, <1>3 DEF MapInv, Origins, Objects
  <2>2. ASSUME NEW d \in Engines, starter'[d].pc = "built"
        PROVE  LET g == starter'[d].obj IN
               g \in Objects /\ g <= starts' /\ home'[g] = d /\ loop'[g] = "none"
    <3>1. CASE d = e
      BY <1>1, <1>3, <3>1 DEF RTypes, HandlerTypes, Objects
    <3>2. CASE d # e
      <4>1. starter'[d] = starter[d]
        BY <1>1, <3>2 DEF RTypes, HandlerTypes
      <4> QED
        BY <1>1, <1>2, <1>3, <2>2, <4>1 DEF MapInv, Origins, Objects
    <3> QED
      BY <3>1, <3>2
  <2>3. \A d \in Engines : worker'[d].pc = "found" =>
            worker'[d].obj \in Objects /\ loop'[worker'[d].obj] # "none" /\ worker'[d].cmd \in Cmds
    BY <1>1 DEF MapInv, Origins
  <2> QED
    BY <2>1, <2>2, <2>3 DEF Origins
<1>5. Stopping'
  BY <1>1, <1>3 DEF MapInv, Stopping, Taken, RTypes, LoopTypes, HandlerTypes, AnyObject, Enders
<1>6. HostedIsAlive'
  BY <1>1, <1>3 DEF MapInv, HostedIsAlive, Running, RTypes, HandlerTypes, AnyObject
<1>7. NoOrphanLoop'
  BY <1>1, <1>3 DEF MapInv, NoOrphanLoop, Running, BeingStopped
<1> QED
  BY <1>4, <1>5, <1>6, <1>7 DEF MapInv

\* EnsureMatch hosts an object that had no loop yet, so nobody stops it or has
\* cancelled it.
LEMMA EnsureMatchMap ==
    ASSUME RTypes, MapInv, NEW e \in Engines, EnsureMatch(e)
    PROVE  MapInv'
<1> DEFINE n == starter[e].obj
<1>1. /\ n \in Objects /\ n # NoObject /\ n <= starts /\ home[n] = e /\ loop[n] = "none"
      /\ UNCHANGED <<starts, home, victim, cancelled, worker, ender>>
      /\ \A d \in Engines : d # e => starter'[d] = starter[d]
      /\ starter'[e].pc # "built"
  BY DEF EnsureMatch, jvars, MapInv, Origins, RTypes, HandlerTypes, Starters, Objects, NoObject
<1>2. CASE hosted[e] # NoObject
  <2>1. UNCHANGED <<starts, home, loop, hosted, victim, cancelled, worker, ender>>
    BY <1>2 DEF EnsureMatch, jvars
  <2> QED
    BY <1>1, <2>1, HandlersGoOn
<1>3. CASE hosted[e] = NoObject
  <2>1. hosted' = [hosted EXCEPT ![e] = n] /\ loop' = [loop EXCEPT ![n] = "select"]
    BY <1>3 DEF EnsureMatch
  <2> HIDE DEF n
  <2>2. /\ loop'[n] = "select" /\ \A h \in Objects : h # n => loop'[h] = loop[h]
        /\ hosted'[e] = n /\ \A d \in Engines : d # e => hosted'[d] = hosted[d]
    BY <1>1, <2>1 DEF RTypes, LoopTypes, HandlerTypes
  <2>3. Origins'
    BY <1>1, <2>2 DEF MapInv, Origins
  <2>4. Stopping'
    BY <1>1, <2>2 DEF MapInv, Stopping, Taken, Origins, RTypes, LoopTypes, HandlerTypes, AnyObject, Enders
  <2>5. HostedIsAlive'
    BY <1>1, <2>2 DEF MapInv, HostedIsAlive, Running, Stopping, RTypes, HandlerTypes, AnyObject
  <2>6. NoOrphanLoop'
    <3>1. ASSUME NEW h \in Objects, Running(h)'
          PROVE  \/ hosted'[home'[h]] = h
                 \/ loop'[h] \in {"stop", "cancel"}
                 \/ cancelled'[h]
                 \/ BeingStopped(h)'
      <4>1. CASE h = n
        BY <1>1, <2>2, <4>1
      <4>2. CASE h # n
        <5>1. loop'[h] = loop[h] /\ Running(h) /\ home[h] \in Engines /\ h # NoObject
          BY <2>2, <3>1, <4>2 DEF MapInv, Origins, Running, Objects, NoObject
        <5>2. hosted[home[h]] = h => hosted'[home'[h]] = h
          BY <1>1, <1>3, <2>2, <5>1
        <5>3. BeingStopped(h) => BeingStopped(h)'
          BY <1>1, <2>2 DEF BeingStopped
        <5> QED
          BY <1>1, <5>1, <5>2, <5>3 DEF MapInv, NoOrphanLoop
      <4> QED
        BY <4>1, <4>2
    <3> QED
      BY <3>1 DEF NoOrphanLoop
  <2> QED
    BY <2>3, <2>4, <2>5, <2>6 DEF MapInv
<1> QED
  BY <1>2, <1>3

\* A loop leaves on a cancelled context: the map has forgotten it.
LEMMA LoopDoneMap ==
    ASSUME RTypes, MapInv, NEW g \in Objects, LoopDone(g)
    PROVE  MapInv'
<1>1. /\ loop[g] = "select" /\ cancelled[g]
      /\ loop'[g] = "gone" /\ \A h \in Objects : h # g => loop'[h] = loop[h]
      /\ UNCHANGED <<starts, home, starter, worker, hosted, victim, cancelled, ender>>
  BY DEF LoopDone, jvars, RTypes, LoopTypes
<1>2. Origins'
  BY <1>1 DEF MapInv, Origins
<1>3. Stopping'
  BY <1>1 DEF MapInv, Stopping, Taken, RTypes, LoopTypes, HandlerTypes, AnyObject, Enders
<1>4. HostedIsAlive'
  BY <1>1 DEF MapInv, HostedIsAlive, Running, RTypes, HandlerTypes, AnyObject
<1>5. NoOrphanLoop'
  BY <1>1 DEF MapInv, NoOrphanLoop, Running, BeingStopped
<1> QED
  BY <1>2, <1>3, <1>4, <1>5 DEF MapInv

\* Stop takes whatever handle the engine has for the match.
LEMMA LoopStopMap ==
    ASSUME RTypes, MapInv, NEW g \in Objects, LoopStop(g)
    PROVE  MapInv'
<1> DEFINE e == home[g]
           taken == hosted[e]
<1>1. e \in Engines /\ loop[g] = "stop"
  BY DEF LoopStop, MapInv, Origins
<1>2. taken # NoObject => taken \in Objects /\ Running(taken) /\ home[taken] = e /\ ~cancelled[taken]
  BY <1>1 DEF MapInv, HostedIsAlive, RTypes, HandlerTypes, AnyObject
<1>3. /\ victim' = [victim EXCEPT ![g] = taken]
      /\ hosted' = [hosted EXCEPT ![e] = NoObject]
      /\ loop' = [loop EXCEPT ![g] = "cancel"]
      /\ UNCHANGED <<starts, home, starter, worker, cancelled, ender>>
  BY DEF LoopStop, jvars
<1>4. UNCHANGED home /\ e = home'[g]
  BY <1>3
<1> HIDE DEF taken
<1>5. /\ loop'[g] = "cancel" /\ \A h \in Objects : h # g => loop'[h] = loop[h]
      /\ victim'[g] = taken /\ \A h \in Objects : h # g => victim'[h] = victim[h]
      /\ hosted'[e] = NoObject /\ \A d \in Engines : d # e => hosted'[d] = hosted[d]
  BY <1>1, <1>3 DEF RTypes, LoopTypes, HandlerTypes
<1>6. Origins'
  BY <1>1, <1>3, <1>5 DEF MapInv, Origins
<1>7. Stopping'
  <2> DEFINE After(h, d) == h # NoObject => loop'[h] # "none" /\ home'[h] = d /\ hosted'[d] # h
  <2>1. \A h \in Objects : cancelled'[h] => loop'[h] # "none"
    BY <1>1, <1>3, <1>5 DEF MapInv, Stopping
  <2>2. ASSUME NEW h \in AnyObject, NEW d \in Engines, Taken(h, d)
        PROVE  After(h, d)
    BY <1>1, <1>3, <1>5, <2>2 DEF Taken, AnyObject
  <2>3. After(taken, e)
    BY <1>2, <1>3, <1>4, <1>5 DEF Running
  <2>4. ASSUME NEW h \in Objects, loop'[h] = "cancel"
        PROVE  hosted'[home'[h]] # h /\ After(victim'[h], home'[h])
    <3>0. h # NoObject
      BY DEF Objects, NoObject
    <3>1. CASE h = g
      BY <1>4, <1>5, <2>3, <3>0, <3>1
    <3>2. CASE h # g
      <4>1. loop[h] = "cancel" /\ victim'[h] = victim[h] /\ home'[h] = home[h]
            /\ home[h] \in Engines /\ victim[h] \in AnyObject
        BY <1>3, <1>5, <2>4, <3>2 DEF MapInv, Origins, RTypes, LoopTypes
      <4>2. hosted[home[h]] # h /\ Taken(victim[h], home[h])
        BY <4>1 DEF MapInv, Stopping
      <4>3. After(victim[h], home[h])
        BY <2>2, <4>1, <4>2
      <4>4. hosted'[home[h]] # h
        BY <1>5, <3>0, <4>1, <4>2
      <4> HIDE DEF After
      <4> QED
        BY <4>1, <4>3, <4>4
    <3> QED
      BY <3>1, <3>2
  <2>5. ASSUME NEW d \in Engines, ender'[d].pc = "cancel"
        PROVE  After(ender'[d].obj, d)
    <3>1. ender[d].obj \in AnyObject /\ Taken(ender[d].obj, d) /\ ender'[d] = ender[d]
      BY <1>3, <2>5 DEF MapInv, Stopping, RTypes, HandlerTypes, Enders
    <3> QED
      BY <2>2, <3>1
  <2> QED
    BY <2>1, <2>4, <2>5 DEF Stopping, Taken
<1>8. HostedIsAlive'
  BY <1>1, <1>3, <1>5 DEF MapInv, HostedIsAlive, Running, RTypes, HandlerTypes, AnyObject
<1>9. NoOrphanLoop'
  <2>1. ASSUME NEW h \in Objects, Running(h)', ~cancelled'[h], loop'[h] \notin {"stop", "cancel"},
               hosted'[home'[h]] # h
        PROVE  BeingStopped(h)'
    <3>1. CASE h = taken
      BY <1>3, <1>5, <3>1 DEF BeingStopped
    <3>2. CASE h # taken
      <4>1. h # g /\ loop'[h] = loop[h] /\ Running(h) /\ ~cancelled[h] /\ hosted[home[h]] # h
        BY <1>1, <1>3, <1>4, <1>5, <2>1, <3>2 DEF MapInv, Origins, Running, taken
      <4>2. BeingStopped(h)
        BY <1>5, <2>1, <4>1 DEF MapInv, NoOrphanLoop
      <4> QED
        BY <1>1, <1>3, <1>5, <4>2 DEF BeingStopped
    <3> QED
      BY <3>1, <3>2
  <2> QED
    BY <2>1 DEF NoOrphanLoop
<1> QED
  BY <1>6, <1>7, <1>8, <1>9 DEF MapInv

\* The loop cancels the handle it took and is gone.
LEMMA LoopCancelMap ==
    ASSUME RTypes, MapInv, NEW g \in Objects, LoopCancel(g)
    PROVE  MapInv'
<1>1. /\ loop[g] = "cancel" /\ hosted[home[g]] # g /\ Taken(victim[g], home[g])
      /\ loop'[g] = "gone" /\ \A h \in Objects : h # g => loop'[h] = loop[h]
      /\ \A h \in Objects : cancelled'[h] <=> cancelled[h] \/ h = victim[g]
      /\ UNCHANGED <<starts, home, starter, worker, hosted, victim, ender>>
  BY DEF LoopCancel, jvars, MapInv, Stopping, RTypes, LoopTypes
<1>2. \A d \in Engines : hosted[d] # NoObject => hosted[d] # g /\ hosted[d] # victim[g]
  BY <1>1 DEF MapInv, HostedIsAlive, Taken
<1>3. Origins'
  BY <1>1 DEF MapInv, Origins
<1>4. Stopping'
  <2>1. \A h \in Objects : cancelled'[h] => loop'[h] # "none"
    BY <1>1 DEF MapInv, Stopping, Taken, Objects, NoObject
  <2> QED
    BY <1>1, <2>1 DEF MapInv, Stopping, Taken, RTypes, LoopTypes, HandlerTypes, AnyObject, Enders
<1>5. HostedIsAlive'
  BY <1>1, <1>2 DEF MapInv, HostedIsAlive, Running, RTypes, HandlerTypes, AnyObject
<1>6. NoOrphanLoop'
  BY <1>1 DEF MapInv, NoOrphanLoop, Running, BeingStopped
<1> QED
  BY <1>3, <1>4, <1>5, <1>6 DEF MapInv

\* ForceEnd up to its Stop leaves the map alone.
LEMMA EnderGoesOn ==
    ASSUME RTypes, MapInv, NEW e \in Engines,
           UNCHANGED <<starts, home, loop, starter, worker, hosted, victim, cancelled>>,
           ender[e].pc # "cancel", ender'[e].pc # "cancel",
           \A d \in Engines : d # e => ender'[d] = ender[d]
    PROVE  MapInv'
<1>1. Origins' /\ HostedIsAlive'
  BY DEF MapInv, Origins, HostedIsAlive, Running
<1>2. Stopping'
  BY DEF MapInv, Stopping, Taken
<1>3. NoOrphanLoop'
  BY DEF MapInv, NoOrphanLoop, Running, BeingStopped
<1> QED
  BY <1>1, <1>2, <1>3 DEF MapInv

\* The Stop of ForceEnd.
LEMMA EnderStopMap ==
    ASSUME RTypes, MapInv, NEW e \in Engines, EnderStop(e)
    PROVE  MapInv'
<1> DEFINE taken == hosted[e]
<1>1. /\ ender[e].pc = "stop"
      /\ ender'[e].pc = "cancel" /\ ender'[e].obj = taken
      /\ \A d \in Engines : d # e => ender'[d] = ender[d] /\ hosted'[d] = hosted[d]
      /\ hosted'[e] = NoObject
      /\ UNCHANGED <<starts, home, loop, starter, worker, victim, cancelled>>
  BY DEF EnderStop, jvars, mvars, RTypes, HandlerTypes
<1>2. taken # NoObject => taken \in Objects /\ Running(taken) /\ home[taken] = e /\ ~cancelled[taken]
  BY DEF MapInv, HostedIsAlive, RTypes, HandlerTypes, AnyObject
<1> HIDE DEF taken
<1>3. Origins'
  BY <1>1 DEF MapInv, Origins
<1>4. Stopping'
  <2> DEFINE After(h, d) == h # NoObject => loop'[h] # "none" /\ home'[h] = d /\ hosted'[d] # h
  <2>1. ASSUME NEW h \in AnyObject, NEW d \in Engines, Taken(h, d)
        PROVE  After(h, d)
    BY <1>1, <2>1 DEF Taken
  <2>2. After(taken, e)
    BY <1>1, <1>2 DEF Running
  <2>3. \A h \in Objects : cancelled'[h] => loop'[h] # "none"
    BY <1>1 DEF MapInv, Stopping
  <2>4. ASSUME NEW h \in Objects, loop'[h] = "cancel"
        PROVE  hosted'[home'[h]] # h /\ After(victim'[h], home'[h])
    <3>1. loop[h] = "cancel" /\ home[h] \in Engines /\ victim[h] \in AnyObject /\ h # NoObject
      BY <1>1, <2>4 DEF MapInv, Origins, RTypes, LoopTypes, Objects, NoObject
    <3>2. hosted[home[h]] # h /\ Taken(victim[h], home[h])
      BY <3>1 DEF MapInv, Stopping
    <3>3. After(victim[h], home[h])
      BY <2>1, <3>1, <3>2
    <3>4. hosted'[home[h]] # h
      BY <1>1, <3>1, <3>2
    <3> HIDE DEF After
    <3> QED
      BY <1>1, <3>3, <3>4
  <2>5. ASSUME NEW d \in Engines, ender'[d].pc = "cancel"
        PROVE  After(ender'[d].obj, d)
    <3>1. CASE d = e
      BY <1>1, <2>2, <3>1
    <3>2. CASE d # e
      <4>1. ender[d].obj \in AnyObject /\ Taken(ender[d].obj, d) /\ ender'[d] = ender[d]
        BY <1>1, <2>5, <3>2 DEF MapInv, Stopping, RTypes, HandlerTypes, Enders
      <4> QED
        BY <2>1, <4>1
    <3> QED
      BY <3>1, <3>2
  <2> QED
    BY <2>3, <2>4, <2>5 DEF Stopping, Taken
<1>5. HostedIsAlive'
  BY <1>1 DEF MapInv, HostedIsAlive, Running
<1>6. NoOrphanLoop'
  <2>1. ASSUME NEW h \in Objects, Running(h)', ~cancelled'[h], loop'[h] \notin {"stop", "cancel"},
               hosted'[home'[h]] # h
        PROVE  BeingStopped(h)'
    <3>1. CASE h = taken
      BY <1>1, <3>1 DEF BeingStopped
    <3>2. CASE h # taken
      <4>1. Running(h) /\ ~cancelled[h] /\ hosted[home[h]] # h
        BY <1>1, <2>1, <3>2 DEF MapInv, Origins, Running, taken
      <4>2. BeingStopped(h)
        BY <1>1, <2>1, <4>1 DEF MapInv, NoOrphanLoop
      <4> QED
        BY <1>1, <4>2 DEF BeingStopped
    <3> QED
      BY <3>1, <3>2
  <2> QED
    BY <2>1 DEF NoOrphanLoop
<1> QED
  BY <1>3, <1>4, <1>5, <1>6 DEF MapInv

LEMMA EnderCancelMap ==
    ASSUME RTypes, MapInv, NEW e \in Engines, EnderCancel(e)
    PROVE  MapInv'
<1> DEFINE taken == ender[e].obj
<1>1. /\ ender[e].pc = "cancel" /\ Taken(taken, e)
      /\ ender'[e].pc = "idle" /\ \A d \in Engines : d # e => ender'[d] = ender[d]
      /\ \A h \in Objects : cancelled'[h] <=> cancelled[h] \/ h = taken
      /\ UNCHANGED <<starts, home, loop, starter, worker, hosted, victim>>
  BY DEF EnderCancel, IdleEnder, jvars, MapInv, Stopping, RTypes, HandlerTypes, LoopTypes
<1>2. \A d \in Engines : hosted[d] # NoObject => hosted[d] # taken
  BY <1>1 DEF MapInv, HostedIsAlive, Taken
<1>3. Origins'
  BY <1>1 DEF MapInv, Origins
<1>4. Stopping'
  <2>1. \A h \in Objects : cancelled'[h] => loop'[h] # "none"
    BY <1>1 DEF MapInv, Stopping, Taken, Objects, NoObject
  <2> QED
    BY <1>1, <2>1 DEF MapInv, Stopping, Taken
<1>5. HostedIsAlive'
  BY <1>1, <1>2 DEF MapInv, HostedIsAlive, Running, RTypes, HandlerTypes, AnyObject
<1>6. NoOrphanLoop'
  BY <1>1 DEF MapInv, NoOrphanLoop, Running, BeingStopped
<1> QED
  BY <1>3, <1>4, <1>5, <1>6 DEF MapInv

\* A crash takes the loops of its engine with the map; what stays belongs to
\* other engines.
LEMMA CrashMap ==
    ASSUME RTypes, MapInv, NEW e \in Engines, Crash(e)
    PROVE  MapInv'
<1>1. /\ \A g \in Objects : loop'[g] = IF home[g] = e /\ Running(g) THEN "gone" ELSE loop[g]
      /\ hosted'[e] = NoObject /\ starter'[e].pc = "idle" /\ worker'[e].pc = "idle"
      /\ ender'[e].pc = "idle"
      /\ \A d \in Engines : d # e => /\ hosted'[d] = hosted[d] /\ starter'[d] = starter[d]
                                     /\ worker'[d] = worker[d] /\ ender'[d] = ender[d]
      /\ UNCHANGED <<starts, home, victim, cancelled>>
  BY DEF Crash, IdleStarter, IdleWorker, IdleEnder, RTypes, HandlerTypes
<1>2. \A g \in Objects : /\ loop'[g] = "none" <=> loop[g] = "none"
                         /\ loop'[g] # "gone" => loop'[g] = loop[g] /\ ~(home[g] = e /\ Running(g))
  BY <1>1 DEF Running
<1>3. Origins'
  BY <1>1, <1>2 DEF MapInv, Origins
<1>4. Stopping'
  <2>1. \A h \in Objects : cancelled'[h] => loop'[h] # "none"
    BY <1>1, <1>2 DEF MapInv, Stopping
  <2>2. ASSUME NEW h \in Objects, loop'[h] = "cancel"
        PROVE  /\ hosted'[home'[h]] # h
               /\ victim'[h] # NoObject => /\ loop'[victim'[h]] # "none" /\ home'[victim'[h]] = home'[h]
                                           /\ hosted'[home'[h]] # victim'[h]
    BY <1>1, <1>2, <2>2 DEF MapInv, Origins, Stopping, Taken, RTypes, LoopTypes, AnyObject, Objects, NoObject
  <2>3. ASSUME NEW d \in Engines, ender'[d].pc = "cancel"
        PROVE  ender'[d].obj # NoObject => /\ loop'[ender'[d].obj] # "none" /\ home'[ender'[d].obj] = d
                                           /\ hosted'[d] # ender'[d].obj
    BY <1>1, <1>2, <2>3 DEF MapInv, Stopping, Taken, RTypes, HandlerTypes, Enders, AnyObject
  <2> QED
    BY <2>1, <2>2, <2>3 DEF Stopping, Taken
<1>5. HostedIsAlive'
  BY <1>1, <1>2 DEF MapInv, HostedIsAlive, Running, RTypes, HandlerTypes, AnyObject
<1>6. NoOrphanLoop'
  <2>1. ASSUME NEW h \in Objects, Running(h)'
        PROVE  \/ hosted'[home'[h]] = h
               \/ loop'[h] \in {"stop", "cancel"}
               \/ cancelled'[h]
               \/ BeingStopped(h)'
    <3>1. loop'[h] = loop[h] /\ Running(h) /\ home[h] \in Engines /\ home[h] # e
      BY <1>1, <1>2, <2>1 DEF Running, MapInv, Origins
    <3>2. BeingStopped(h) => BeingStopped(h)'
      <4>1. ASSUME NEW g \in Objects, loop[g] = "cancel", victim[g] = h
            PROVE  loop'[g] = "cancel"
        BY <1>1, <3>1, <4>1 DEF MapInv, Stopping, Taken, Objects, NoObject
      <4>2. ASSUME NEW d \in Engines, ender[d].pc = "cancel", ender[d].obj = h
            PROVE  ender'[d] = ender[d]
        BY <1>1, <3>1, <4>2 DEF MapInv, Stopping, Taken, Objects, NoObject
      <4> QED
        BY <1>1, <4>1, <4>2 DEF BeingStopped
    <3> QED
      BY <1>1, <3>1, <3>2 DEF MapInv, NoOrphanLoop
  <2> QED
    BY <2>1 DEF NoOrphanLoop
<1> QED
  BY <1>3, <1>4, <1>5, <1>6 DEF MapInv

\* Every step keeps the map and the goroutines in agreement.
LEMMA MapStep == RTypes /\ MapInv /\ [RNext]_rvars => MapInv'
<1> SUFFICES ASSUME RTypes, MapInv, [RNext]_rvars PROVE MapInv'
  OBVIOUS
<1> USE DEF mvars, jvars, hvars
<1>1. CASE StartPublished \/ RedeliverStart \/ UNCHANGED rvars
  BY <1>1, HandlersGoOn DEF StartPublished, RedeliverStart, rvars
<1>2. ASSUME NEW c \in Cmds, PublishCommand(c) PROVE MapInv'
  BY <1>2, HandlersGoOn DEF PublishCommand
<1>3. ASSUME NEW e \in Engines, StartStep(e) PROVE MapInv'
  <2>1. CASE FinishStart(e)
    BY <2>1, HandlersGoOn DEF FinishStart, IdleStarter, RTypes, HandlerTypes
  <2> QED
    BY <1>3, <2>1, DeliverStartMap, EnsureMatchMap DEF StartStep
<1>4. ASSUME NEW e \in Engines, WorkerStep(e) PROVE MapInv'
  <2>1. ASSUME NEW c \in Cmds, SubmitLookup(e, c) PROVE MapInv'
    BY <2>1, HandlersGoOn DEF SubmitLookup, RTypes, HandlerTypes
  <2>2. CASE SubmitSend(e)
    BY <2>2, HandlersGoOn DEF SubmitSend, IdleWorker, RTypes, HandlerTypes
  <2>3. CASE SubmitFull(e)
    BY <2>3, HandlersGoOn DEF SubmitFull, IdleWorker, RTypes, HandlerTypes
  <2> QED
    BY <1>4, <2>1, <2>2, <2>3 DEF WorkerStep
<1>5. ASSUME NEW e \in Engines, EnderStep(e) PROVE MapInv'
  <2>1. CASE EnderPublishFinal(e)
    <3>1. ender[e].pc = "publish" /\ ender'[e].pc = "stop" /\ \A d \in Engines : d # e => ender'[d] = ender[d]
      BY <2>1 DEF EnderPublishFinal, RTypes, HandlerTypes, Enders
    <3> QED
      BY <2>1, <3>1, EnderGoesOn DEF EnderPublishFinal
  <2> QED
    BY <1>5, <2>1, EnderStopMap, EnderCancelMap DEF EnderStep
<1>6. ASSUME NEW e \in Engines, ForceEnd(e) PROVE MapInv'
  BY <1>6, EnderGoesOn DEF ForceEnd, RTypes, HandlerTypes
<1>7. ASSUME NEW e \in Engines, Rebroadcast(e) PROVE MapInv'
  BY <1>7, HandlersGoOn DEF Rebroadcast
<1>8. ASSUME NEW e \in Engines, Crash(e) PROVE MapInv'
  BY <1>8, CrashMap
<1>9. ASSUME NEW g \in Objects, LoopStep(g) PROVE MapInv'
  <2>1. CASE LoopCommand(g)
    <3>1. CASE loop' = loop
      BY <2>1, <3>1, HandlersGoOn DEF LoopCommand
    <3>2. CASE loop' = [loop EXCEPT ![g] = "check"]
      BY <2>1, <3>2, LoopGoesOn DEF LoopCommand
    <3> QED
      BY <2>1, <3>1, <3>2 DEF LoopCommand
  <2>2. CASE LoopTick(g)
    BY <2>2, LoopGoesOn DEF LoopTick
  <2>3. CASE LoopResync(g)
    BY <2>3, LoopGoesOn DEF LoopResync
  <2>4. CASE LoopCheck(g)
    <3>1. CASE loop' = [loop EXCEPT ![g] = "publish"]
      BY <2>4, <3>1, LoopGoesOn DEF LoopCheck
    <3>2. CASE loop' = [loop EXCEPT ![g] = "select"]
      BY <2>4, <3>2, LoopGoesOn DEF LoopCheck
    <3> QED
      BY <2>4, <3>1, <3>2 DEF LoopCheck
  <2>5. CASE LoopPublishFinal(g)
    BY <2>5, LoopGoesOn DEF LoopPublishFinal
  <2> QED
    BY <1>9, <2>1, <2>2, <2>3, <2>4, <2>5, LoopDoneMap, LoopStopMap, LoopCancelMap DEF LoopStep
<1> QED
  BY <1>1, <1>2, <1>3, <1>4, <1>5, <1>6, <1>7, <1>8, <1>9 DEF RNext

------------------------------------------------------------------------------
(* The ways out, and the commands. *)

\* Once a final snapshot is out, the rest follows.
LEMMA FinalIsOut ==
    ASSUME finals' > 0
    PROVE  OutInv'
BY DEF OutInv, PublishedFirst, GoneOnlyAfterFinal, AckedNotLost

\* A step that takes no command off a channel, acknowledges none, and lets no
\* goroutine come nearer to its end than it was.
LEMMA NobodyLeaves ==
    ASSUME OutInv,
           UNCHANGED <<cancelled, queue, finals, applied, refused, crashes>>,
           \A g \in Objects : /\ loop'[g] \in {"stop", "cancel"} => loop[g] \in {"stop", "cancel"}
                              /\ loop'[g] = "gone" => loop[g] = "gone"
                              /\ Running(g) => Running(g)',
           \A e \in Engines : ender'[e].pc \in {"stop", "cancel"} => ender[e].pc \in {"stop", "cancel"},
           \A c \in Cmds : cmdMsg'[c] = "acked" => cmdMsg[c] = "acked"
    PROVE  OutInv'
<1>1. PublishedFirst' /\ GoneOnlyAfterFinal'
  BY DEF OutInv, PublishedFirst, GoneOnlyAfterFinal
<1>2. AckedNotLost'
  BY DEF OutInv, AckedNotLost
<1> QED
  BY <1>1, <1>2 DEF OutInv

\* A channel that a command is put on belongs to a loop that runs, or has left
\* as a match leaves.
LEMMA SubmitSendOut ==
    ASSUME RTypes, MapInv, OutInv, NEW e \in Engines, SubmitSend(e)
    PROVE  OutInv'
<1> DEFINE g == worker[e].obj
           c == worker[e].cmd
<1>1. /\ g \in Objects /\ c \in Cmds /\ loop[g] # "none"
      /\ queue' = [queue EXCEPT ![g] = Append(queue[g], c)]
      /\ \A d \in Cmds : d # c => cmdMsg'[d] = cmdMsg[d]
      /\ UNCHANGED <<loop, cancelled, ender, crashes, finals, applied, refused>>
  BY DEF SubmitSend, hvars, MapInv, Origins, RTypes, MessageTypes
<1> HIDE DEF g, c
<1>2. PublishedFirst' /\ GoneOnlyAfterFinal'
  BY <1>1 DEF OutInv, PublishedFirst, GoneOnlyAfterFinal
<1>3. /\ queue'[g] = Append(queue[g], c) /\ Len(queue[g]) \in Nat
      /\ Len(queue'[g]) = Len(queue[g]) + 1
      /\ queue'[g][Len(queue[g]) + 1] = c
      /\ \A i \in 1..Len(queue[g]) : queue'[g][i] = queue[g][i]
      /\ \A h \in Objects : h # g => queue'[h] = queue[h]
  BY <1>1 DEF RTypes, QueueTypes
<1>4. CASE Running(g)
  <2>1. ASSUME NEW d \in Cmds, NEW h \in Objects, NEW i \in 1..Len(queue[h]), queue[h][i] = d
        PROVE  i \in 1..Len(queue'[h]) /\ queue'[h][i] = d
    BY <1>3, <2>1
  <2>2. Len(queue[g]) + 1 \in 1..Len(queue'[g])
    BY <1>3
  <2>3. ASSUME NEW d \in Cmds, cmdMsg'[d] = "acked"
        PROVE  \/ applied'[d] > 0 \/ d \in refused'
               \/ \E h \in Objects : Running(h)' /\ \E i \in 1..Len(queue'[h]) : queue'[h][i] = d
               \/ finals' > 0 \/ crashes' > 0
    <3>1. CASE d = c
      BY <1>1, <1>3, <1>4, <2>2, <3>1 DEF Running
    <3>2. CASE d # c
      BY <1>1, <2>1, <2>3, <3>2 DEF OutInv, AckedNotLost, Running
    <3> QED
      BY <3>1, <3>2
  <2> QED
    BY <1>2, <2>3 DEF OutInv, AckedNotLost
<1>5. CASE ~Running(g)
  <2>1. finals' > 0 \/ crashes' > 0
    BY <1>1, <1>5 DEF OutInv, GoneOnlyAfterFinal, Running, RTypes, MessageTypes
  <2> QED
    BY <1>2, <2>1 DEF OutInv, AckedNotLost
<1> QED
  BY <1>4, <1>5

\* The loop takes the first command, applies or refuses it, and leaves the others
\* on the channel.
LEMMA LoopCommandOut ==
    ASSUME RTypes, OutInv, NEW g \in Objects, LoopCommand(g)
    PROVE  OutInv'
<1> DEFINE c == Head(queue[g])
<1>1. /\ loop[g] = "select" /\ queue[g] # <<>>
      /\ queue' = [queue EXCEPT ![g] = Tail(queue[g])]
      /\ UNCHANGED <<cmdMsg, cancelled, ender, crashes, finals>>
      /\ loop' = loop \/ loop' = [loop EXCEPT ![g] = "check"]
      /\ \/ refused' = refused \cup {c} /\ applied' = applied
         \/ refused' = refused /\ applied' = [applied EXCEPT ![c] = @ + 1]
  BY DEF LoopCommand, jvars
<1>2. /\ c = queue[g][1] /\ c \in Cmds /\ Len(queue[g]) \in Nat
      /\ Len(Tail(queue[g])) = Len(queue[g]) - 1
      /\ \A i \in 1..Len(Tail(queue[g])) : Tail(queue[g])[i] = queue[g][i + 1]
  BY <1>1 DEF RTypes, QueueTypes
<1> HIDE DEF c
<1>3. /\ loop'[g] \in {"select", "check"} /\ \A h \in Objects : h # g => loop'[h] = loop[h]
      /\ queue'[g] = Tail(queue[g]) /\ \A h \in Objects : h # g => queue'[h] = queue[h]
  BY <1>1 DEF RTypes, LoopTypes, QueueTypes
<1>4. PublishedFirst' /\ GoneOnlyAfterFinal'
  BY <1>1, <1>3 DEF OutInv, PublishedFirst, GoneOnlyAfterFinal
<1>5. /\ \A d \in Cmds : applied[d] > 0 => applied'[d] > 0
      /\ refused \subseteq refused'
      /\ applied'[c] > 0 \/ c \in refused'
  <2>1. CASE refused' = refused \cup {c} /\ applied' = applied
    BY <2>1
  <2>2. CASE refused' = refused /\ applied' = [applied EXCEPT ![c] = @ + 1]
    BY <1>2, <2>2 DEF RTypes, MessageTypes
  <2> QED
    BY <1>1, <2>1, <2>2
<1>6. ASSUME NEW d \in Cmds, d # c, NEW h \in Objects, NEW i \in 1..Len(queue[h]),
             Running(h), queue[h][i] = d
      PROVE  Running(h)' /\ \E j \in 1..Len(queue'[h]) : queue'[h][j] = d
  <2>1. CASE h # g
    BY <1>3, <1>6, <2>1 DEF Running
  <2>2. CASE h = g
    <3>1. i # 1
      BY <1>2, <1>6, <2>2
    <3>2. i - 1 \in 1..Len(Tail(queue[g])) /\ (i - 1) + 1 = i
      BY <1>2, <2>2, <3>1
    <3>3. queue'[h][i - 1] = d
      BY <1>2, <1>3, <1>6, <2>2, <3>2
    <3> QED
      BY <1>3, <2>2, <3>2, <3>3 DEF Running
  <2> QED
    BY <2>1, <2>2
<1>7. ASSUME NEW d \in Cmds, cmdMsg'[d] = "acked"
      PROVE  \/ applied'[d] > 0 \/ d \in refused'
             \/ \E h \in Objects : Running(h)' /\ \E i \in 1..Len(queue'[h]) : queue'[h][i] = d
             \/ finals' > 0 \/ crashes' > 0
  <2>1. CASE d = c
    BY <1>5, <2>1
  <2>2. CASE d # c
    <3>1. \/ applied[d] > 0 \/ d \in refused \/ finals > 0 \/ crashes > 0
          \/ \E h \in Objects : Running(h) /\ \E i \in 1..Len(queue[h]) : queue[h][i] = d
      BY <1>1, <1>7 DEF OutInv, AckedNotLost
    <3>2. CASE applied[d] > 0 \/ d \in refused \/ finals > 0 \/ crashes > 0
      BY <1>1, <1>5, <3>2
    <3>3. CASE \E h \in Objects : Running(h) /\ \E i \in 1..Len(queue[h]) : queue[h][i] = d
      <4>1. PICK h \in Objects : Running(h) /\ \E i \in 1..Len(queue[h]) : queue[h][i] = d
        BY <3>3
      <4>2. Running(h)' /\ \E j \in 1..Len(queue'[h]) : queue'[h][j] = d
        BY <1>6, <2>2, <4>1
      <4> QED
        BY <4>2
    <3> QED
      BY <3>1, <3>2, <3>3
  <2> QED
    BY <2>1, <2>2
<1> QED
  BY <1>4, <1>7 DEF OutInv, AckedNotLost

\* A loop that leaves on a cancelled context leaves after the final snapshot.
LEMMA LoopDoneOut ==
    ASSUME RTypes, OutInv, NEW g \in Objects, LoopDone(g)
    PROVE  OutInv'
<1>1. /\ cancelled[g] /\ loop'[g] = "gone" /\ \A h \in Objects : h # g => loop'[h] = loop[h]
      /\ UNCHANGED <<cmdMsg, queue, cancelled, ender, crashes, finals, applied, refused>>
  BY DEF LoopDone, jvars, hvars, RTypes, LoopTypes
<1>2. finals > 0 \/ crashes > 0
  BY <1>1 DEF OutInv, GoneOnlyAfterFinal, RTypes, MessageTypes
<1>3. PublishedFirst' /\ GoneOnlyAfterFinal'
  BY <1>1, <1>2 DEF OutInv, PublishedFirst, GoneOnlyAfterFinal
<1>4. AckedNotLost'
  BY <1>1, <1>2 DEF AckedNotLost
<1> QED
  BY <1>3, <1>4 DEF OutInv

LEMMA CrashOut ==
    ASSUME RTypes, OutInv, NEW e \in Engines, Crash(e)
    PROVE  OutInv'
<1>1. crashes' > 0 /\ finals' = finals
  <2>1. crashes \in Nat
    BY RunnerAssumption DEF RTypes, MessageTypes
  <2>2. crashes' = crashes + 1 /\ finals' = finals
    BY DEF Crash, hvars
  <2> QED
    BY <2>1, <2>2
<1>2. /\ \A g \in Objects : loop'[g] \in {loop[g], "gone"}
      /\ \A d \in Engines : ender'[d].pc \in {ender[d].pc, "idle"}
  BY DEF Crash, IdleEnder, RTypes, HandlerTypes
<1> QED
  BY <1>1, <1>2 DEF OutInv, PublishedFirst, GoneOnlyAfterFinal, AckedNotLost

\* Every step keeps what is known of the ways out and of the commands.
LEMMA OutStep == RTypes /\ MapInv /\ OutInv /\ [RNext]_rvars => OutInv'
<1> SUFFICES ASSUME RTypes, MapInv, OutInv, [RNext]_rvars PROVE OutInv'
  OBVIOUS
<1> USE DEF mvars, jvars, hvars
<1>1. CASE StartPublished \/ RedeliverStart \/ UNCHANGED rvars
  BY <1>1, NobodyLeaves DEF StartPublished, RedeliverStart, rvars, Running
<1>2. ASSUME NEW c \in Cmds, PublishCommand(c) PROVE OutInv'
  <2>1. \A d \in Cmds : cmdMsg'[d] = "acked" => cmdMsg[d] = "acked"
    BY <1>2 DEF PublishCommand, RTypes, MessageTypes
  <2> QED
    BY <1>2, <2>1, NobodyLeaves DEF PublishCommand, Running
<1>3. ASSUME NEW e \in Engines, StartStep(e) PROVE OutInv'
  <2>1. CASE DeliverStart(e)
    BY <2>1, NobodyLeaves DEF DeliverStart, Running
  <2>2. CASE EnsureMatch(e)
    <3>1. starter[e].obj \in Objects /\ loop[starter[e].obj] = "none"
      BY <2>2 DEF EnsureMatch, MapInv, Origins
    <3>2. \A g \in Objects : loop'[g] = loop[g] \/ (loop[g] = "none" /\ loop'[g] = "select")
      BY <2>2, <3>1 DEF EnsureMatch, RTypes, LoopTypes
    <3> QED
      BY <2>2, <3>2, NobodyLeaves DEF EnsureMatch, Running
  <2>3. CASE FinishStart(e)
    BY <2>3, NobodyLeaves DEF FinishStart, Running
  <2> QED
    BY <1>3, <2>1, <2>2, <2>3 DEF StartStep
<1>4. ASSUME NEW e \in Engines, WorkerStep(e) PROVE OutInv'
  <2>1. ASSUME NEW c \in Cmds, SubmitLookup(e, c) PROVE OutInv'
    <3>1. \A d \in Cmds : cmdMsg'[d] = "acked" => cmdMsg[d] = "acked"
      BY <2>1 DEF SubmitLookup, RTypes, MessageTypes
    <3> QED
      BY <2>1, <3>1, NobodyLeaves DEF SubmitLookup, Running
  <2>2. CASE SubmitFull(e)
    <3>1. \A d \in Cmds : cmdMsg'[d] = "acked" => cmdMsg[d] = "acked"
      BY <2>2 DEF SubmitFull, RTypes, MessageTypes
    <3> QED
      BY <2>2, <3>1, NobodyLeaves DEF SubmitFull, Running
  <2> QED
    BY <1>4, <2>1, <2>2, SubmitSendOut DEF WorkerStep
<1>5. ASSUME NEW e \in Engines, EnderStep(e) PROVE OutInv'
  <2>1. CASE EnderPublishFinal(e)
    BY <2>1, FinalIsOut DEF EnderPublishFinal, RTypes, MessageTypes
  <2>2. ender[e].pc \in {"stop", "cancel"} => finals > 0
    BY DEF OutInv, PublishedFirst
  <2>3. CASE EnderStop(e) \/ EnderCancel(e)
    BY <2>2, <2>3, FinalIsOut DEF EnderStop, EnderCancel
  <2> QED
    BY <1>5, <2>1, <2>3 DEF EnderStep
<1>6. ASSUME NEW e \in Engines, ForceEnd(e) PROVE OutInv'
  <2>1. \A d \in Engines : ender'[d].pc \in {"stop", "cancel"} => ender[d].pc \in {"stop", "cancel"}
    BY <1>6 DEF ForceEnd, RTypes, HandlerTypes
  <2> QED
    BY <1>6, <2>1, NobodyLeaves DEF ForceEnd, Running
<1>7. ASSUME NEW e \in Engines, Rebroadcast(e) PROVE OutInv'
  BY <1>7, NobodyLeaves DEF Rebroadcast, Running
<1>8. ASSUME NEW g \in Objects, LoopStep(g) PROVE OutInv'
  <2>1. CASE LoopTick(g) \/ LoopResync(g) \/ LoopCheck(g)
    <3>1. /\ loop[g] \in {"select", "check"} /\ loop'[g] \in {"select", "check", "publish"}
          /\ \A h \in Objects : h # g => loop'[h] = loop[h]
      BY <2>1 DEF LoopTick, LoopResync, LoopCheck, RTypes, LoopTypes
    <3>2. UNCHANGED <<cancelled, queue, finals, applied, refused, crashes, ender, cmdMsg>>
      BY <2>1 DEF LoopTick, LoopResync, LoopCheck
    <3> QED
      BY <3>1, <3>2, NobodyLeaves DEF Running
  <2>2. CASE LoopPublishFinal(g)
    BY <2>2, FinalIsOut DEF LoopPublishFinal, RTypes, MessageTypes
  <2>3. loop[g] \in {"stop", "cancel"} => finals > 0
    BY DEF OutInv, PublishedFirst
  <2>4. CASE LoopStop(g) \/ LoopCancel(g)
    BY <2>3, <2>4, FinalIsOut DEF LoopStop, LoopCancel
  <2> QED
    BY <1>8, <2>1, <2>2, <2>4, LoopCommandOut, LoopDoneOut DEF LoopStep
<1> QED
  BY <1>1, <1>2, <1>3, <1>4, <1>5, <1>6, <1>7, <1>8, CrashOut DEF RNext

------------------------------------------------------------------------------
\* Before the start of the match is published nothing is hosted or runs.
LEMMA RInitRInv == RInit => RInv
<1> SUFFICES ASSUME RInit PROVE RInv
  OBVIOUS
<1>1. \A g \in Objects : loop[g] = "none" /\ ~cancelled[g] /\ queue[g] = <<>>
  BY DEF RInit
<1>2. RTypes
  BY <1>1, RunnerAssumption DEF RInit, RTypes, MessageTypes, HandlerTypes, LoopTypes, QueueTypes, AnyObject,
     Starters, Workers, Enders, LoopStages, IdleStarter, IdleWorker, IdleEnder
<1>3. MapInv
  BY <1>1 DEF RInit, MapInv, Origins, Stopping, HostedIsAlive, NoOrphanLoop, Running, IdleStarter,
     IdleWorker, IdleEnder
<1>4. OutInv
  BY <1>1 DEF RInit, OutInv, PublishedFirst, GoneOnlyAfterFinal, AckedNotLost, IdleEnder
<1> QED
  BY <1>2, <1>3, <1>4 DEF RInv

\* The invariant holds of every state the engines reach.
THEOREM EngineInvariant == RSpec => []RInv
<1>1. RInv /\ [RNext]_rvars => RInv'
  BY TypesStep, MapStep, OutStep DEF RInv, MapInv
<1> QED
  BY <1>1, RInitRInv, PTL DEF RSpec

\* The variables of the engine runner keep their types.
THEOREM EngineRTypeOK == RSpec => []RTypeOK
<1>1. RInv => RTypeOK
  BY DEF RInv, RTypes, MessageTypes, HandlerTypes, LoopTypes, QueueTypes, AnyObject, LoopStages, RTypeOK
<1> QED
  BY <1>1, EngineInvariant, PTL

\* runner.go:58-76, 145-156: whatever starts are delivered again and whatever is
\* being stopped, what an engine hosts is a running, uncancelled loop of its own.
THEOREM EngineHostedIsAlive == RSpec => []HostedIsAlive
<1>1. RInv => HostedIsAlive
  BY DEF RInv, MapInv
<1> QED
  BY <1>1, EngineInvariant, PTL

\* runner.go:145-156: Stop works by match id, yet no running loop is forgotten.
THEOREM EngineNoOrphanLoop == RSpec => []NoOrphanLoop
<1>1. RInv => NoOrphanLoop
  BY DEF RInv, MapInv
<1> QED
  BY <1>1, EngineInvariant, PTL

\* runner.go:130-141, 193-197: without a crash nothing of the match ends or is
\* cancelled before a final snapshot is published.
THEOREM EngineGoneOnlyAfterFinal == RSpec => []GoneOnlyAfterFinal
<1>1. RInv => GoneOnlyAfterFinal
  BY DEF RInv, OutInv
<1> QED
  BY <1>1, EngineInvariant, PTL

\* runner.go:77-93: an acknowledged command reached the loop or waits in the
\* channel of a running one, unless the match ended or an engine crashed.
THEOREM EngineAckedNotLost == RSpec => []AckedNotLost
<1>1. RInv => AckedNotLost
  BY DEF RInv, OutInv
<1> QED
  BY <1>1, EngineInvariant, PTL

==============================================================================

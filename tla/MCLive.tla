-------------------------------- MODULE MCLive --------------------------------
(***************************************************************************)
(* What must eventually happen to a match, for TLC: in its loop, and to    *)
(* its row in the lobby.  The two share no state, so in a behaviour one of *)
(* them moves and the other rests.                                         *)
(***************************************************************************)
EXTENDS MCEngineRunner, MCMatchLobby

VARIABLE moving

liveVars == <<moving, rvars, lobbyVars>>

LiveInit == moving \in {"loop", "lobby"} /\ RInit /\ LInit

Loop(A) == moving = "loop" /\ A /\ UNCHANGED <<moving, lobbyVars>>
Lobby(A) == moving = "lobby" /\ A /\ UNCHANGED <<moving, rvars>>

\* Bounds.  Nothing tells the two commands apart: the first is published first.
\* A crash leaves nothing to end: one of a crash and a ForceEnd.
LoopBounds ==
    /\ cmdMsg'[c2] # "unsent" => cmdMsg'[c1] # "unsent"
    /\ ends' + crashes' <= 1

\* The second human joins, asks for nothing else and is not kicked; without bot
\* accounts none is asked for; a handoff is asked for as such, not by leaving.
LobbyBounds ==
    \A h \in Handlers :
        /\ req'[h].user = u2 => req'[h].at \in {"joinList", "joinAdd"}
        /\ req'[h].at \notin {"patchList", "handoffGet"}

LiveNext == Loop(RNext /\ LoopBounds) \/ Lobby(LNext /\ LobbyBounds)

\* Fairness of EngineRunner and LFairSpec of MatchLobby, for one engine, one
\* object, one request.  As `moving` never changes, conditions of the two can be
\* stated as one.
LiveFairness ==
    /\ WF_liveVars(Loop(EnderStep(e1)) \/ Lobby(Statement(h1)))
    /\ WF_liveVars(Loop(SubmitSend(e1) \/ SubmitFull(e1)) \/ Lobby(TakeoverScan))
    /\ WF_liveVars(Lobby(Host)) /\ WF_liveVars(Lobby(EndHosted)) /\ WF_liveVars(Lobby(AbandonList))
    /\ SF_liveVars(Loop(SubmitLookup(e1, c1)) \/ Lobby(TakeoverFlip))
    /\ SF_liveVars(Loop(SubmitLookup(e1, c2)) \/ Lobby(AbandonCheck))
    /\ \A g \in Objects :
          /\ SF_liveVars(Loop(LoopTick(g)) \/ Lobby(MarkAbandoned))
          /\ SF_liveVars(Loop(LoopDone(g)) \/ Lobby(PublishEndMatch))
          /\ SF_liveVars(Loop(LoopCommand(g)))
          /\ WF_liveVars(Loop(LoopCheck(g) \/ LoopPublishFinal(g) \/ LoopStop(g) \/ LoopCancel(g)))

LiveSpec == LiveInit /\ [][LiveNext]_liveVars /\ LiveFairness

==============================================================================

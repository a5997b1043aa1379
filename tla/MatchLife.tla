------------------------------- MODULE MatchLife -------------------------------
(***************************************************************************)
(* What core-api and the workers promise together about one match row and  *)
(* the start message the engine acts on: the row is claimed once, launched *)
(* once, finished once, and the start is announced at most once and never  *)
(* before the row says the match runs.  MatchLobby is shown to implement   *)
(* it with "none" and "waiting" as open, "ended" and "abandoned" as over.  *)
(***************************************************************************)
VARIABLES
    phase,      \* "open", "launching", "running" or "over"
    announced   \* the start message has been published

LifeInit == phase = "open" /\ announced = FALSE

\* One caller wins the right to launch the match.
Claim == phase = "open" /\ phase' = "launching" /\ UNCHANGED announced

Launch == phase = "launching" /\ phase' = "running" /\ UNCHANGED announced

\* The winner may be slow: the match can be over when it announces the start.
Announce ==
    /\ phase \in {"running", "over"} /\ ~announced
    /\ announced' = TRUE
    /\ UNCHANGED phase

Finish == phase = "running" /\ phase' = "over" /\ UNCHANGED announced

LifeNext == Claim \/ Launch \/ Announce \/ Finish

lifeVars == <<phase, announced>>

LifeSpec == LifeInit /\ [][LifeNext]_lifeVars

================================================================================

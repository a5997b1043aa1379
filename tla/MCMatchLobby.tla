----------------------------- MODULE MCMatchLobby -----------------------------
(***************************************************************************)
(* Instances of MatchLobby for TLC.                                        *)
(***************************************************************************)
EXTENDS MatchLobby

CONSTANTS h1, h2, u1, u2

OneHandler == {h1}
TwoHandlers == {h1, h2}
OneHuman == {u1}
TwoHumans == {u1, u2}
TwoSlots == {1, 2}

===============================================================================

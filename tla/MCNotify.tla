------------------------------- MODULE MCNotify -------------------------------
(***************************************************************************)
(* The notifications of a match of three, a human and two bots of the      *)
(* pool: as many as a batch has room for.                                  *)
(***************************************************************************)
EXTENDS Notify, TLC

SlotsOfMatch == {1, 2, 3}
OneHumanTwoBots == 1 :> "ann" @@ 2 :> "bot" @@ 3 :> "eve"

==============================================================================

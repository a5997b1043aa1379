---------------------------- MODULE MCEngineRunner ----------------------------
(***************************************************************************)
(* Instances of EngineRunner for TLC.                                      *)
(***************************************************************************)
EXTENDS EngineRunner

CONSTANTS e1, e2, c1, c2

OneEngine == {e1}
OneCmd == {c1}
TwoCmds == {c1, c2}

==============================================================================

---------------------------- MODULE MCNoOsBoard -----------------------------
(* NoOsBoard for TLC.                                                      *)
EXTENDS NoOsBoard

MCTimes == {0, 1, 3}
=============================================================================

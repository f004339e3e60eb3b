---------------------------- MODULE MCSppCounter ----------------------------
(* SppCounter for TLC.                                                     *)
EXTENDS SppCounter
=============================================================================

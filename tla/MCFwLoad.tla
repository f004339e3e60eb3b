------------------------------ MODULE MCFwLoad ------------------------------
(* FwLoad for TLC: an image of two full chunks and a short one.            *)
EXTENDS FwLoad

MCFwSize == 2 * ACL_MPS + 10

Answers == [EVT |-> {}, ACLO |-> {"DONE", "STALL", "ERROR", "NAK"}, ACLI |-> {}]
=============================================================================

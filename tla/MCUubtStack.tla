---------------------------- MODULE MCUubtStack ----------------------------
(* Environments of UubtStack for TLC.                                      *)
EXTENDS UubtStack

(* The sizes the stack builds at the limits config.h sets.                 *)
MCSizes == [COMMAND |-> {3, 258}, ACL |-> {5, 56}]
OneSize == [COMMAND |-> {258}, ACL |-> {56}]

(* A dongle that never halts an endpoint.                                  *)
NoStall == [EVT |-> {"DONE", "NAK"}, ACLO |-> {"DONE", "ERROR", "NAK"}, ACLI |-> {"DONE"}]

(* One that halts none but ACL-out.                                        *)
AcloHalts == [EVT |-> {"DONE", "NAK", "ERROR"}, ACLO |-> {"DONE", "STALL", "ERROR", "NAK"},
              ACLI |-> {"DONE"}]

(* One that may end any transfer in any way the driver tells apart.        *)
AnyAnswer == [EVT  |-> {"DONE", "STALL", "NAK"},
              ACLO |-> {"DONE", "STALL", "ERROR", "NAK"},
              ACLI |-> {"DONE", "STALL"}]
=============================================================================

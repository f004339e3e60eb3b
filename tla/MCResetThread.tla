---------------------------- MODULE MCResetThread ----------------------------
(* ResetThread for TLC: the sleeps of the code in ticks of 10 ms, and one  *)
(* tick for the 10 ms the library's port reset is taken to last.           *)
EXTENDS ResetThread

MCVbusDelay == MS2ST(200)
MCResetDelay == MS2ST(200)
MCPulseDelay == MS2ST(10)
MCEnumDelay == MS2ST(500)
=============================================================================

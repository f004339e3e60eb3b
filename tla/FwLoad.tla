------------------------------- MODULE FwLoad -------------------------------
(***************************************************************************)
(* usbh_bt_core.c built with INCLUDE_FIRMWARE: USBH_BT_StMachine while     *)
(* BT_State.loading_fw is not 0.  An Atheros AR3011 dongle first gets a    *)
(* DFU download command over the control pipe, then the firmware image     *)
(* over its ACL-out endpoint, ACL_MPS bytes at a time, in a while(1) loop  *)
(* that does not return to USBH_Process before the image is out.           *)
(*                                                                         *)
(* pc: loop  outside USBH_BT_StMachine                                     *)
(*     top   at the head of the while(1) body                              *)
(*     poll  about to call usb_bt_aclo_process(ath3k_fw_data + fw_offset)  *)
(*                                                                         *)
(* n is declared inside the body and assigned only when a chunk starts, so *)
(* its value is undefined in the pass that sees the chunk end.  The build  *)
(* is at -O0, where it keeps its stack slot, and so its value.             *)
(*                                                                         *)
(* A definition whose name has _Wrong in it is no part of the model: it is *)
(* a plausible mistake in the definition that follows it, kept to show     *)
(* that a property would notice.                                           *)
(***************************************************************************)
EXTENDS HostLib, Sequences

CONSTANT FwSize (* sizeof(ath3k_fw_data)                                 *)

ACL_MPS == 64

ASSUME FwLoadAssumed == FwSize \in Nat \ {0}

VARIABLES pc, loading_fw, fw_offset, n, cmd_state, aclo_busy, aclo_state, aclo_len,
          chunk,    (* history: what the channel is sending              *)
          taken     (* history: the chunks the device has taken          *)

dlvars == <<fw_offset, n, aclo_busy, aclo_state, aclo_len, chunk>>
fwvars == <<pc, loading_fw, cmd_state, dlvars, taken>>
vars == <<libvars, fwvars>>

(* State of the library that the loader never touches.                     *)
idlevars == <<frame, lag, wire, fresh, wireless>>

Init ==
  /\ HostLibInit
  /\ pc = "loop"
  /\ loading_fw = 0
  /\ fw_offset = 0
  /\ n = 0
  /\ cmd_state = 0
  /\ aclo_busy = 0
  /\ aclo_state = 0
  /\ aclo_len = 0
  /\ chunk = [off |-> 0, len |-> 0]
  /\ taken = <<>>

-----------------------------------------------------------------------------
(* The class callbacks, for an AR3011.                                     *)
FwInterfaceInit ==
  /\ pc = "loop"
  /\ connected
  /\ gState = "HOST_USR_INPUT"
  /\ loading_fw' = 1
  /\ fw_offset' = 0
  /\ cmd_state' = 0
  /\ aclo_busy' = 0
  /\ aclo_state' = 0
  /\ taken' = <<>>
  /\ gState' = "HOST_CLASS"     (* ClassRequest does nothing here        *)
  /\ UNCHANGED <<pc, n, aclo_len, chunk, idlevars, connected, RequestState,
                 ControlState, setup, ControlBuff, urb>>

FwInterfaceDeInit ==
  /\ pc = "loop"
  /\ ~connected
  /\ gState # "HOST_IDLE"
  /\ HostDeInit
  /\ urb' = [ep \in EP |-> "IDLE"]
  /\ UNCHANGED <<fwvars, idlevars, connected, setup, ControlBuff>>

-----------------------------------------------------------------------------
(* loading_fw = 1: the download command.                                   *)
FwCommand ==
  /\ pc = "loop"
  /\ connected
  /\ gState = "HOST_CLASS"
  /\ loading_fw = 1
  /\ setup' = IF cmd_state = 0 THEN "COMMAND" ELSE setup
  /\ CtlReq("cmd_packet")
  /\ cmd_state' = IF CtlResult \in {"USBH_OK", "USBH_FAIL"} THEN 0 ELSE 1
  /\ loading_fw' = IF CtlResult = "USBH_OK" THEN 2 ELSE 1
  /\ UNCHANGED <<pc, dlvars, taken, idlevars, connected, urb>>

-----------------------------------------------------------------------------
(* loading_fw = 2: the image.                                              *)
libframe == <<idlevars, connected, ctlvars, urb>>

FwEnter ==
  /\ pc = "loop"
  /\ connected
  /\ gState = "HOST_CLASS"
  /\ loading_fw = 2
  /\ pc' = "top"
  /\ UNCHANGED <<loading_fw, cmd_state, dlvars, taken, libframe>>

Left == FwSize - fw_offset

(* The step after a chunk is out, short by one byte.                       *)
FwChunk_Wrong ==
  /\ pc = "top"
  /\ aclo_busy = 0
  /\ Left > 0
  /\ n' = IF Left > ACL_MPS THEN ACL_MPS - 1 ELSE Left
  /\ aclo_len' = IF Left > ACL_MPS THEN ACL_MPS ELSE Left
  /\ aclo_state' = 0
  /\ aclo_busy' = 1
  /\ pc' = "poll"
  /\ UNCHANGED <<loading_fw, cmd_state, fw_offset, chunk, taken, libframe>>

FwChunk ==
  /\ pc = "top"
  /\ aclo_busy = 0
  /\ Left > 0
  /\ n' = IF Left > ACL_MPS THEN ACL_MPS ELSE Left
  /\ aclo_len' = n'
  /\ aclo_state' = 0
  /\ aclo_busy' = 1
  /\ pc' = "poll"
  /\ UNCHANGED <<loading_fw, cmd_state, fw_offset, chunk, taken, libframe>>

(* A last chunk of ACL_MPS bytes or fewer taken for the end.               *)
FwDone_WrongEarly ==
  /\ pc = "top"
  /\ aclo_busy = 0
  /\ Left <= ACL_MPS
  /\ loading_fw' = 3
  /\ pc' = "loop"
  /\ UNCHANGED <<cmd_state, dlvars, taken, libframe>>

(* The loop left but loading_fw kept.                                      *)
FwDone_WrongAgain ==
  /\ pc = "top"
  /\ aclo_busy = 0
  /\ Left <= 0
  /\ pc' = "loop"
  /\ UNCHANGED <<loading_fw, cmd_state, dlvars, taken, libframe>>

FwDone ==
  /\ pc = "top"
  /\ aclo_busy = 0
  /\ Left <= 0
  /\ loading_fw' = 3
  /\ pc' = "loop"
  /\ UNCHANGED <<cmd_state, dlvars, taken, libframe>>

(* A pass that starts while a chunk is out.                                *)
FwAgain ==
  /\ pc = "top"
  /\ aclo_busy = 1
  /\ pc' = "poll"
  /\ UNCHANGED <<loading_fw, cmd_state, dlvars, taken, libframe>>

(* usb_bt_aclo_process with a buffer: nobody is told of the end.           *)
FwPollSend ==
  /\ pc = "poll"
  /\ aclo_state = 0
  /\ Submit("ACLO")
  /\ chunk' = [off |-> fw_offset, len |-> aclo_len]
  /\ aclo_state' = 1
  /\ pc' = "top"
  /\ UNCHANGED <<loading_fw, cmd_state, fw_offset, n, aclo_busy, aclo_len, taken,
                 frame, lag, wire, wireless, connected, ctlvars>>

(* The offset advanced although the chunk is still out.                    *)
FwPollDone_Wrong ==
  /\ pc = "poll"
  /\ aclo_state = 1
  /\ urb["ACLO"] = "DONE"
  /\ aclo_state' = 1
  /\ fw_offset' = fw_offset + n
  /\ pc' = "top"
  /\ UNCHANGED <<loading_fw, cmd_state, n, aclo_busy, aclo_len, chunk, taken, libframe>>

FwPollDone ==
  /\ pc = "poll"
  /\ aclo_state = 1
  /\ urb["ACLO"] = "DONE"
  /\ aclo_state' = 0
  /\ aclo_busy' = 0
  /\ fw_offset' = fw_offset + n
  /\ pc' = "top"
  /\ UNCHANGED <<loading_fw, cmd_state, n, aclo_len, chunk, taken, libframe>>

(* The request to clear the halt goes out, but USBH_Process, which would   *)
(* carry it, does not run until the loop ends.                             *)
FwPollStall ==
  /\ pc = "poll"
  /\ aclo_state = 1
  /\ urb["ACLO"] = "STALL"
  /\ ClrFeature("ACLO")
  /\ aclo_state' = IF CtlResult = "USBH_OK" THEN 0 ELSE 1
  /\ pc' = "top"
  /\ UNCHANGED <<loading_fw, cmd_state, fw_offset, n, aclo_busy, aclo_len, chunk, taken,
                 idlevars, connected, urb>>

FwPollWait ==
  /\ pc = "poll"
  /\ aclo_state = 1
  /\ urb["ACLO"] \notin {"DONE", "STALL"}
  /\ pc' = "top"
  /\ UNCHANGED <<loading_fw, cmd_state, dlvars, taken, libframe>>

-----------------------------------------------------------------------------
FwProcess ==
  /\ pc = "loop"
  /\ \/ Enumerate /\ wireless' = FALSE
     \/ \E outcome \in CtlOutcomes : HandleControl(outcome)
  /\ UNCHANGED fwvars

FwAnswer ==
  /\ \E outcome \in UrbOutcomes["ACLO"] :
       /\ UrbAnswer("ACLO", outcome)
       /\ taken' = IF outcome = "DONE" THEN Append(taken, chunk) ELSE taken
  /\ UNCHANGED <<pc, loading_fw, cmd_state, dlvars>>

MainStep ==
  \/ FwInterfaceInit \/ FwInterfaceDeInit \/ FwProcess
  \/ FwCommand \/ FwEnter
  \/ FwChunk \/ FwDone \/ FwAgain
  \/ FwPollSend \/ FwPollDone \/ FwPollStall \/ FwPollWait

Next ==
  \/ MainStep
  \/ FwAnswer
  \/ (Plug \/ Unplug) /\ UNCHANGED fwvars

Spec == Init /\ [][Next]_vars

(* The thread runs; a dongle that is there answers a chunk in the end and  *)
(* does not refuse the download command for ever.                          *)
Fairness ==
  /\ WF_vars(MainStep)
  /\ SF_vars(FwAnswer /\ taken' # taken)
  /\ SF_vars(pc = "loop" /\ HandleControl("OK") /\ UNCHANGED fwvars)

FairSpec == Spec /\ Fairness

-----------------------------------------------------------------------------
(* Each variable of the loader keeps to the values the code gives it.      *)
FwTypeOK ==
  /\ HostLibTypeOK
  /\ pc \in {"loop", "top", "poll"}
  /\ loading_fw \in 0 .. 3
  /\ fw_offset \in 0 .. FwSize
  /\ n \in 0 .. ACL_MPS
  /\ cmd_state \in 0 .. 1
  /\ aclo_busy \in 0 .. 1
  /\ aclo_state \in 0 .. 1
  /\ aclo_len \in 0 .. ACL_MPS
  /\ \A i \in DOMAIN taken : taken[i] \in [off : 0 .. FwSize, len : 0 .. ACL_MPS]

End(i) == IF i = 0 THEN 0 ELSE taken[i].off + taken[i].len

(* The chunks the dongle takes follow each other in the image, with no     *)
(* gap, no overlap and no repetition, although they are sent with          *)
(* fw_offset and advanced with n in another pass of the loop.              *)
FirmwareInOrder == \A i \in DOMAIN taken : taken[i].off = End(i - 1)

(* "fw-done" is reached only when the dongle has the whole image.          *)
FirmwareComplete == loading_fw = 3 => End(Len(taken)) = FwSize

(* The loop runs on a chunk that ended in another way than taken: halted,  *)
(* failed, or refused for now.                                             *)
Spins == pc # "loop" /\ aclo_state = 1 /\ urb["ACLO"] \in {"STALL", "ERROR", "NOTREADY"}

(* A load that has begun ends, unless the dongle is pulled out or does not *)
(* take a chunk at the first try: then the loop never ends.                *)
LoadEnds == loading_fw = 2 ~> (loading_fw = 3 \/ ~connected \/ Spins)
=============================================================================

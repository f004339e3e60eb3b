---------------------------- MODULE UubtStackProofs ----------------------------
(***************************************************************************)
(* Theorems about UubtStack, for every FRNUM_PERIOD, MaxLag and            *)
(* PacketSizes that its assumptions allow.  Each invariant is proved       *)
(* from an inductive one (TypeOK, TxHeldInv, PipeInv, ...) with one step   *)
(* per action.  Where a theorem holds for some dongles only, it says so in *)
(* an ASSUME about CtlOutcomes or UrbOutcomes.                             *)
(***************************************************************************)
EXTENDS UubtStack, TLAPS

-----------------------------------------------------------------------------
(* Types.  Facts about Boolean variables are steps of their own.           *)

(* Type correctness at first.                                              *)
LEMMA TypeOKInit == Init => TypeOK
<1> SUFFICES ASSUME Init PROVE TypeOK
  OBVIOUS
<1>1. connected \in BOOLEAN /\ wireless \in BOOLEAN /\ hci_on \in BOOLEAN
  BY Zenon DEF Init, HostLibInit, HciInit
<1> QED
  BY <1>1, HostLibAssumed DEF HostLibAssumption, Init, HostLibInit, CoreInit, HciInit,
     h2_register_packet_handler, TypeOK, HostLibTypeOK, CoreTypeOK, HciTypeOK, GState, EP

(* What USBH_CtlReq does and answers, without the CASE of CtlResult.       *)
CtlStarts(buff) ==
  /\ RequestState = "CMD_SEND" /\ RequestState' = "CMD_WAIT"
  /\ ControlState' = "BUSY" /\ ControlBuff' = buff /\ gState' = "HOST_CTRL_XFER"
  /\ CtlResult = "USBH_BUSY"

CtlWaits ==
  /\ RequestState = "CMD_WAIT" /\ RequestState' = "CMD_WAIT"
  /\ ControlState' = ControlState /\ ControlBuff' = ControlBuff /\ gState' = gState
  /\ ControlState \notin {"COMPLETE", "ERROR", "STALLED"}
  /\ CtlResult = "USBH_BUSY"

CtlEnds ==
  /\ RequestState = "CMD_WAIT" /\ RequestState' = "CMD_SEND"
  /\ ControlBuff' = ControlBuff /\ gState' = gState
  /\ \/ ControlState = "COMPLETE" /\ CtlResult = "USBH_OK" /\ ControlState' = "IDLE"
     \/ ControlState = "ERROR" /\ CtlResult = "USBH_FAIL" /\ ControlState' = "ERROR"
     \/ /\ ControlState = "STALLED"
        /\ CtlResult = "USBH_NOT_SUPPORTED"
        /\ ControlState' = "STALLED"

(* USBH_CtlReq starts a request, or waits for it, or ends it.              *)
LEMMA CtlReqCases ==
  ASSUME NEW buff, CtlReq(buff)
  PROVE  CtlStarts(buff) \/ CtlWaits \/ CtlEnds
BY DEF CtlReq, CtlResult, CtlStarts, CtlWaits, CtlEnds

(* How HandleControl ends a transfer.                                      *)
LEMMA HandleControlCases ==
  ASSUME NEW outcome \in CtlOutcomes, HandleControl(outcome)
  PROVE  \/ outcome = "OK" /\ ControlState' = "COMPLETE"
         \/ outcome = "FAIL" /\ ControlState' = "ERROR"
         \/ outcome = "NOT_SUPPORTED" /\ ControlState' = "STALLED"
BY HostLibAssumed DEF HostLibAssumption, HandleControl

(* Type correctness in a step of any kind.                                 *)
LEMMA TypeOKStep == TypeOK /\ [Next]_vars => TypeOK'
<1> SUFFICES ASSUME TypeOK, [Next]_vars PROVE TypeOK'
  OBVIOUS
<1> USE HostLibAssumed
    DEF HostLibAssumption, TypeOK, HostLibTypeOK, CoreTypeOK, HciTypeOK, GState, EP,
        vars, libvars, portvars, ctlvars, corevars, txvars, evtvars, hcivars, handlers
<1>1. CASE PowerOn
  BY <1>1 DEF PowerOn, ClassRequest, h2_open, hal_ub_reg_tx_end, hal_ub_reg_rx_packet
<1>2. CASE PowerOff
  BY <1>2 DEF PowerOff, InterfaceDeInit, HostDeInit, FreeChannels, h2_close
<1>3. CASE CmdNotify
  BY <1>3 DEF CmdNotify, CmdSent, CmdRequest, CtlReq, cmdframe,
     h2_tx_end_notify
<1>4. CASE CmdReturn
  BY <1>4 DEF CmdReturn, CmdEndReturn, cmdframe, h2_tx_end_return
<1>5. CASE AcloNotify
  BY <1>5 DEF AcloNotify, AcloSent, acloframe, h2_tx_end_notify
<1>6. CASE AcloReturn
  BY <1>6 DEF AcloReturn, AcloEndReturn, acloframe, h2_tx_end_return
<1>7. CASE InterfaceInit /\ UNCHANGED hcivars
  BY <1>7 DEF InterfaceInit
<1>8. CASE StMachine /\ UNCHANGED hcivars
  BY <1>8 DEF StMachine
<1>9. CASE CmdIdle /\ UNCHANGED hcivars
  BY <1>9 DEF CmdIdle, cmdframe
<1>10. CASE CmdFail /\ UNCHANGED hcivars
  BY <1>10 DEF CmdFail, CmdRequest, CtlReq, cmdframe
<1>11. CASE CmdAgain /\ UNCHANGED hcivars
  BY <1>11 DEF CmdAgain, CmdRequest, CtlReq, cmdframe
<1>12. CASE EvtSample /\ UNCHANGED hcivars
  BY <1>12 DEF EvtSample, evtframe
<1>13. CASE EvtArm /\ UNCHANGED hcivars
  BY <1>13 DEF EvtArm, Submit, evtframe
<1>14. CASE EvtTimeout /\ UNCHANGED hcivars
  BY <1>14 DEF EvtTimeout, evtframe
<1>15. CASE EvtReceived /\ UNCHANGED hcivars
  BY <1>15 DEF EvtReceived, evtframe
<1>16. CASE EvtRxReturn /\ UNCHANGED hcivars
  BY <1>16 DEF EvtRxReturn, evtframe
<1>17. CASE EvtStall /\ UNCHANGED hcivars
  BY <1>17 DEF EvtStall, ClrFeature, CtlReq, evtframe
<1>18. CASE EvtWait /\ UNCHANGED hcivars
  BY <1>18 DEF EvtWait, evtframe
<1>19. CASE AcloIdle /\ UNCHANGED hcivars
  BY <1>19 DEF AcloIdle, acloframe
<1>20. CASE AcloSend /\ UNCHANGED hcivars
  BY <1>20 DEF AcloSend, Submit, acloframe
<1>21. CASE AcloStall /\ UNCHANGED hcivars
  BY <1>21 DEF AcloStall, ClrFeature, CtlReq, acloframe
<1>22. CASE AcliArm /\ UNCHANGED hcivars
  BY <1>22 DEF AcliArm, Submit, acliframe
<1>23. CASE AcliReceived /\ UNCHANGED hcivars
  BY <1>23 DEF AcliReceived, acliframe
<1>24. CASE AcliRxReturn /\ UNCHANGED hcivars
  BY <1>24 DEF AcliRxReturn, acliframe
<1>25. CASE AcliStall /\ UNCHANGED hcivars
  BY <1>25 DEF AcliStall, ClrFeature, CtlReq, acliframe
<1>26. CASE AcliWait /\ UNCHANGED hcivars
  BY <1>26 DEF AcliWait, acliframe
<1>27. CASE pc = "loop" /\ Enumerate /\ UNCHANGED <<corevars, hcivars>>
  BY <1>27 DEF Enumerate
<1>28. ASSUME NEW outcome \in CtlOutcomes, pc = "loop",
             HandleControl(outcome), UNCHANGED <<corevars, hcivars>>
      PROVE  TypeOK'
  BY <1>28 DEF HandleControl
<1>29. ASSUME NEW type \in DOMAIN PacketSizes, NEW size \in PacketSizes[type],
             HciSend(type, size)
      PROVE  TypeOK'
  <2>1. HostLibTypeOK'
    <3>1. wire' \subseteq {"COMMAND", "ACL"}
      BY <1>29 DEF HciSend, hal_ub_tx_packet
    <3>2. UNCHANGED <<portvars, ctlvars, urb, frame, lag, fresh>>
      BY <1>29 DEF HciSend, hal_ub_tx_packet
    <3> QED
      BY <3>1, <3>2
  <2>2. CoreTypeOK'
    BY <1>29 DEF HciSend, hal_ub_tx_packet
  <2>3. HciTypeOK'
    BY <1>29 DEF HciSend, h2_send_packet
  <2> QED
    BY <2>1, <2>2, <2>3 DEF TypeOK
<1>30. CASE Plug /\ UNCHANGED <<corevars, hcivars>>
  <2>1. connected' \in BOOLEAN
    BY <1>30, Zenon DEF Plug
  <2> QED
    BY <1>30, <2>1 DEF Plug
<1>31. CASE Unplug /\ UNCHANGED <<corevars, hcivars>>
  <2>1. connected' \in BOOLEAN
    BY <1>31, Zenon DEF Unplug
  <2> QED
    BY <1>31, <2>1 DEF Unplug
<1>32. CASE FrameTick /\ UNCHANGED <<corevars, hcivars>>
  BY <1>32 DEF FrameTick
<1>33. ASSUME NEW ep \in EP, NEW outcome \in UrbOutcomes[ep],
             UrbAnswer(ep, outcome), UNCHANGED <<corevars, hcivars>>
      PROVE  TypeOK'
  BY <1>33 DEF UrbAnswer, Refused
<1>34. CASE UNCHANGED vars
  BY <1>34
<1> QED
  BY <1>1, <1>2, <1>3, <1>4, <1>5, <1>6, <1>7, <1>8, <1>9, <1>10, <1>11,
     <1>12, <1>13, <1>14, <1>15, <1>16, <1>17, <1>18, <1>19, <1>20, <1>21,
     <1>22, <1>23, <1>24, <1>25, <1>26, <1>27, <1>28, <1>29, <1>30, <1>31,
     <1>32, <1>33, <1>34
  DEF Next, MainStep, StackStep, IsrStep, PollStep, Receive, ProcessStep

(* Every variable stays in its type, whatever the dongle answers.          *)
THEOREM TypeCorrect == Spec => []TypeOK
BY TypeOKInit, TypeOKStep, PTL DEF Spec

-----------------------------------------------------------------------------
(* tx_busy and the driver's busy flags, whatever the dongle does: the      *)
(* driver never holds a packet that the transport does not know of.  The   *)
(* stack is on while the class runs; InterfaceInit has cleared the flags   *)
(* before h2_open clears tx_busy; inside a callback the flag of the packet *)
(* it reports is set, and an ACL packet that is done is on the wire; the   *)
(* driver calls the transport back and not a dummy.                        *)
TxHeldInv ==
  /\ hci_on => cmd_busy + aclo_busy <= tx_busy
  /\ hci_on <=> gState \in {"HOST_CLASS", "HOST_CTRL_XFER"}
  /\ pc # "loop" => hci_on
  /\ gState = "HOST_CLASS_REQUEST" => cmd_busy = 0 /\ aclo_busy = 0
  /\ pc = "cmd_end" => cmd_busy = 1
  /\ pc = "aclo_end" => aclo_busy = 1 /\ urb["ACLO"] = "DONE" /\ "ACL" \in wire
  /\ aclo_busy = 1 /\ aclo_state = 1 /\ urb["ACLO"] = "DONE" => "ACL" \in wire
  /\ hci_on => tx_end_handler = "h2_tx_end_cb"

(* TxHeldInv at first: nothing is sent and nothing is held.                *)
LEMMA TxHeldInit == Init => TxHeldInv /\ TxAccounted
BY DEF Init, HostLibInit, CoreInit, HciInit, TxHeldInv, TxAccounted

(* A packet that the stack may send finds the driver's buffers free and    *)
(* large enough.                                                           *)
LEMMA SendTaken ==
  ASSUME TypeOK, TxHeldInv, NEW type \in DOMAIN PacketSizes, NEW size \in PacketSizes[type],
         HciSend(type, size)
  PROVE  /\ type \in {"COMMAND", "ACL"} /\ TxAccepts(type, size)
         /\ hci_on /\ tx_busy = 0 /\ cmd_busy = 0 /\ aclo_busy = 0
<1>1. hci_on /\ tx_busy = 0
  BY DEF HciSend, StackRuns, h2_send_packet, h2_can_send_packet_now
<1>2. cmd_busy = 0 /\ aclo_busy = 0
  BY <1>1 DEF TypeOK, CoreTypeOK, TxHeldInv
<1> QED
  BY <1>1, <1>2, PacketSizesAssumed DEF TxAccepts, MaxPacket, CMD_ALIGNED_MAX_SIZE,
     ACL_ALIGNED_MAX_SIZE, HCI_ACL_PAYLOAD_SIZE

(* Each step keeps TxHeldInv, and only a command given up by the driver    *)
(* parts tx_busy from the driver's flags.                                  *)
LEMMA TxHeldStep ==
  ASSUME TypeOK, TxHeldInv, [Next]_vars
  PROVE  TxHeldInv' /\ (TxAccounted => TxAccounted' \/ CmdFail)
<1> USE DEF TypeOK, HostLibTypeOK, CoreTypeOK, HciTypeOK, GState, EP, TxHeldInv, TxAccounted,
        vars, libvars, portvars, ctlvars, corevars, txvars, evtvars, hcivars, handlers
<1>1. CASE PowerOn
  BY <1>1 DEF PowerOn, ClassRequest, h2_open, hal_ub_reg_tx_end, hal_ub_reg_rx_packet
<1>2. CASE PowerOff
  BY <1>2 DEF PowerOff, InterfaceDeInit, HostDeInit, FreeChannels, h2_close
<1>3. CASE CmdNotify
  BY <1>3, CtlReqCases DEF CmdNotify, CmdSent, CmdRequest, cmdframe,
     h2_tx_end_notify, CtlStarts, CtlWaits, CtlEnds
<1>4. CASE CmdReturn
  BY <1>4 DEF CmdReturn, CmdEndReturn, cmdframe, h2_tx_end_return
<1>5. CASE AcloNotify
  BY <1>5 DEF AcloNotify, AcloSent, acloframe, h2_tx_end_notify
<1>6. CASE AcloReturn
  BY <1>6 DEF AcloReturn, AcloEndReturn, acloframe, h2_tx_end_return
<1>7. CASE InterfaceInit /\ UNCHANGED hcivars
  BY <1>7 DEF InterfaceInit
<1>8. CASE StMachine /\ UNCHANGED hcivars
  BY <1>8 DEF StMachine
<1>9. CASE CmdIdle /\ UNCHANGED hcivars
  BY <1>9 DEF CmdIdle, cmdframe
<1>10. CASE CmdFail /\ UNCHANGED hcivars
  <2>1. gState' = gState
    BY <1>10, CtlReqCases DEF CmdFail, CmdRequest, CtlStarts, CtlWaits, CtlEnds
  <2> QED
    BY <1>10, <2>1 DEF CmdFail, CmdRequest, cmdframe
<1>11. CASE CmdAgain /\ UNCHANGED hcivars
  BY <1>11, CtlReqCases DEF CmdAgain, CmdRequest, cmdframe, CtlStarts,
     CtlWaits, CtlEnds
<1>12. CASE (EvtSample \/ EvtTimeout \/ EvtWait) /\ UNCHANGED hcivars
  BY <1>12 DEF EvtSample, EvtTimeout, EvtWait, evtframe
<1>13. CASE EvtArm /\ UNCHANGED hcivars
  BY <1>13 DEF EvtArm, Submit, evtframe
<1>14. CASE (EvtReceived \/ EvtRxReturn) /\ UNCHANGED hcivars
  BY <1>14 DEF EvtReceived, EvtRxReturn, evtframe
<1>15. CASE EvtStall /\ UNCHANGED hcivars
  BY <1>15, CtlReqCases DEF EvtStall, ClrFeature, evtframe, CtlStarts,
     CtlWaits, CtlEnds
<1>16. CASE AcloIdle /\ UNCHANGED hcivars
  BY <1>16 DEF AcloIdle, acloframe
<1>17. CASE AcloSend /\ UNCHANGED hcivars
  BY <1>17 DEF AcloSend, Submit, acloframe
<1>18. CASE AcloStall /\ UNCHANGED hcivars
  BY <1>18, CtlReqCases DEF AcloStall, ClrFeature, acloframe, CtlStarts,
     CtlWaits, CtlEnds
<1>19. CASE AcliArm /\ UNCHANGED hcivars
  BY <1>19 DEF AcliArm, Submit, acliframe
<1>20. CASE (AcliReceived \/ AcliRxReturn \/ AcliWait) /\ UNCHANGED hcivars
  BY <1>20 DEF AcliReceived, AcliRxReturn, AcliWait, acliframe
<1>21. CASE AcliStall /\ UNCHANGED hcivars
  BY <1>21, CtlReqCases DEF AcliStall, ClrFeature, acliframe, CtlStarts,
     CtlWaits, CtlEnds
<1>22. CASE pc = "loop" /\ Enumerate /\ UNCHANGED <<corevars, hcivars>>
  BY <1>22 DEF Enumerate
<1>23. ASSUME NEW outcome \in CtlOutcomes, pc = "loop",
             HandleControl(outcome), UNCHANGED <<corevars, hcivars>>
      PROVE  TxHeldInv' /\ (TxAccounted => TxAccounted')
  BY <1>23, HandleControlCases DEF HandleControl
<1>24. ASSUME NEW type \in DOMAIN PacketSizes, NEW size \in PacketSizes[type],
             HciSend(type, size)
      PROVE  TxHeldInv' /\ (TxAccounted => TxAccounted')
  BY <1>24, SendTaken DEF HciSend, h2_send_packet, hal_ub_tx_packet
<1>25. CASE (Plug \/ Unplug \/ FrameTick) /\ UNCHANGED <<corevars, hcivars>>
  BY <1>25 DEF Plug, Unplug, FrameTick
<1>26. ASSUME NEW ep \in EP, NEW outcome \in UrbOutcomes[ep],
             UrbAnswer(ep, outcome), UNCHANGED <<corevars, hcivars>>
      PROVE  TxHeldInv' /\ (TxAccounted => TxAccounted')
  BY <1>26 DEF UrbAnswer, Refused
<1>27. CASE UNCHANGED vars
  BY <1>27
<1> QED
  BY <1>1, <1>2, <1>3, <1>4, <1>5, <1>6, <1>7, <1>8, <1>9, <1>10, <1>11,
     <1>12, <1>13, <1>14, <1>15, <1>16, <1>17, <1>18, <1>19, <1>20, <1>21,
     <1>22, <1>23, <1>24, <1>25, <1>26, <1>27
  DEF Next, MainStep, StackStep, IsrStep, PollStep, Receive, ProcessStep

LEMMA TxHeldAlways == Spec => []TxHeldInv
<1>1. TypeOK /\ TxHeldInv /\ [Next]_vars => TxHeldInv'
  BY TxHeldStep
<1> QED
  BY <1>1, TxHeldInit, TypeCorrect, PTL DEF Spec

(* With any dongle, a packet the stack sends when the transport says it    *)
(* can take one is taken by the driver: no packet is refused below the     *)
(* transport, which would stay busy with it.                               *)
THEOREM SendsAlwaysTaken ==
  Spec => [][\A type \in DOMAIN PacketSizes : \A size \in PacketSizes[type] :
               HciSend(type, size) => TxAccepts(type, size)]_vars
<1> DEFINE Taken == \A type \in DOMAIN PacketSizes : \A size \in PacketSizes[type] :
                      HciSend(type, size) => TxAccepts(type, size)
<1>1. TypeOK /\ TxHeldInv => Taken
  BY SendTaken
<1> HIDE DEF Taken
<1>2. Spec => [][Taken]_vars
  BY <1>1, TypeCorrect, TxHeldAlways, PTL DEF Spec
<1> QED
  BY <1>2 DEF Taken

(* With any dongle, the transport and the driver come to disagree in one   *)
(* step only: the driver gives up a command whose control transfer failed. *)
THEOREM OnlyFailureWedges == Spec => [][TxAccounted => TxAccounted' \/ CmdFail]_vars
<1>1. TypeOK /\ TxHeldInv /\ [Next]_vars => (TxAccounted => TxAccounted' \/ CmdFail)
  BY TxHeldStep
<1> QED
  BY <1>1, TypeCorrect, TxHeldAlways, PTL DEF Spec

(* A dongle that fails no control transfer leaves no failure to report.    *)
CtlNeverFails == ControlState # "ERROR"

LEMMA CtlNeverFailsStep ==
  ASSUME ~CtlMayFail, CtlNeverFails, [Next]_vars
  PROVE  CtlNeverFails'
<1> USE DEF CtlNeverFails, libvars, ctlvars, vars, corevars
<1>1. CASE PowerOn \/ PowerOff
  BY <1>1 DEF PowerOn, ClassRequest, PowerOff, InterfaceDeInit, HostDeInit
<1>2. CASE CmdNotify \/ CmdFail \/ CmdAgain
  BY <1>2, CtlReqCases DEF CmdNotify, CmdSent, CmdFail, CmdAgain, CmdRequest, CtlStarts, CtlWaits, CtlEnds
<1>3. CASE EvtStall \/ AcloStall \/ AcliStall
  BY <1>3, CtlReqCases DEF EvtStall, AcloStall, AcliStall, ClrFeature, CtlStarts, CtlWaits, CtlEnds
<1>4. CASE CmdReturn \/ AcloNotify \/ AcloReturn \/ InterfaceInit \/ StMachine \/ CmdIdle
  BY <1>4 DEF CmdReturn, CmdEndReturn, AcloNotify, AcloSent, AcloReturn, AcloEndReturn,
     InterfaceInit, StMachine, CmdIdle
<1>5. CASE Receive \/ EvtSample \/ EvtArm \/ EvtTimeout \/ EvtWait
  BY <1>5 DEF Receive, EvtReceived, EvtRxReturn, AcliReceived, AcliRxReturn, EvtSample, EvtArm,
     EvtTimeout, EvtWait
<1>6. CASE AcloIdle \/ AcloSend \/ AcliArm \/ AcliWait
  BY <1>6 DEF AcloIdle, AcloSend, AcliArm, AcliWait
<1>7. CASE ProcessStep
  BY <1>7, HandleControlCases DEF ProcessStep, Enumerate, CtlMayFail
<1>8. CASE StackStep \/ IsrStep
  BY <1>8 DEF StackStep, HciSend, hal_ub_tx_packet, IsrStep, Plug, Unplug, FrameTick, UrbAnswer, Refused
<1>9. CASE UNCHANGED vars
  BY <1>9
<1> QED
  BY <1>1, <1>2, <1>3, <1>4, <1>5, <1>6, <1>7, <1>8, <1>9 DEF Next, MainStep, PollStep

LEMMA CtlNeverFailsAlways == ASSUME ~CtlMayFail PROVE Spec => []CtlNeverFails
<1>1. Init => CtlNeverFails
  BY DEF Init, HostLibInit, CtlNeverFails
<1>2. CtlNeverFails /\ [Next]_vars => CtlNeverFails'
  BY CtlNeverFailsStep
<1> QED
  BY <1>1, <1>2, PTL DEF Spec

(* With a dongle whose control transfers never fail, the transport is busy *)
(* exactly while the driver holds a packet.                                *)
THEOREM TxAlwaysAccounted ==
  ASSUME ~CtlMayFail PROVE Spec => []TxAccounted
<1>1. CtlNeverFails => ~CmdFail
  BY DEF CtlNeverFails, CmdFail, CtlResult
<1>2. TypeOK /\ TxHeldInv /\ CtlNeverFails /\ TxAccounted /\ [Next]_vars => TxAccounted'
  BY <1>1, TxHeldStep
<1> QED
  BY <1>2, CtlNeverFailsAlways, TxHeldInit, TxHeldAlways, TypeCorrect, PTL DEF Spec

-----------------------------------------------------------------------------
(* The control pipe, when no IN endpoint is ever halted: a request that is *)
(* out is that of the one packet the port holds.  A command's has the      *)
(* setup packet that was filled for it, and the device has taken the       *)
(* command when it completes; a clear request of ACL-out's is out only     *)
(* while an ACL packet waits for it.                                       *)
PipeInv ==
  /\ urb["EVT"] # "STALL" /\ urb["ACLI"] # "STALL"
  /\ RequestState = "CMD_WAIT" =>
       \/ cmd_busy = 1 /\ cmd_state = 1 /\ CarriesCommand
       \/ aclo_busy = 1 /\ aclo_state = 1 /\ urb["ACLO"] = "STALL"
  /\ cmd_busy = 1 /\ cmd_state = 1 => setup = "COMMAND"
  /\ RequestState = "CMD_WAIT" /\ ControlState = "COMPLETE" /\ cmd_busy = 1 => "COMMAND" \in wire
  /\ gState = "HOST_CTRL_XFER" => RequestState = "CMD_WAIT" /\ ControlState = "BUSY"
  /\ ~hci_on => RequestState = "CMD_SEND"
  /\ pc = "cmd_end" => RequestState = "CMD_SEND" /\ "COMMAND" \in wire

(* PipeInv at first: no request is out.                                    *)
LEMMA PipeInvInit == Init => PipeInv
BY DEF Init, HostLibInit, CoreInit, HciInit, PipeInv, EP

(* PipeInv in a step, when no IN endpoint is halted.                       *)
LEMMA PipeInvStep ==
  ASSUME ~InMayHalt, TypeOK, TxHeldInv, PipeInv, [Next]_vars
  PROVE  PipeInv'
<1> USE DEF TypeOK, HostLibTypeOK, CoreTypeOK, HciTypeOK, GState, EP, TxHeldInv, PipeInv,
        CarriesCommand, vars, libvars, portvars, ctlvars,
        corevars, txvars, evtvars, hcivars, handlers
<1>1. CASE PowerOn
  BY <1>1 DEF PowerOn, ClassRequest, h2_open, hal_ub_reg_tx_end, hal_ub_reg_rx_packet
<1>2. CASE PowerOff
  BY <1>2 DEF PowerOff, InterfaceDeInit, HostDeInit, FreeChannels, h2_close
<1>3. CASE CmdNotify
  <2>1. setup' = "COMMAND" /\ RequestState' = "CMD_SEND" /\ "COMMAND" \in wire'
    BY <1>3, CtlReqCases DEF CmdNotify, CmdSent, CmdRequest, cmdframe, CtlStarts, CtlWaits,
       CtlEnds
  <2>2. gState' = gState /\ gState # "HOST_CTRL_XFER"
    BY <1>3, CtlReqCases DEF CmdNotify, CmdSent, CmdRequest, CtlStarts, CtlWaits, CtlEnds
  <2> QED
    BY <1>3, <2>1, <2>2 DEF CmdNotify, CmdSent, CmdRequest, cmdframe
<1>4. CASE CmdReturn
  BY <1>4 DEF CmdReturn, CmdEndReturn, cmdframe, h2_tx_end_return
<1>5. CASE AcloNotify
  BY <1>5 DEF AcloNotify, AcloSent, acloframe, h2_tx_end_notify
<1>6. CASE AcloReturn
  BY <1>6 DEF AcloReturn, AcloEndReturn, acloframe, h2_tx_end_return
<1>7. CASE InterfaceInit /\ UNCHANGED hcivars
  BY <1>7 DEF InterfaceInit
<1>8. CASE StMachine /\ UNCHANGED hcivars
  BY <1>8 DEF StMachine
<1>9. CASE CmdIdle /\ UNCHANGED hcivars
  BY <1>9 DEF CmdIdle, cmdframe
<1>10. CASE CmdFail /\ UNCHANGED hcivars
  <2>1. RequestState' = "CMD_SEND" /\ gState' = gState /\ gState # "HOST_CTRL_XFER"
    BY <1>10, CtlReqCases DEF CmdFail, CmdRequest, CtlStarts, CtlWaits, CtlEnds
  <2> QED
    BY <1>10, <2>1 DEF CmdFail, CmdRequest, cmdframe
<1>11. CASE CmdAgain /\ UNCHANGED hcivars
  <2>1. setup' = "COMMAND" /\ cmd_busy' = 1 /\ cmd_state' = 1 /\ pc' = "evt" /\ wire' = wire
    BY <1>11 DEF CmdAgain, CmdRequest, cmdframe
  <2>2. \/ /\ RequestState' = "CMD_WAIT" /\ ControlBuff' = "cmd_packet"
           /\ ControlState' # "COMPLETE"
           /\ gState' = "HOST_CTRL_XFER" => ControlState' = "BUSY"
        \/ /\ RequestState' = "CMD_SEND"
           /\ gState' = gState /\ gState # "HOST_CTRL_XFER"
    BY <1>11, CtlReqCases DEF CmdAgain, CmdRequest, CtlStarts, CtlWaits, CtlEnds
  <2>3. hci_on /\ UNCHANGED <<hci_on, urb>>
    BY <1>11 DEF CmdAgain, CmdRequest, cmdframe
  <2> QED
    BY <2>1, <2>2, <2>3
<1>12. CASE (EvtSample \/ EvtTimeout \/ EvtWait) /\ UNCHANGED hcivars
  BY <1>12 DEF EvtSample, EvtTimeout, EvtWait, evtframe
<1>13. CASE EvtArm /\ UNCHANGED hcivars
  BY <1>13 DEF EvtArm, Submit, evtframe
<1>14. CASE (EvtReceived \/ EvtRxReturn) /\ UNCHANGED hcivars
  BY <1>14 DEF EvtReceived, EvtRxReturn, evtframe
<1>15. CASE EvtStall \/ AcliStall
  BY <1>15 DEF EvtStall, AcliStall
<1>16. CASE AcloIdle /\ UNCHANGED hcivars
  BY <1>16 DEF AcloIdle, acloframe
<1>17. CASE AcloSend /\ UNCHANGED hcivars
  BY <1>17 DEF AcloSend, Submit, acloframe
<1>18. CASE AcloStall /\ UNCHANGED hcivars
  <2>1. aclo_busy = 1 /\ urb["ACLO"] = "STALL" /\ hci_on /\ cmd_busy = 0 /\ pc' = "acli"
    BY <1>18 DEF AcloStall
  <2>2. UNCHANGED <<aclo_busy, urb, hci_on, cmd_busy>>
    BY <1>18 DEF AcloStall, acloframe
  <2>3. \/ RequestState' = "CMD_WAIT" /\ CtlResult = "USBH_BUSY" /\ gState' = "HOST_CTRL_XFER"
           /\ ControlState' = "BUSY"
        \/ RequestState' = "CMD_WAIT" /\ CtlResult = "USBH_BUSY" /\ gState' = gState
           /\ ControlState' = ControlState
        \/ RequestState' = "CMD_SEND" /\ gState' = gState /\ gState # "HOST_CTRL_XFER"
    BY <1>18, CtlReqCases DEF AcloStall, ClrFeature, CtlStarts, CtlWaits, CtlEnds
  <2>4. RequestState' = "CMD_WAIT" => aclo_state' = 1
    BY <1>18, <2>3 DEF AcloStall
  <2> QED
    BY <2>1, <2>2, <2>3, <2>4
<1>19. CASE AcliArm /\ UNCHANGED hcivars
  BY <1>19 DEF AcliArm, Submit, acliframe
<1>20. CASE (AcliReceived \/ AcliRxReturn \/ AcliWait) /\ UNCHANGED hcivars
  BY <1>20 DEF AcliReceived, AcliRxReturn, AcliWait, acliframe
<1>21. CASE pc = "loop" /\ Enumerate /\ UNCHANGED <<corevars, hcivars>>
  BY <1>21 DEF Enumerate
<1>22. ASSUME NEW outcome \in CtlOutcomes, pc = "loop",
             HandleControl(outcome), UNCHANGED <<corevars, hcivars>>
      PROVE  PipeInv'
  <2>1. /\ RequestState = "CMD_WAIT" /\ gState' = "HOST_CLASS" /\ hci_on
        /\ UNCHANGED <<RequestState, setup, ControlBuff, urb, corevars, hcivars>>
    BY <1>22 DEF HandleControl
  <2>2. outcome = "OK" \/ ControlState' # "COMPLETE"
    BY <1>22, HandleControlCases
  <2>3. outcome = "OK" /\ cmd_busy = 1 => "COMMAND" \in wire'
    <3>1. cmd_busy = 1 => aclo_busy = 0
      BY <2>1
    <3> QED
      BY <1>22, <2>1, <3>1 DEF HandleControl
  <2>4. pc' # "cmd_end"
    BY <1>22
  <2> QED
    BY <2>1, <2>2, <2>3, <2>4
<1>23. ASSUME NEW type \in DOMAIN PacketSizes, NEW size \in PacketSizes[type],
             HciSend(type, size)
      PROVE  PipeInv'
  <2>1. hci_on /\ cmd_busy = 0 /\ aclo_busy = 0 /\ RequestState = "CMD_SEND"
    BY <1>23, SendTaken
  <2> QED
    BY <1>23, <2>1 DEF HciSend, h2_send_packet, hal_ub_tx_packet
<1>24. CASE (Plug \/ Unplug \/ FrameTick) /\ UNCHANGED <<corevars, hcivars>>
  BY <1>24 DEF Plug, Unplug, FrameTick
<1>25. ASSUME NEW ep \in EP, NEW outcome \in UrbOutcomes[ep],
             UrbAnswer(ep, outcome), UNCHANGED <<corevars, hcivars>>
      PROVE  PipeInv'
  <2>1. ep \in {"EVT", "ACLI"} => outcome # "STALL"
    BY DEF InMayHalt
  <2> QED
    BY <1>25, <2>1 DEF UrbAnswer, Refused
<1>26. CASE UNCHANGED vars
  BY <1>26
<1> QED
  BY <1>1, <1>2, <1>3, <1>4, <1>5, <1>6, <1>7, <1>8, <1>9, <1>10, <1>11,
     <1>12, <1>13, <1>14, <1>15, <1>16, <1>17, <1>18, <1>19, <1>20, <1>21,
     <1>22, <1>23, <1>24, <1>25, <1>26
  DEF Next, MainStep, StackStep, IsrStep, PollStep, Receive, ProcessStep

LEMMA PipeAlways == ASSUME ~InMayHalt PROVE Spec => []PipeInv
<1>1. TypeOK /\ TxHeldInv /\ PipeInv /\ [Next]_vars => PipeInv'
  BY PipeInvStep
<1> QED
  BY <1>1, PipeInvInit, TxHeldAlways, TypeCorrect, PTL DEF Spec

(* With a dongle that never halts an IN endpoint, a packet reported as     *)
(* sent has been taken by the dongle, although it may halt ACL-out and     *)
(* fail or refuse control transfers.                                       *)
THEOREM SentAlwaysOnWire ==
  ASSUME ~InMayHalt PROVE Spec => []SentMeansOnWire
<1>1. TxHeldInv /\ PipeInv => SentMeansOnWire
  BY DEF TxHeldInv, PipeInv, SentMeansOnWire
<1> QED
  BY <1>1, PipeAlways, TxHeldAlways, PTL

-----------------------------------------------------------------------------
(* A command that the dongle has taken and that still counts as busy is    *)
(* found complete by the next pass, before the event endpoint is polled.   *)
EventInv ==
  hci_on /\ cmd_busy = 1 /\ "COMMAND" \in wire
    => \/ pc = "cmd_end"
       \/ pc \in {"loop", "cmd"} /\ RequestState = "CMD_WAIT" /\ ControlState = "COMPLETE"

(* EventInv at first: the stack is off.                                    *)
LEMMA EventInvInit == Init => EventInv
BY DEF Init, HostLibInit, CoreInit, HciInit, EventInv

(* EventInv in a step, when no IN endpoint is halted.                      *)
LEMMA EventInvStep ==
  ASSUME ~InMayHalt, TypeOK, TxHeldInv, PipeInv, EventInv, [Next]_vars
  PROVE  EventInv'
<1> USE DEF TypeOK, HostLibTypeOK, CoreTypeOK, HciTypeOK, GState, EP, TxHeldInv, PipeInv,
        EventInv, CarriesCommand, vars, libvars, portvars, ctlvars,
        corevars, txvars, evtvars, hcivars, handlers
<1>1. CASE PowerOn \/ PowerOff
  BY <1>1 DEF PowerOn, ClassRequest, h2_open, PowerOff, h2_close
<1>2. CASE CmdNotify \/ CmdReturn
  BY <1>2 DEF CmdNotify, CmdSent, CmdReturn, CmdEndReturn
<1>3. CASE (CmdIdle \/ CmdFail) /\ UNCHANGED hcivars
  BY <1>3 DEF CmdIdle, CmdFail
<1>4. CASE CmdAgain /\ UNCHANGED hcivars
  <2>1. ~(RequestState = "CMD_WAIT" /\ ControlState = "COMPLETE")
    BY <1>4 DEF CmdAgain, CtlResult
  <2> QED
    BY <1>4, <2>1 DEF CmdAgain, CmdRequest, cmdframe
<1>5. CASE AcloNotify \/ AcloReturn
  BY <1>5 DEF AcloNotify, AcloSent, AcloReturn, AcloEndReturn, acloframe, h2_tx_end_notify,
     h2_tx_end_return
<1>6. CASE (InterfaceInit \/ StMachine) /\ UNCHANGED hcivars
  BY <1>6 DEF InterfaceInit, StMachine
<1>7. CASE (EvtSample \/ EvtArm \/ EvtTimeout \/ EvtStall \/ EvtWait) /\ UNCHANGED hcivars
  BY <1>7 DEF EvtSample, EvtArm, EvtTimeout, EvtStall, EvtWait, evtframe
<1>8. CASE Receive /\ UNCHANGED hcivars
  BY <1>8 DEF Receive, EvtReceived, EvtRxReturn, AcliReceived, AcliRxReturn, evtframe, acliframe
<1>9. CASE (AcloIdle \/ AcloSend \/ AcloStall) /\ UNCHANGED hcivars
  BY <1>9 DEF AcloIdle, AcloSend, AcloStall, acloframe
<1>10. CASE (AcliArm \/ AcliStall \/ AcliWait) /\ UNCHANGED hcivars
  BY <1>10 DEF AcliArm, AcliStall, AcliWait, acliframe
<1>11. CASE pc = "loop" /\ Enumerate /\ UNCHANGED <<corevars, hcivars>>
  BY <1>11 DEF Enumerate
<1>12. ASSUME NEW outcome \in CtlOutcomes, pc = "loop",
             HandleControl(outcome), UNCHANGED <<corevars, hcivars>>
      PROVE  EventInv'
  BY <1>12, HandleControlCases DEF HandleControl
<1>13. ASSUME NEW type \in DOMAIN PacketSizes, NEW size \in PacketSizes[type],
             HciSend(type, size)
      PROVE  EventInv'
  BY <1>13, SendTaken DEF HciSend, h2_send_packet, hal_ub_tx_packet
<1>14. CASE (Plug \/ Unplug \/ FrameTick) /\ UNCHANGED <<corevars, hcivars>>
  BY <1>14 DEF Plug, Unplug, FrameTick
<1>15. ASSUME NEW ep \in EP, NEW outcome \in UrbOutcomes[ep],
             UrbAnswer(ep, outcome), UNCHANGED <<corevars, hcivars>>
      PROVE  EventInv'
  BY <1>15 DEF UrbAnswer, Refused
<1>16. CASE UNCHANGED vars
  BY <1>16
<1> QED
  BY <1>1, <1>2, <1>3, <1>4, <1>5, <1>6, <1>7, <1>8, <1>9, <1>10, <1>11,
     <1>12, <1>13, <1>14, <1>15, <1>16
  DEF Next, MainStep, StackStep, IsrStep, PollStep, ProcessStep

(* With a dongle that never halts an IN endpoint, the answer to a command  *)
(* is handed up after the command was reported as sent.                    *)
THEOREM EventsAfterSent ==
  ASSUME ~InMayHalt PROVE Spec => []EventAfterSent
<1>1. TypeOK /\ TxHeldInv /\ PipeInv /\ EventInv /\ [Next]_vars => EventInv'
  BY EventInvStep
<1>2. TxHeldInv /\ EventInv => EventAfterSent
  BY DEF TxHeldInv, EventInv, EventAfterSent
<1> QED
  BY <1>1, <1>2, EventInvInit, PipeAlways, TxHeldAlways, TypeCorrect, PTL DEF Spec

-----------------------------------------------------------------------------
(* Buffers and channels, with any dongle.  A channel that is not allocated *)
(* is idle; an endpoint in its waiting state whose transfer is done holds  *)
(* a packet that was not handed up.                                        *)
BufferInv ==
  /\ InFlightHeld
  /\ RxBufferHeld
  /\ \A ep \in EP \ hcn : urb[ep] = "IDLE"
  /\ gState \in {"HOST_IDLE", "HOST_USR_INPUT"} => hcn = {}
  /\ gState \in {"HOST_CLASS_REQUEST", "HOST_CLASS", "HOST_CTRL_XFER"} => hcn = EP
  /\ gState \in {"HOST_IDLE", "HOST_USR_INPUT", "HOST_CLASS_REQUEST"}
       => /\ RequestState = "CMD_SEND"
          /\ ControlState # "BUSY"
          /\ \A ep \in EP : urb[ep] # "ACTIVE"
  /\ hci_on <=> gState \in {"HOST_CLASS", "HOST_CTRL_XFER"}
  /\ pc # "loop" => gState \in {"HOST_CLASS", "HOST_CTRL_XFER"}
  /\ pc = "cmd_end" => ControlState = "IDLE"
  /\ pc = "aclo_end" => urb["ACLO"] = "DONE"
  /\ evt_state = 1 /\ urb["EVT"] = "DONE" /\ pc # "evt_rx" => "EVT" \in fresh
  /\ acli_state = 1 /\ urb["ACLI"] = "DONE" /\ pc # "acli_rx" => "ACLI" \in fresh

(* BufferInv at first: no channel is allocated.                            *)
LEMMA BufferInvInit == Init => BufferInv
BY DEF Init, HostLibInit, CoreInit, HciInit, BufferInv, InFlightHeld, RxBufferHeld, EP

(* BufferInv in a step, with any dongle.                                   *)
LEMMA BufferInvStep ==
  ASSUME TypeOK, BufferInv, [Next]_vars
  PROVE  BufferInv'
<1> USE DEF TypeOK, HostLibTypeOK, CoreTypeOK, HciTypeOK, GState, EP, BufferInv,
        InFlightHeld, RxBufferHeld, CarriesCommand, vars, libvars, portvars,
        ctlvars, corevars, txvars, evtvars, hcivars, handlers
<1>1. CASE PowerOn
  BY <1>1 DEF PowerOn, ClassRequest, h2_open, hal_ub_reg_tx_end, hal_ub_reg_rx_packet
<1>2. CASE PowerOff
  BY <1>2 DEF PowerOff, InterfaceDeInit, HostDeInit, FreeChannels, h2_close
<1>3. CASE CmdNotify
  BY <1>3, CtlReqCases DEF CmdNotify, CmdSent, CmdRequest, cmdframe,
     h2_tx_end_notify, CtlStarts, CtlWaits, CtlEnds
<1>4. CASE CmdReturn
  BY <1>4 DEF CmdReturn, CmdEndReturn, cmdframe, h2_tx_end_return
<1>5. CASE AcloNotify
  BY <1>5 DEF AcloNotify, AcloSent, acloframe, h2_tx_end_notify
<1>6. CASE AcloReturn
  BY <1>6 DEF AcloReturn, AcloEndReturn, acloframe, h2_tx_end_return
<1>7. CASE InterfaceInit /\ UNCHANGED hcivars
  BY <1>7 DEF InterfaceInit
<1>8. CASE StMachine /\ UNCHANGED hcivars
  BY <1>8 DEF StMachine
<1>9. CASE CmdIdle /\ UNCHANGED hcivars
  BY <1>9 DEF CmdIdle, cmdframe
<1>10. CASE CmdFail /\ UNCHANGED hcivars
  BY <1>10, CtlReqCases DEF CmdFail, CmdRequest, cmdframe, CtlStarts,
     CtlWaits, CtlEnds
<1>11. CASE CmdAgain /\ UNCHANGED hcivars
  BY <1>11, CtlReqCases DEF CmdAgain, CmdRequest, cmdframe, CtlStarts,
     CtlWaits, CtlEnds
<1>12. CASE EvtSample /\ UNCHANGED hcivars
  BY <1>12 DEF EvtSample, evtframe
<1>13. CASE EvtArm /\ UNCHANGED hcivars
  BY <1>13 DEF EvtArm, Submit, evtframe
<1>14. CASE EvtTimeout /\ UNCHANGED hcivars
  BY <1>14 DEF EvtTimeout, evtframe
<1>15. CASE EvtReceived /\ UNCHANGED hcivars
  BY <1>15 DEF EvtReceived, evtframe
<1>16. CASE EvtRxReturn /\ UNCHANGED hcivars
  BY <1>16 DEF EvtRxReturn, evtframe
<1>17. CASE EvtStall /\ UNCHANGED hcivars
  BY <1>17, CtlReqCases DEF EvtStall, ClrFeature, evtframe, CtlStarts,
     CtlWaits, CtlEnds
<1>18. CASE EvtWait /\ UNCHANGED hcivars
  BY <1>18 DEF EvtWait, evtframe
<1>19. CASE AcloIdle /\ UNCHANGED hcivars
  BY <1>19 DEF AcloIdle, acloframe
<1>20. CASE AcloSend /\ UNCHANGED hcivars
  BY <1>20 DEF AcloSend, Submit, acloframe
<1>21. CASE AcloStall /\ UNCHANGED hcivars
  BY <1>21, CtlReqCases DEF AcloStall, ClrFeature, acloframe, CtlStarts,
     CtlWaits, CtlEnds
<1>22. CASE AcliArm /\ UNCHANGED hcivars
  BY <1>22 DEF AcliArm, Submit, acliframe
<1>23. CASE AcliReceived /\ UNCHANGED hcivars
  BY <1>23 DEF AcliReceived, acliframe
<1>24. CASE AcliRxReturn /\ UNCHANGED hcivars
  BY <1>24 DEF AcliRxReturn, acliframe
<1>25. CASE AcliStall /\ UNCHANGED hcivars
  BY <1>25, CtlReqCases DEF AcliStall, ClrFeature, acliframe, CtlStarts,
     CtlWaits, CtlEnds
<1>26. CASE AcliWait /\ UNCHANGED hcivars
  BY <1>26 DEF AcliWait, acliframe
<1>27. CASE pc = "loop" /\ Enumerate /\ UNCHANGED <<corevars, hcivars>>
  BY <1>27 DEF Enumerate
<1>28. ASSUME NEW outcome \in CtlOutcomes, pc = "loop",
             HandleControl(outcome), UNCHANGED <<corevars, hcivars>>
      PROVE  BufferInv'
  BY <1>28, HandleControlCases DEF HandleControl
<1>29. ASSUME NEW type \in DOMAIN PacketSizes, NEW size \in PacketSizes[type],
             HciSend(type, size)
      PROVE  BufferInv'
  BY <1>29 DEF HciSend, StackRuns, h2_send_packet, hal_ub_tx_packet,
     TxAccepts
<1>30. CASE Plug /\ UNCHANGED <<corevars, hcivars>>
  BY <1>30 DEF Plug
<1>31. CASE Unplug /\ UNCHANGED <<corevars, hcivars>>
  BY <1>31 DEF Unplug
<1>32. CASE FrameTick /\ UNCHANGED <<corevars, hcivars>>
  BY <1>32 DEF FrameTick
<1>33. ASSUME NEW ep \in EP, NEW outcome \in UrbOutcomes[ep],
             UrbAnswer(ep, outcome), UNCHANGED <<corevars, hcivars>>
      PROVE  BufferInv'
  BY <1>33 DEF UrbAnswer, Refused
<1>34. CASE UNCHANGED vars
  BY <1>34
<1> QED
  BY <1>1, <1>2, <1>3, <1>4, <1>5, <1>6, <1>7, <1>8, <1>9, <1>10, <1>11,
     <1>12, <1>13, <1>14, <1>15, <1>16, <1>17, <1>18, <1>19, <1>20, <1>21,
     <1>22, <1>23, <1>24, <1>25, <1>26, <1>27, <1>28, <1>29, <1>30, <1>31,
     <1>32, <1>33, <1>34
  DEF Next, MainStep, StackStep, IsrStep, PollStep, Receive, ProcessStep

(* The three properties of buffers and channels rest on this.              *)
LEMMA BufferAlways == Spec => []BufferInv
<1>1. TypeOK /\ BufferInv /\ [Next]_vars => BufferInv'
  BY BufferInvStep
<1> QED
  BY <1>1, BufferInvInit, TypeCorrect, PTL DEF Spec

(* The transmit buffers are not written while the library works on them.   *)
THEOREM TxBuffersHeld == Spec => []InFlightHeld
<1>1. BufferInv => InFlightHeld
  BY DEF BufferInv
<1> QED
  BY <1>1, BufferAlways, PTL

(* The receive buffers are not filled while the stack reads them.          *)
THEOREM RxBuffersHeld == Spec => []RxBufferHeld
<1>1. BufferInv => RxBufferHeld
  BY DEF BufferInv
<1> QED
  BY <1>1, BufferAlways, PTL

(* After the dongle is gone nothing of the class is left running.          *)
THEOREM DetachedIsQuiet == Spec => []DetachedQuiet
<1>1. BufferInv => DetachedQuiet
  BY DEF BufferInv, DetachedQuiet
<1> QED
  BY <1>1, BufferAlways, PTL

-----------------------------------------------------------------------------
(* Only two steps enter rx_handler.                                        *)
LEMMA OnlyReceiveHandsUp ==
  ASSUME [Next]_vars, NEW ep \in {"EVT", "ACLI"}, HandedUp(ep)
  PROVE  (EvtReceived /\ ep = "EVT") \/ (AcliReceived /\ ep = "ACLI")
<1>1. pc' # pc /\ pc' \in {"evt_rx", "acli_rx"}
  BY DEF HandedUp, RxPc
<1>2. EvtReceived \/ AcliReceived
  BY <1>1 DEF Next, MainStep, StackStep, IsrStep, PollStep, Receive, ProcessStep, vars,
     corevars, PowerOn, ClassRequest, PowerOff, InterfaceDeInit, CmdNotify, CmdSent,
     CmdReturn, CmdEndReturn, AcloNotify, AcloSent, AcloReturn, AcloEndReturn,
     InterfaceInit, StMachine, CmdIdle, CmdFail, CmdAgain, EvtSample, EvtArm, EvtTimeout,
     EvtRxReturn, EvtStall, EvtWait, AcloIdle, AcloSend, AcloStall, AcliArm,
     AcliRxReturn, AcliStall, AcliWait, HciSend, hal_ub_tx_packet
<1>3. CASE EvtReceived
  <2>1. pc' = "evt_rx"
    BY <1>3 DEF EvtReceived
  <2> QED
    BY <1>3, <2>1 DEF HandedUp, RxPc
<1>4. CASE AcliReceived
  <2>1. pc' = "acli_rx"
    BY <1>4 DEF AcliReceived
  <2> QED
    BY <1>4, <2>1 DEF HandedUp, RxPc
<1> QED
  BY <1>2, <1>3, <1>4

(* rx_handler is never called twice for one packet.                        *)
THEOREM NeverTwice == Spec => NothingTwice
<1>1. BufferInv /\ [Next]_vars
        => [\A ep \in {"EVT", "ACLI"} : HandedUp(ep) => ep \in fresh]_vars
  BY OnlyReceiveHandsUp DEF BufferInv, EvtReceived, AcliReceived
<1> QED
  BY <1>1, BufferAlways, PTL DEF Spec, NothingTwice

-----------------------------------------------------------------------------
(* The refinement.  Most steps leave alone everything the port is made of. *)
Ending == pc \in {"cmd_end", "aclo_end"}

(* Such a step leaves the port alone.                                      *)
LEMMA PortStutters ==
  ASSUME UNCHANGED <<hci_on, tx_busy, cmd_busy, aclo_busy, wire>>, Ending' <=> Ending
  PROVE  UNCHANGED Port!portvars
BY DEF Ending, PortPacket, PortPhase, Port!portvars

(* While the stack is off there is no packet in the port.                  *)
LEMMA PortOff ==
  ASSUME ~hci_on, ~hci_on', UNCHANGED hci_on
  PROVE  UNCHANGED Port!portvars
BY DEF PortPacket, PortPhase, Port!portvars

(* The dongle takes a packet: the port's own, or one it knows nothing of.  *)
LEMMA PortTransmits ==
  ASSUME NEW type, wire' = wire \cup {type},
         UNCHANGED <<hci_on, tx_busy, cmd_busy, aclo_busy, pc>>
  PROVE  Port!Transmit \/ UNCHANGED Port!portvars
<1>1. PortPacket' = PortPacket
  BY DEF PortPacket
<1> DEFINE Waits == /\ PortPacket # "NONE" /\ PortPacket = type /\ PortPacket \notin wire
                    /\ ~Ending /\ ~(cmd_busy = 0 /\ aclo_busy = 0)
<1>2. CASE ~Waits
  BY <1>1, <1>2 DEF PortPhase, Ending, Port!portvars
<1>3. CASE Waits
  <2>1. PortPhase = "queued" /\ PortPhase' = "wire"
    BY <1>1, <1>3 DEF PortPhase, Ending
  <2> QED
    BY <1>1, <2>1 DEF Port!Transmit, Port!Step
<1> QED
  BY <1>2, <1>3

(* The port at first.                                                      *)
LEMMA PortInit == Init => Port!Init
BY DEF Init, HostLibInit, CoreInit, HciInit, Port!Init, PortPacket, PortPhase

(* Each step of the driver and the transport is one of the port, or none:  *)
(* a command whose transfer failed gets stuck, and one that ends before    *)
(* the dongle has it, where an IN endpoint may halt, is misreported.       *)
LEMMA PortStep ==
  ASSUME TypeOK, TxHeldInv, InMayHalt \/ PipeInv, CtlMayFail \/ CtlNeverFails, [Next]_vars
  PROVE  [Port!Next]_(Port!portvars)
<1> USE PortStutters DEF TypeOK, CoreTypeOK, HciTypeOK, TxHeldInv,
        Ending, vars, libvars, portvars, ctlvars, corevars, txvars, evtvars, hcivars,
        handlers, Port!Next
<1>1. CASE PowerOn
  BY <1>1 DEF PowerOn, ClassRequest, h2_open, PortPacket, PortPhase, Port!PowerOn
<1>2. CASE PowerOff
  <2>1. CASE hci_on
    BY <1>2, <2>1 DEF PowerOff, InterfaceDeInit, h2_close, PortPacket, PortPhase, Port!PowerOff
  <2>2. CASE ~hci_on
    BY <1>2, <2>2, PortOff DEF PowerOff, h2_close
  <2> QED
    BY <2>1, <2>2
<1>3. CASE CmdNotify
  <2>1. /\ cmd_busy = 1 /\ pc = "cmd" /\ UNCHANGED <<cmd_busy, aclo_busy, wire>>
        /\ RequestState = "CMD_WAIT" /\ ControlState = "COMPLETE"
    BY <1>3, CtlReqCases DEF CmdNotify, CmdSent, CmdRequest, cmdframe, CtlStarts, CtlWaits, CtlEnds
  <2>2. pc' = "cmd_end" /\ UNCHANGED <<tx_busy, hci_on>>
    BY <1>3 DEF CmdNotify, CmdSent, h2_tx_end_notify
  <2>3. hci_on /\ tx_busy = 1 /\ aclo_busy = 0
    BY <2>1
  <2>4. /\ PortPacket = "COMMAND" /\ PortPacket' = "COMMAND" /\ PortPhase' = "announced"
        /\ PortPhase = IF "COMMAND" \in wire THEN "wire" ELSE "queued"
    BY <2>1, <2>2, <2>3 DEF PortPacket, PortPhase
  <2>5. CASE "COMMAND" \in wire
    BY <2>2, <2>4, <2>5 DEF Port!Announce, Port!Step
  <2>6. CASE "COMMAND" \notin wire
    <3>1. InMayHalt
      BY <2>1, <2>6 DEF PipeInv
    <3> QED
      BY <2>2, <2>4, <2>6, <3>1 DEF Port!Misreport, Port!Step
  <2> QED
    BY <2>5, <2>6
<1>4. CASE CmdReturn
  BY <1>4 DEF CmdReturn, CmdEndReturn, cmdframe, h2_tx_end_return, PortPacket, PortPhase,
     Port!Release
<1>5. CASE AcloNotify
  <2>1. /\ aclo_busy = 1 /\ "ACL" \in wire /\ pc = "aclo" /\ pc' = "aclo_end"
        /\ UNCHANGED <<cmd_busy, aclo_busy, wire, tx_busy, hci_on>>
    BY <1>5 DEF AcloNotify, AcloSent, acloframe, h2_tx_end_notify
  <2>2. hci_on /\ tx_busy = 1 /\ cmd_busy = 0
    BY <2>1
  <2> QED
    BY <2>1, <2>2 DEF PortPacket, PortPhase, Port!Announce, Port!Step
<1>6. CASE AcloReturn
  BY <1>6 DEF AcloReturn, AcloEndReturn, acloframe, h2_tx_end_return, PortPacket, PortPhase,
     Port!Release
<1>7. CASE InterfaceInit /\ UNCHANGED hcivars
  BY <1>7, PortOff DEF InterfaceInit
<1>8. CASE StMachine /\ UNCHANGED hcivars
  BY <1>8 DEF StMachine
<1>9. CASE CmdIdle /\ UNCHANGED hcivars
  BY <1>9 DEF CmdIdle, cmdframe
<1>10. CASE CmdFail /\ UNCHANGED hcivars
  <2>1. CtlMayFail
    BY <1>10 DEF CmdFail, CtlResult, CtlNeverFails
  <2>2. /\ pc = "cmd" /\ pc' = "evt" /\ cmd_busy = 1 /\ cmd_busy' = 0
        /\ UNCHANGED <<aclo_busy, wire, tx_busy, hci_on>>
    BY <1>10 DEF CmdFail, CmdRequest, cmdframe
  <2>3. hci_on /\ tx_busy = 1 /\ aclo_busy = 0
    BY <2>2
  <2>4. /\ PortPacket = "COMMAND" /\ PortPacket' = "COMMAND" /\ PortPhase' = "stuck"
        /\ PortPhase \in {"queued", "wire"}
    BY <2>2, <2>3 DEF PortPacket, PortPhase
  <2> QED
    BY <2>1, <2>2, <2>4 DEF Port!Stick, Port!Step
<1>11. CASE CmdAgain /\ UNCHANGED hcivars
  BY <1>11 DEF CmdAgain, CmdRequest, cmdframe
<1>12. CASE (EvtSample \/ EvtTimeout \/ EvtWait) /\ UNCHANGED hcivars
  BY <1>12 DEF EvtSample, EvtTimeout, EvtWait, evtframe
<1>13. CASE (EvtArm \/ EvtStall) /\ UNCHANGED hcivars
  BY <1>13 DEF EvtArm, EvtStall, evtframe
<1>14. CASE (EvtReceived \/ EvtRxReturn) /\ UNCHANGED hcivars
  BY <1>14 DEF EvtReceived, EvtRxReturn, evtframe
<1>15. CASE (AcloIdle \/ AcloSend \/ AcloStall) /\ UNCHANGED hcivars
  BY <1>15 DEF AcloIdle, AcloSend, AcloStall, acloframe
<1>16. CASE (AcliArm \/ AcliStall \/ AcliWait) /\ UNCHANGED hcivars
  BY <1>16 DEF AcliArm, AcliStall, AcliWait, acliframe
<1>17. CASE (AcliReceived \/ AcliRxReturn) /\ UNCHANGED hcivars
  BY <1>17 DEF AcliReceived, AcliRxReturn, acliframe
<1>18. CASE pc = "loop" /\ Enumerate /\ UNCHANGED <<corevars, hcivars>>
  BY <1>18 DEF Enumerate
<1>19. ASSUME NEW outcome \in CtlOutcomes, pc = "loop",
             HandleControl(outcome), UNCHANGED <<corevars, hcivars>>
      PROVE  [Port!Next]_(Port!portvars)
  <2>1. wire' = wire \/ wire' = wire \cup {"COMMAND"}
    BY <1>19 DEF HandleControl
  <2> QED
    BY <1>19, <2>1, PortTransmits
<1>20. ASSUME NEW type \in DOMAIN PacketSizes, NEW size \in PacketSizes[type],
             HciSend(type, size)
      PROVE  [Port!Next]_(Port!portvars)
  <2>1. /\ type \in {"COMMAND", "ACL"} /\ TxAccepts(type, size)
        /\ hci_on /\ tx_busy = 0 /\ cmd_busy = 0 /\ aclo_busy = 0
    BY <1>20, SendTaken
  <2>2. hci_on' = hci_on /\ tx_busy' = 1 /\ ~Ending /\ pc' = pc
    BY <1>20, <2>1 DEF HciSend, h2_send_packet, hal_ub_tx_packet
  <2>3. /\ type \notin wire'
        /\ cmd_busy' = (IF type = "COMMAND" THEN 1 ELSE 0)
        /\ aclo_busy' = (IF type = "ACL" THEN 1 ELSE 0)
    BY <1>20, <2>1 DEF HciSend, hal_ub_tx_packet
  <2>4. PortPacket = "NONE" /\ PortPhase = "idle"
    BY <2>1 DEF PortPacket, PortPhase
  <2>5. PortPacket' = type
    BY <2>1, <2>2, <2>3 DEF PortPacket
  <2>6. PortPhase' = "queued"
    BY <2>1, <2>2, <2>3, <2>5 DEF PortPhase
  <2> QED
    BY <2>1, <2>2, <2>4, <2>5, <2>6 DEF Port!Send, Port!Packets
<1>21. CASE (Plug \/ Unplug \/ FrameTick) /\ UNCHANGED <<corevars, hcivars>>
  BY <1>21 DEF Plug, Unplug, FrameTick
<1>22. ASSUME NEW ep \in EP, NEW outcome \in UrbOutcomes[ep],
             UrbAnswer(ep, outcome), UNCHANGED <<corevars, hcivars>>
      PROVE  [Port!Next]_(Port!portvars)
  <2>1. wire' = wire \/ wire' = wire \cup {"ACL"}
    BY <1>22 DEF UrbAnswer, Refused
  <2> QED
    BY <1>22, <2>1, PortTransmits
<1>23. CASE UNCHANGED vars
  BY <1>23
<1> QED
  BY <1>1, <1>2, <1>3, <1>4, <1>5, <1>6, <1>7, <1>8, <1>9, <1>10, <1>11,
     <1>12, <1>13, <1>14, <1>15, <1>16, <1>17, <1>18, <1>19, <1>20, <1>21,
     <1>22, <1>23
  DEF Next, MainStep, StackStep, IsrStep, PollStep, Receive, ProcessStep

(* Whatever the dongle does, the driver and the transport implement the    *)
(* one-packet port, with the faults of the port that this dongle can cause *)
(* and no other.                                                           *)
THEOREM PortImplemented == Spec => ImplementsPort
<1> DEFINE Piped == InMayHalt \/ PipeInv
           Failing == CtlMayFail \/ CtlNeverFails
<1>1. Spec => []Piped
  <2>1. CASE InMayHalt
    <3>1. Piped
      BY <2>1
    <3> QED
      BY <3>1, PTL
  <2>2. CASE ~InMayHalt
    <3>1. PipeInv => Piped
      OBVIOUS
    <3>2. Spec => []PipeInv
      BY <2>2, PipeAlways
    <3> QED
      BY <3>1, <3>2, PTL
  <2> QED
    BY <2>1, <2>2
<1>2. Spec => []Failing
  <2>1. CASE CtlMayFail
    <3>1. Failing
      BY <2>1
    <3> QED
      BY <3>1, PTL
  <2>2. CASE ~CtlMayFail
    <3>1. CtlNeverFails => Failing
      OBVIOUS
    <3>2. Spec => []CtlNeverFails
      BY <2>2, CtlNeverFailsAlways
    <3> QED
      BY <3>1, <3>2, PTL
  <2> QED
    BY <2>1, <2>2
<1>3. TypeOK /\ TxHeldInv /\ Piped /\ Failing /\ [Next]_vars => [Port!Next]_(Port!portvars)
  BY PortStep
<1> HIDE DEF Piped, Failing
<1> QED
  BY <1>1, <1>2, <1>3, PortInit, TxHeldAlways, TypeCorrect, PTL DEF Spec, ImplementsPort, Port!Spec

-----------------------------------------------------------------------------
(* The safety that liveness rests on, with any dongle: what the driver     *)
(* waits for can still come.  A control request that is out is either in   *)
(* the library's hands or has its answer ready, and an ACL packet that is  *)
(* out is in its channel.                                                  *)
Answered == ControlState \in {"COMPLETE", "ERROR", "STALLED"}

RequestHeld ==
  /\ RequestState = "CMD_WAIT" => hci_on /\ (gState = "HOST_CTRL_XFER" \/ Answered)
  /\ gState = "HOST_CTRL_XFER" => RequestState = "CMD_WAIT" /\ ControlState = "BUSY"

AclHeld == hci_on /\ aclo_busy = 1 /\ aclo_state = 1 => urb["ACLO"] # "IDLE"

WaitsInv == RequestHeld /\ AclHeld

(* A packet that the transport holds is still with the driver, and what    *)
(* the driver waits for is one of the answers it acts on; or the transport *)
(* is wedged.                                                              *)
HeldOrWedged ==
  hci_on /\ tx_busy = 1 =>
    \/ cmd_busy = 1
    \/ aclo_busy = 1 /\ (aclo_state = 0 \/ urb["ACLO"] \in {"ACTIVE", "DONE", "STALL"})
    \/ Wedged

(* WaitsInv at first: nothing is out.                                      *)
LEMMA WaitsInvInit == Init => WaitsInv
BY DEF Init, HostLibInit, CoreInit, HciInit, WaitsInv, RequestHeld, AclHeld

(* Each step keeps WaitsInv, and only PowerOff ends a wedge.               *)
LEMMA WaitsInvStep ==
  ASSUME TypeOK, TxHeldInv, WaitsInv, [Next]_vars
  PROVE  WaitsInv' /\ (Wedged => Wedged' \/ PowerOff)
<1> USE DEF TypeOK, HostLibTypeOK, CoreTypeOK, HciTypeOK, GState, EP, TxHeldInv,
        WaitsInv, RequestHeld, AclHeld, Answered, Wedged,
        vars, libvars, portvars, ctlvars, corevars, txvars, evtvars, hcivars, handlers
<1>1. CASE PowerOn
  BY <1>1 DEF PowerOn, ClassRequest, h2_open, hal_ub_reg_tx_end, hal_ub_reg_rx_packet
<1>2. CASE PowerOff
  BY <1>2 DEF PowerOff, InterfaceDeInit, HostDeInit, FreeChannels, h2_close
<1>3. CASE CmdNotify
  BY <1>3, CtlReqCases DEF CmdNotify, CmdSent, CmdRequest, cmdframe,
     h2_tx_end_notify, CtlStarts, CtlWaits, CtlEnds
<1>4. CASE CmdReturn
  BY <1>4 DEF CmdReturn, CmdEndReturn, cmdframe, h2_tx_end_return
<1>5. CASE AcloNotify
  BY <1>5 DEF AcloNotify, AcloSent, acloframe, h2_tx_end_notify
<1>6. CASE AcloReturn
  BY <1>6 DEF AcloReturn, AcloEndReturn, acloframe, h2_tx_end_return
<1>7. CASE InterfaceInit /\ UNCHANGED hcivars
  BY <1>7 DEF InterfaceInit
<1>8. CASE StMachine /\ UNCHANGED hcivars
  BY <1>8 DEF StMachine
<1>9. CASE CmdIdle /\ UNCHANGED hcivars
  BY <1>9 DEF CmdIdle, cmdframe
<1>10. CASE CmdFail /\ UNCHANGED hcivars
  <2>1. CtlEnds /\ ControlState = "ERROR" /\ ControlState' = "ERROR"
    BY <1>10, CtlReqCases DEF CmdFail, CmdRequest, CtlStarts, CtlWaits, CtlEnds
  <2> QED
    BY <1>10, <2>1 DEF CmdFail, CmdRequest, cmdframe, CtlEnds
<1>11. CASE CmdAgain /\ UNCHANGED hcivars
  BY <1>11, CtlReqCases DEF CmdAgain, CmdRequest, cmdframe, CtlStarts,
     CtlWaits, CtlEnds
<1>12. CASE (EvtSample \/ EvtTimeout \/ EvtWait) /\ UNCHANGED hcivars
  BY <1>12 DEF EvtSample, EvtTimeout, EvtWait, evtframe
<1>13. CASE EvtArm /\ UNCHANGED hcivars
  BY <1>13 DEF EvtArm, Submit, evtframe
<1>14. CASE (EvtReceived \/ EvtRxReturn) /\ UNCHANGED hcivars
  BY <1>14 DEF EvtReceived, EvtRxReturn, evtframe
<1>15. CASE EvtStall /\ UNCHANGED hcivars
  BY <1>15, CtlReqCases DEF EvtStall, ClrFeature, evtframe, CtlStarts,
     CtlWaits, CtlEnds
<1>16. CASE AcloIdle /\ UNCHANGED hcivars
  BY <1>16 DEF AcloIdle, acloframe
<1>17. CASE AcloSend /\ UNCHANGED hcivars
  BY <1>17 DEF AcloSend, Submit, acloframe
<1>18. CASE AcloStall /\ UNCHANGED hcivars
  BY <1>18, CtlReqCases DEF AcloStall, ClrFeature, acloframe, CtlStarts,
     CtlWaits, CtlEnds
<1>19. CASE AcliArm /\ UNCHANGED hcivars
  BY <1>19 DEF AcliArm, Submit, acliframe
<1>20. CASE (AcliReceived \/ AcliRxReturn \/ AcliWait) /\ UNCHANGED hcivars
  BY <1>20 DEF AcliReceived, AcliRxReturn, AcliWait, acliframe
<1>21. CASE AcliStall /\ UNCHANGED hcivars
  BY <1>21, CtlReqCases DEF AcliStall, ClrFeature, acliframe, CtlStarts,
     CtlWaits, CtlEnds
<1>22. CASE pc = "loop" /\ Enumerate /\ UNCHANGED <<corevars, hcivars>>
  BY <1>22 DEF Enumerate
<1>23. ASSUME NEW outcome \in CtlOutcomes, pc = "loop",
             HandleControl(outcome), UNCHANGED <<corevars, hcivars>>
      PROVE  WaitsInv' /\ (Wedged => Wedged')
  BY <1>23, HandleControlCases DEF HandleControl
<1>24. ASSUME NEW type \in DOMAIN PacketSizes, NEW size \in PacketSizes[type],
             HciSend(type, size)
      PROVE  WaitsInv' /\ (Wedged => Wedged')
  BY <1>24, SendTaken DEF HciSend, h2_send_packet, hal_ub_tx_packet
<1>25. CASE (Plug \/ Unplug \/ FrameTick) /\ UNCHANGED <<corevars, hcivars>>
  BY <1>25 DEF Plug, Unplug, FrameTick
<1>26. ASSUME NEW ep \in EP, NEW outcome \in UrbOutcomes[ep],
             UrbAnswer(ep, outcome), UNCHANGED <<corevars, hcivars>>
      PROVE  WaitsInv' /\ (Wedged => Wedged')
  <2>1. outcome # "IDLE"
    BY HostLibAssumed DEF HostLibAssumption
  <2> QED
    BY <1>26, <2>1 DEF UrbAnswer, Refused
<1>27. CASE UNCHANGED vars
  BY <1>27
<1> QED
  BY <1>1, <1>2, <1>3, <1>4, <1>5, <1>6, <1>7, <1>8, <1>9, <1>10, <1>11,
     <1>12, <1>13, <1>14, <1>15, <1>16, <1>17, <1>18, <1>19, <1>20, <1>21,
     <1>22, <1>23, <1>24, <1>25, <1>26, <1>27
  DEF Next, MainStep, StackStep, IsrStep, PollStep, Receive, ProcessStep

LEMMA WaitsAlways == Spec => []WaitsInv
<1>1. TypeOK /\ TxHeldInv /\ WaitsInv /\ [Next]_vars => WaitsInv'
  BY WaitsInvStep
<1> QED
  BY <1>1, WaitsInvInit, TxHeldAlways, TypeCorrect, PTL DEF Spec

(* With any dongle, the shared control pipe never waits for a transfer     *)
(* that is nowhere: the next USBH_CtlReq finds an answer, or USBH_Process  *)
(* is at the transfer.                                                     *)
THEOREM RequestsNeverOrphaned == Spec => []RequestHeld
<1>1. WaitsInv => RequestHeld
  BY DEF WaitsInv
<1> QED
  BY <1>1, WaitsAlways, PTL

(* With any dongle, a packet that the transport counts as sent but not     *)
(* reported is never lost track of but in the ways Wedged names: a command *)
(* is with the driver, which asks for its end in each pass; an ACL packet  *)
(* is about to be sent, in its channel, or ended in a way the next pass    *)
(* acts on.                                                                *)
THEOREM AlwaysHeldOrWedged == Spec => []HeldOrWedged
<1>1. TypeOK /\ WaitsInv => HeldOrWedged
  <2> SUFFICES ASSUME TypeOK, WaitsInv, hci_on, tx_busy = 1,
                      cmd_busy # 1, aclo_busy = 1, aclo_state # 0,
                      urb["ACLO"] \notin {"ACTIVE", "DONE", "STALL"}
               PROVE  Wedged
    BY DEF HeldOrWedged, Wedged, TypeOK, CoreTypeOK
  <2>1. aclo_state = 1
    BY DEF TypeOK, CoreTypeOK
  <2>2. urb["ACLO"] \in {"IDLE", "ERROR", "NOTREADY"}
    BY DEF TypeOK, HostLibTypeOK, EP
  <2> QED
    BY <2>1, <2>2 DEF Wedged, WaitsInv, AclHeld
<1> QED
  BY <1>1, WaitsAlways, TypeCorrect, PTL

(* A wedged transport stays wedged, with any dongle, until the dongle is   *)
(* pulled out: no later packet, event or transfer frees it.  This is why   *)
(* TxEnds names Wedged as an end of its own.                               *)
THEOREM WedgedTillPowerOff == Spec => [][Wedged => Wedged' \/ PowerOff]_vars
<1>1. TypeOK /\ TxHeldInv /\ WaitsInv /\ [Next]_vars => (Wedged => Wedged' \/ PowerOff)
  BY WaitsInvStep
<1> QED
  BY <1>1, WaitsAlways, TxHeldAlways, TypeCorrect, PTL DEF Spec

=============================================================================

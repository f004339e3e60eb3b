----------------------------- MODULE UsbhBtCore -----------------------------
(***************************************************************************)
(* usbh_bt_core.c: the USB class driver of the Bluetooth dongle (the       *)
(* normal mode, BT_State.loading_fw = 0).  USBH_Process calls              *)
(* USBH_BT_StMachine over and over; one call polls the command, event,     *)
(* ACL-out and ACL-in endpoints in this order.                             *)
(*                                                                         *)
(* pc is the main thread's place in a pass.  A step ends where the code    *)
(* reads what an interrupt writes (the frame number, a URB state), and     *)
(* where it calls the HCI transport, so that the interrupts, and the       *)
(* Bluetooth stack inside a callback, fall between the steps:              *)
(*   loop     outside USBH_BT_StMachine: USBH_Process and the stack        *)
(*   cmd      about to run usb_bt_cmd_process                              *)
(*   cmd_end  inside tx_end_handler(HCI_COMMAND_DATA_PACKET)               *)
(*   evt      about to run usb_bt_evt_process                              *)
(*   evt_go   its frame number is read into cur_fn                         *)
(*   evt_rx   inside rx_handler(HCI_EVENT_PACKET)                          *)
(*   aclo, aclo_end, acli, acli_rx: likewise                               *)
(*                                                                         *)
(* A definition whose name ends in _Wrong is no part of the model: it is a *)
(* plausible mistake in the definition that follows it, kept to show that  *)
(* a property would notice.                                                *)
(***************************************************************************)
EXTENDS HostLib

CMD_ALIGNED_MAX_SIZE == 260
ACL_ALIGNED_MAX_SIZE == 64

VARIABLES
  pc,
  cur_fn,                             (* local of usb_bt_evt_process     *)
  cmd_busy, cmd_state,
  evt_state, evt_tmo,
  aclo_busy, aclo_state,
  acli_state,
  hcn,                                (* endpoints whose ..._hcn is set  *)
  armed                               (* history: the frame number that  *)
                                      (* was read when the event         *)
                                      (* endpoint was armed              *)

txvars   == <<cmd_busy, cmd_state, aclo_busy, aclo_state>>
evtvars  == <<cur_fn, evt_state, evt_tmo, armed>>
corevars == <<pc, txvars, evtvars, acli_state, hcn>>

CoreTypeOK ==
  /\ pc \in {"loop", "cmd", "cmd_end", "evt", "evt_go", "evt_rx",
             "aclo", "aclo_end", "acli", "acli_rx"}
  /\ cur_fn \in 0 .. FRNUM_PERIOD - 1
  /\ cmd_busy \in {0, 1}
  /\ cmd_state \in 0 .. 1
  /\ evt_state \in 0 .. 2
  /\ evt_tmo \in 0 .. FRNUM_PERIOD - 1
  /\ aclo_busy \in {0, 1}
  /\ aclo_state \in 0 .. 1
  /\ acli_state \in 0 .. 1
  /\ hcn \subseteq EP
  /\ armed \in 0 .. FRNUM_PERIOD - 1

CoreInit ==
  /\ pc = "loop"
  /\ cur_fn = 0
  /\ cmd_busy = 0
  /\ cmd_state = 0
  /\ evt_state = 0
  /\ evt_tmo = 0
  /\ aclo_busy = 0
  /\ aclo_state = 0
  /\ acli_state = 0
  /\ hcn = {}
  /\ armed = 0

-----------------------------------------------------------------------------
(* The interface to the HCI transport.                                     *)

TxAccepts(type, size) ==
  \/ type = "COMMAND" /\ cmd_busy = 0 /\ size <= CMD_ALIGNED_MAX_SIZE
  \/ type = "ACL" /\ aclo_busy = 0 /\ size <= ACL_ALIGNED_MAX_SIZE

(* A refused packet (return -1) changes nothing.                           *)
hal_ub_tx_packet(type, size) ==
  /\ \/ /\ ~TxAccepts(type, size)
        /\ UNCHANGED <<txvars, wire>>
     \/ /\ TxAccepts(type, size)
        /\ type = "COMMAND"
        /\ cmd_state' = 0
        /\ cmd_busy' = 1
        /\ wire' = wire \ {"COMMAND"}
        /\ UNCHANGED <<aclo_busy, aclo_state>>
     \/ /\ TxAccepts(type, size)
        /\ type = "ACL"
        /\ aclo_state' = 0
        /\ aclo_busy' = 1
        /\ wire' = wire \ {"ACL"}
        /\ UNCHANGED <<cmd_busy, cmd_state>>
  /\ UNCHANGED <<pc, evtvars, acli_state, hcn, portvars, ctlvars, urb, frame, lag, fresh>>

-----------------------------------------------------------------------------
(* USB class callbacks around the life of a device.                        *)

(* A device of another class is refused each time USBH_Process asks.       *)
InterfaceInit ==
  /\ pc = "loop"
  /\ connected
  /\ gState = "HOST_USR_INPUT"
  /\ wireless
  /\ hcn' = EP
  /\ cmd_busy' = 0
  /\ cmd_state' = 0
  /\ evt_state' = 0
  /\ aclo_busy' = 0
  /\ aclo_state' = 0
  /\ acli_state' = 0
  /\ gState' = "HOST_CLASS_REQUEST"
  /\ UNCHANGED <<pc, cur_fn, evt_tmo, armed, portvars, RequestState, ControlState, setup,
                 ControlBuff, urb, frame, lag, wire, fresh>>

ClassRequest ==
  /\ pc = "loop"
  /\ connected
  /\ gState = "HOST_CLASS_REQUEST"
  /\ gState' = "HOST_CLASS"
  /\ UNCHANGED <<corevars, portvars, RequestState, ControlState, setup, ControlBuff,
                 urb, frame, lag, wire, fresh>>

(* The macro used for two of the three channels only.                      *)
FreeChannels_Wrong(eps) ==
  /\ urb' = [ep \in EP |-> IF ep \in (eps \ {"ACLI"}) \cap hcn THEN "IDLE" ELSE urb[ep]]
  /\ fresh' = fresh \ eps
  /\ hcn' = hcn \ (eps \ {"ACLI"})

(* bt_free_ch: a channel that was allocated is halted and freed.           *)
FreeChannels(eps) ==
  /\ urb' = [ep \in EP |-> IF ep \in eps \cap hcn THEN "IDLE" ELSE urb[ep]]
  /\ fresh' = fresh \ eps
  /\ hcn' = hcn \ eps

(* USBH_Process finds the device gone: USBH_DeInit, then InterfaceDeInit.  *)
InterfaceDeInit ==
  /\ pc = "loop"
  /\ ~connected
  /\ gState # "HOST_IDLE"
  /\ HostDeInit
  /\ FreeChannels(EP)
  /\ UNCHANGED <<pc, txvars, evtvars, acli_state, portvars, setup, ControlBuff,
                 frame, lag, wire>>

StMachine ==
  /\ pc = "loop"
  /\ connected
  /\ gState = "HOST_CLASS"
  /\ pc' = "cmd"
  /\ UNCHANGED <<txvars, evtvars, acli_state, hcn, libvars>>

-----------------------------------------------------------------------------
(* usb_bt_cmd_process.                                                     *)

cmdframe == <<evtvars, aclo_busy, aclo_state, acli_state, hcn, portvars, urb, frame,
              lag, wire, fresh>>

CmdIdle ==
  /\ pc = "cmd"
  /\ cmd_busy = 0
  /\ pc' = "evt"
  /\ UNCHANGED <<cmd_busy, cmd_state, ctlvars, cmdframe>>

(* The setup packet is filled on the first call for a command; every call  *)
(* asks USBH_CtlReq.                                                       *)
CmdRequest ==
  /\ pc = "cmd"
  /\ cmd_busy = 1
  /\ setup' = IF cmd_state = 0 THEN "COMMAND" ELSE setup
  /\ CtlReq("cmd_packet")
  /\ UNCHANGED cmdframe

(* Any end of the transfer but USBH_FAIL taken for success.                *)
CmdSent_Wrong ==
  /\ CmdRequest
  /\ CtlResult \in {"USBH_OK", "USBH_NOT_SUPPORTED"}
  /\ cmd_state' = 1
  /\ pc' = "cmd_end"
  /\ UNCHANGED cmd_busy

CmdSent ==
  /\ CmdRequest
  /\ CtlResult = "USBH_OK"
  /\ cmd_state' = 1
  /\ pc' = "cmd_end"
  /\ UNCHANGED cmd_busy

(* cmd_busy not cleared.                                                   *)
CmdEndReturn_Wrong ==
  /\ pc = "cmd_end"
  /\ cmd_state' = 0
  /\ pc' = "evt"
  /\ UNCHANGED <<cmd_busy, ctlvars, cmdframe>>

CmdEndReturn ==
  /\ pc = "cmd_end"
  /\ cmd_state' = 0
  /\ cmd_busy' = 0
  /\ pc' = "evt"
  /\ UNCHANGED <<ctlvars, cmdframe>>

(* Everything but USBH_OK taken for failure, USBH_BUSY too.                *)
CmdFail_Wrong ==
  /\ CmdRequest
  /\ CtlResult # "USBH_OK"
  /\ cmd_state' = 0
  /\ cmd_busy' = 0
  /\ pc' = "evt"

(* cmd-fail: the command is given up and nobody is told.                   *)
CmdFail ==
  /\ CmdRequest
  /\ CtlResult = "USBH_FAIL"
  /\ cmd_state' = 0
  /\ cmd_busy' = 0
  /\ pc' = "evt"

(* Busy, or refused by the device (USBH_NOT_SUPPORTED): called again.      *)
CmdAgain ==
  /\ CmdRequest
  /\ CtlResult \in {"USBH_BUSY", "USBH_NOT_SUPPORTED"}
  /\ cmd_state' = 1
  /\ pc' = "evt"
  /\ UNCHANGED cmd_busy

-----------------------------------------------------------------------------
(* usb_bt_evt_process.                                                     *)

evtframe == <<txvars, acli_state, hcn, portvars, frame, wire>>

fn_diff == (FRNUM_PERIOD + cur_fn - evt_tmo) % FRNUM_PERIOD

(* The deadline compared as if the frame number never wrapped.             *)
Expired_Wrong == cur_fn >= evt_tmo

Expired == fn_diff < FRNUM_PERIOD \div 2

EvtSample ==
  /\ pc = "evt"
  /\ cur_fn' = frame
  /\ lag' = 0
  /\ pc' = "evt_go"
  /\ UNCHANGED <<evt_state, evt_tmo, armed, evtframe, ctlvars, urb, fresh>>

(* The deadline not reduced to a frame number.                             *)
EvtArm_WrongRange ==
  /\ pc = "evt_go"
  /\ evt_state = 0
  /\ Submit("EVT")
  /\ evt_tmo' = 2 + cur_fn
  /\ armed' = cur_fn
  /\ evt_state' = 1
  /\ pc' = "aclo"
  /\ UNCHANGED <<cur_fn, evtframe, ctlvars, lag>>

(* The deadline one frame early.                                           *)
EvtArm_WrongFrame ==
  /\ pc = "evt_go"
  /\ evt_state = 0
  /\ Submit("EVT")
  /\ evt_tmo' = (1 + cur_fn) % FRNUM_PERIOD
  /\ armed' = cur_fn
  /\ evt_state' = 1
  /\ pc' = "aclo"
  /\ UNCHANGED <<cur_fn, evtframe, ctlvars, lag>>

EvtArm ==
  /\ pc = "evt_go"
  /\ evt_state = 0
  /\ Submit("EVT")
  /\ evt_tmo' = (2 + cur_fn) % FRNUM_PERIOD
  /\ armed' = cur_fn
  /\ evt_state' = 1
  /\ pc' = "aclo"
  /\ UNCHANGED <<cur_fn, evtframe, ctlvars, lag>>

(* The time-out without effect in state 2.                                 *)
EvtTimeout_Wrong ==
  /\ pc = "evt_go"
  /\ evt_state \in {1, 2}
  /\ Expired
  /\ evt_state' = IF evt_state = 1 THEN 0 ELSE 2
  /\ pc' = "aclo"
  /\ UNCHANGED <<cur_fn, evt_tmo, armed, evtframe, ctlvars, urb, lag, fresh>>

(* States 1 and 2 alike: past evt_tmo the endpoint is polled again.        *)
EvtTimeout ==
  /\ pc = "evt_go"
  /\ evt_state \in {1, 2}
  /\ Expired
  /\ evt_state' = 0
  /\ pc' = "aclo"
  /\ UNCHANGED <<cur_fn, evt_tmo, armed, evtframe, ctlvars, urb, lag, fresh>>

(* The channel re-armed before the stack has read the packet.              *)
EvtReceived_Wrong ==
  /\ pc = "evt_go"
  /\ evt_state = 1
  /\ ~Expired
  /\ urb["EVT"] = "DONE"
  /\ Submit("EVT")
  /\ pc' = "evt_rx"
  /\ UNCHANGED <<evtvars, evtframe, ctlvars, lag>>

EvtReceived ==
  /\ pc = "evt_go"
  /\ evt_state = 1
  /\ ~Expired
  /\ urb["EVT"] = "DONE"
  /\ fresh' = fresh \ {"EVT"}
  /\ pc' = "evt_rx"
  /\ UNCHANGED <<evtvars, evtframe, ctlvars, urb, lag>>

(* State 1 kept after the packet was handed up.                            *)
EvtRxReturn_Wrong ==
  /\ pc = "evt_rx"
  /\ evt_state' = 1
  /\ pc' = "aclo"
  /\ UNCHANGED <<cur_fn, evt_tmo, armed, evtframe, ctlvars, urb, lag, fresh>>

EvtRxReturn ==
  /\ pc = "evt_rx"
  /\ evt_state' = 2
  /\ pc' = "aclo"
  /\ UNCHANGED <<cur_fn, evt_tmo, armed, evtframe, ctlvars, urb, lag, fresh>>

EvtStall ==
  /\ pc = "evt_go"
  /\ evt_state = 1
  /\ ~Expired
  /\ urb["EVT"] = "STALL"
  /\ ClrFeature("EVT")
  /\ evt_state' = IF CtlResult = "USBH_OK" THEN 0 ELSE 1
  /\ pc' = "aclo"
  /\ UNCHANGED <<cur_fn, evt_tmo, armed, evtframe, urb, lag, fresh>>

EvtWait ==
  /\ pc = "evt_go"
  /\ ~Expired
  /\ \/ evt_state = 2
     \/ evt_state = 1 /\ urb["EVT"] \notin {"DONE", "STALL"}
  /\ pc' = "aclo"
  /\ UNCHANGED <<evtvars, evtframe, ctlvars, urb, lag, fresh>>

-----------------------------------------------------------------------------
(* usb_bt_aclo_process(0).                                                 *)

acloframe == <<cmd_busy, cmd_state, evtvars, acli_state, hcn, portvars, frame, lag, wire>>

AcloIdle ==
  /\ pc = "aclo"
  /\ \/ aclo_busy = 0
     \/ aclo_state = 1 /\ urb["ACLO"] \notin {"DONE", "STALL"}
  /\ pc' = "acli"
  /\ UNCHANGED <<aclo_busy, aclo_state, acloframe, ctlvars, urb, fresh>>

AcloSend ==
  /\ pc = "aclo"
  /\ aclo_busy = 1
  /\ aclo_state = 0
  /\ Submit("ACLO")
  /\ aclo_state' = 1
  /\ pc' = "acli"
  /\ UNCHANGED <<aclo_busy, acloframe, ctlvars>>

(* A transfer that failed taken for one that is done.                      *)
AcloSent_Wrong ==
  /\ pc = "aclo"
  /\ aclo_busy = 1
  /\ aclo_state = 1
  /\ urb["ACLO"] \in {"DONE", "ERROR"}
  /\ pc' = "aclo_end"
  /\ UNCHANGED <<aclo_busy, aclo_state, acloframe, ctlvars, urb, fresh>>

AcloSent ==
  /\ pc = "aclo"
  /\ aclo_busy = 1
  /\ aclo_state = 1
  /\ urb["ACLO"] = "DONE"
  /\ pc' = "aclo_end"
  /\ UNCHANGED <<aclo_busy, aclo_state, acloframe, ctlvars, urb, fresh>>

AcloEndReturn ==
  /\ pc = "aclo_end"
  /\ aclo_state' = 0
  /\ aclo_busy' = 0
  /\ pc' = "acli"
  /\ UNCHANGED <<acloframe, ctlvars, urb, fresh>>

(* The packet not sent again after the halt is cleared.                    *)
AcloStall_Wrong ==
  /\ pc = "aclo"
  /\ aclo_busy = 1
  /\ aclo_state = 1
  /\ urb["ACLO"] = "STALL"
  /\ ClrFeature("ACLO")
  /\ aclo_state' = 1
  /\ pc' = "acli"
  /\ UNCHANGED <<aclo_busy, acloframe, urb, fresh>>

AcloStall ==
  /\ pc = "aclo"
  /\ aclo_busy = 1
  /\ aclo_state = 1
  /\ urb["ACLO"] = "STALL"
  /\ ClrFeature("ACLO")
  /\ aclo_state' = IF CtlResult = "USBH_OK" THEN 0 ELSE 1
  /\ pc' = "acli"
  /\ UNCHANGED <<aclo_busy, acloframe, urb, fresh>>

-----------------------------------------------------------------------------
(* usb_bt_acli_process, the last of the pass.                              *)

acliframe == <<txvars, evtvars, hcn, portvars, frame, lag, wire>>

AcliArm ==
  /\ pc = "acli"
  /\ acli_state = 0
  /\ Submit("ACLI")
  /\ acli_state' = 1
  /\ pc' = "loop"
  /\ UNCHANGED <<acliframe, ctlvars>>

AcliReceived ==
  /\ pc = "acli"
  /\ acli_state = 1
  /\ urb["ACLI"] = "DONE"
  /\ fresh' = fresh \ {"ACLI"}
  /\ pc' = "acli_rx"
  /\ UNCHANGED <<acli_state, acliframe, ctlvars, urb>>

AcliRxReturn ==
  /\ pc = "acli_rx"
  /\ acli_state' = 0
  /\ pc' = "loop"
  /\ UNCHANGED <<acliframe, ctlvars, urb, fresh>>

AcliStall ==
  /\ pc = "acli"
  /\ acli_state = 1
  /\ urb["ACLI"] = "STALL"
  /\ ClrFeature("ACLI")
  /\ acli_state' = IF CtlResult = "USBH_OK" THEN 0 ELSE 1
  /\ pc' = "loop"
  /\ UNCHANGED <<acliframe, urb, fresh>>

AcliWait ==
  /\ pc = "acli"
  /\ acli_state = 1
  /\ urb["ACLI"] \notin {"DONE", "STALL"}
  /\ pc' = "loop"
  /\ UNCHANGED <<acli_state, acliframe, ctlvars, urb, fresh>>

-----------------------------------------------------------------------------
(* The steps that call neither the HCI transport nor the stack.            *)
PollStep ==
  \/ StMachine
  \/ CmdIdle \/ CmdFail \/ CmdAgain
  \/ EvtSample \/ EvtArm \/ EvtTimeout \/ EvtStall \/ EvtWait
  \/ AcloIdle \/ AcloSend \/ AcloStall
  \/ AcliArm \/ AcliStall \/ AcliWait

(* USBH_Process outside the class: enumeration, control transfers.         *)
ProcessStep ==
  /\ pc = "loop"
  /\ Enumerate \/ \E outcome \in CtlOutcomes : HandleControl(outcome)
  /\ UNCHANGED corevars

IsrStep ==
  /\ \/ Plug
     \/ Unplug
     \/ FrameTick
     \/ \E ep \in EP : \E outcome \in UrbOutcomes[ep] : UrbAnswer(ep, outcome)
  /\ UNCHANGED corevars
=============================================================================

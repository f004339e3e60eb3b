------------------------------- MODULE HostLib -------------------------------
(***************************************************************************)
(* The part of the ST USB host library that the class driver of uubt       *)
(* (usbh_bt_core.c) rests on.  The library is not part of the repository:  *)
(* it is modelled from the calls usbh_bt_core.c makes, from what it does   *)
(* with their results, and from stm32f4discovery_fw.diff, which shows the  *)
(* request state of USBH_CtlReq (CMD_SEND, CMD_WAIT).                      *)
(*                                                                         *)
(* One control pipe serves every user of USBH_CtlReq.  A request is one    *)
(* setup packet, phost->Control.setup, that the caller fills BEFORE the    *)
(* call, and one request state, phost->RequestState, that says whether a   *)
(* request is out; neither records WHOSE request it is.                    *)
(*                                                                         *)
(* A host channel's URB state is written by the OTG_FS interrupt, that is, *)
(* between any two steps of the main thread.                               *)
(***************************************************************************)
EXTENDS Integers

CONSTANTS
  FRNUM_PERIOD,   (* frame numbers run over 0 .. FRNUM_PERIOD-1          *)
  MaxLag,         (* frames that pass at most between two event polls    *)
  CtlOutcomes,    (* how the device may end a control transfer           *)
  UrbOutcomes     (* how the device may end a transfer on each endpoint  *)

EP == {"EVT", "ACLO", "ACLI"}

HostLibAssumption ==
  /\ FRNUM_PERIOD \in Nat
  /\ FRNUM_PERIOD > 4
  /\ MaxLag \in Nat
  /\ CtlOutcomes \subseteq {"OK", "FAIL", "NOT_SUPPORTED"}
  /\ UrbOutcomes \in [EP -> SUBSET {"DONE", "STALL", "ERROR", "NAK"}]

ASSUME HostLibAssumed == HostLibAssumption

VARIABLES
  connected,      (* HCD_IsDeviceConnected, set by the port interrupt    *)
  wireless,       (* Itf_Desc[0].bInterfaceClass is WIRELESS_CLASS       *)
  gState,         (* phost->gState                                       *)
  RequestState,   (* phost->RequestState                                 *)
  ControlState,   (* phost->Control.state                                *)
  setup,          (* phost->Control.setup: the request it holds          *)
  ControlBuff,    (* phost->Control.buff: the data stage's buffer        *)
  urb,            (* URB state of each endpoint's channel; ACTIVE while  *)
                  (* the core works on it, IDLE when it does not,        *)
                  (* NOTREADY when a packet sent was refused for now     *)
  frame,          (* current frame number                                *)
  lag,            (* frames since the class last read the frame number   *)
  wire,           (* history: the queued packets the device has taken    *)
  fresh           (* history: the IN endpoints whose packet has arrived  *)
                  (* and was not handed up yet                           *)

ctlvars == <<gState, RequestState, ControlState, setup, ControlBuff>>
portvars == <<connected, wireless>>
libvars == <<portvars, ctlvars, urb, frame, lag, wire, fresh>>

GState == {"HOST_IDLE", "HOST_USR_INPUT", "HOST_CLASS_REQUEST", "HOST_CLASS",
           "HOST_CTRL_XFER"}

HostLibTypeOK ==
  /\ connected \in BOOLEAN
  /\ wireless \in BOOLEAN
  /\ gState \in GState
  /\ RequestState \in {"CMD_SEND", "CMD_WAIT"}
  /\ ControlState \in {"IDLE", "BUSY", "COMPLETE", "ERROR", "STALLED"}
  /\ setup \in {"NONE", "COMMAND"} \cup EP
  /\ ControlBuff \in {"NULL", "cmd_packet"}
  /\ urb \in [EP -> {"IDLE", "ACTIVE", "DONE", "STALL", "ERROR", "NOTREADY"}]
  /\ frame \in 0 .. FRNUM_PERIOD - 1
  /\ lag \in 0 .. MaxLag
  /\ wire \subseteq {"COMMAND", "ACL"}
  /\ fresh \subseteq {"EVT", "ACLI"}

HostLibInit ==
  /\ connected = FALSE
  /\ wireless = FALSE
  /\ gState = "HOST_IDLE"
  /\ RequestState = "CMD_SEND"
  /\ ControlState = "IDLE"
  /\ setup = "NONE"
  /\ ControlBuff = "NULL"
  /\ urb = [ep \in EP |-> "IDLE"]
  /\ frame = 0
  /\ lag = 0
  /\ wire = {}
  /\ fresh = {}

-----------------------------------------------------------------------------
(* Calls the class driver makes.                                           *)

(* What the next USBH_CtlReq returns.                                      *)
CtlResult ==
  CASE RequestState = "CMD_WAIT" /\ ControlState = "COMPLETE" -> "USBH_OK"
    [] RequestState = "CMD_WAIT" /\ ControlState = "ERROR"    -> "USBH_FAIL"
    [] RequestState = "CMD_WAIT" /\ ControlState = "STALLED"  -> "USBH_NOT_SUPPORTED"
    [] OTHER                                                  -> "USBH_BUSY"

(* USBH_CtlReq: starts a transfer when no request is out (CMD_SEND), and   *)
(* otherwise reports how the one that is out ended, whoever asked for it.  *)
CtlReq(buff) ==
  \/ /\ RequestState = "CMD_SEND"
     /\ RequestState' = "CMD_WAIT"
     /\ ControlState' = "BUSY"
     /\ ControlBuff' = buff
     /\ gState' = "HOST_CTRL_XFER"
  \/ /\ RequestState = "CMD_WAIT"
     /\ RequestState' = IF CtlResult = "USBH_BUSY" THEN "CMD_WAIT" ELSE "CMD_SEND"
     /\ ControlState' = IF CtlResult = "USBH_OK" THEN "IDLE" ELSE ControlState
     /\ UNCHANGED <<ControlBuff, gState>>

(* USBH_ClrFeature: fills the setup packet, then calls USBH_CtlReq.        *)
ClrFeature(ep) == setup' = ep /\ CtlReq("NULL")

(* USBH_InterruptReceiveData, USBH_BulkSendData, USBH_BulkReceiveData: a   *)
(* packet that waits in an IN channel's buffer is overwritten.             *)
Submit(ep) ==
  /\ urb' = [urb EXCEPT ![ep] = "ACTIVE"]
  /\ fresh' = fresh \ {ep}

-----------------------------------------------------------------------------
(* The main thread's own steps in USBH_Process.  It does nothing else      *)
(* while gState is HOST_CTRL_XFER; a transfer that has not ended leaves    *)
(* the state as it is.                                                     *)

(* The command itself goes over the wire when the transfer that ends is    *)
(* the one its setup packet and its buffer describe.                       *)
CarriesCommand == setup = "COMMAND" /\ ControlBuff = "cmd_packet"

HandleControl(outcome) ==
  /\ gState = "HOST_CTRL_XFER"
  /\ connected
  /\ outcome \in CtlOutcomes
  /\ ControlState' = CASE outcome = "OK"            -> "COMPLETE"
                       [] outcome = "FAIL"          -> "ERROR"
                       [] outcome = "NOT_SUPPORTED" -> "STALLED"
  /\ gState' = "HOST_CLASS"
  /\ wire' = IF outcome = "OK" /\ CarriesCommand THEN wire \cup {"COMMAND"} ELSE wire
  /\ UNCHANGED <<portvars, RequestState, setup, ControlBuff, urb, frame, lag, fresh>>

(* Enumeration is the library's own; it ends before the class's Init.      *)
Enumerate ==
  /\ gState = "HOST_IDLE"
  /\ connected
  /\ gState' = "HOST_USR_INPUT"
  /\ wireless' \in BOOLEAN
  /\ UNCHANGED <<connected, RequestState, ControlState, setup, ControlBuff, urb,
                 frame, lag, wire, fresh>>

(* USBH_DeInit, called when the device is found to be gone.                *)
HostDeInit ==
  /\ gState' = "HOST_IDLE"
  /\ RequestState' = "CMD_SEND"
  /\ ControlState' = "IDLE"

-----------------------------------------------------------------------------
(* Interrupts and hardware.                                                *)

Plug ==
  /\ ~connected
  /\ gState = "HOST_IDLE"
  /\ connected' = TRUE
  /\ UNCHANGED <<wireless, ctlvars, urb, frame, lag, wire, fresh>>

Unplug ==
  /\ connected
  /\ connected' = FALSE
  /\ UNCHANGED <<wireless, ctlvars, urb, frame, lag, wire, fresh>>

(* What a NAK leaves in the URB state: of a poll of the interrupt endpoint *)
(* nothing, of a packet sent that it was not taken.  Whoever sent it must  *)
(* send it again.                                                          *)
Refused(ep) == IF ep = "ACLO" THEN "NOTREADY" ELSE "IDLE"

(* A channel ends its transfer.  The library starts a bulk channel again   *)
(* that is NAKed by itself, but an IN channel only.                        *)
UrbAnswer(ep, outcome) ==
  /\ connected
  /\ urb[ep] = "ACTIVE"
  /\ outcome \in UrbOutcomes[ep]
  /\ outcome = "NAK" => ep # "ACLI"
  /\ urb' = [urb EXCEPT ![ep] = IF outcome = "NAK" THEN Refused(ep) ELSE outcome]
  /\ wire' = IF ep = "ACLO" /\ outcome = "DONE" THEN wire \cup {"ACL"} ELSE wire
  /\ fresh' = IF ep # "ACLO" /\ outcome = "DONE" THEN fresh \cup {ep} ELSE fresh
  /\ UNCHANGED <<portvars, ctlvars, frame, lag>>

(* The frame number advances; MaxLag bounds how long the class may be kept *)
(* from looking (by a control transfer, a delay, the Bluetooth stack).     *)
FrameTick ==
  /\ lag < MaxLag
  /\ lag' = lag + 1
  /\ frame' = (frame + 1) % FRNUM_PERIOD
  /\ UNCHANGED <<portvars, ctlvars, urb, wire, fresh>>
=============================================================================

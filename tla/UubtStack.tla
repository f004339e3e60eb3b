----------------------------- MODULE UubtStack -----------------------------
(***************************************************************************)
(* The class driver and the HCI transport together, driven by the run loop *)
(* (main.c: stlib_usb_process is a BTstack data source, so USBH_Process    *)
(* and the Bluetooth stack share one thread) and interrupted by OTG_FS.    *)
(*                                                                         *)
(* The Bluetooth stack is external: between two passes, and inside every   *)
(* callback, it may send any packet it has.                                *)
(***************************************************************************)
EXTENDS UsbhBtCore, HciTransport

CONSTANT PacketSizes    (* sizes of the packets the stack may send       *)

(* config.h: HCI_ACL_PAYLOAD_SIZE is 52, an ACL packet adds a header of 4  *)
(* bytes; an HCI command has at most 3 + 255.                              *)
HCI_ACL_PAYLOAD_SIZE == 52
MaxPacket == [COMMAND |-> 258, ACL |-> 4 + HCI_ACL_PAYLOAD_SIZE]

ASSUME PacketSizesAssumed ==
  /\ PacketSizes \in [{"COMMAND", "ACL"} -> SUBSET Nat]
  /\ \A type \in {"COMMAND", "ACL"} : \A size \in PacketSizes[type] : size <= MaxPacket[type]

vars == <<libvars, corevars, hcivars>>

Init == HostLibInit /\ CoreInit /\ HciInit

-----------------------------------------------------------------------------
(* Where the Bluetooth stack runs.                                         *)
StackRuns ==
  /\ hci_on
  /\ \/ pc = "loop"
     \/ pc \in {"cmd_end", "aclo_end"} /\ TxEndReachesStack
     \/ pc \in {"evt_rx", "acli_rx"} /\ RxReachesStack

(* hci_send_cmd / l2cap: send_packet is called only when the transport     *)
(* says it can take a packet.                                              *)
HciSend(type, size) ==
  /\ StackRuns
  /\ h2_send_packet
  /\ hal_ub_tx_packet(type, size)

(* The class callbacks that reach the stack.                               *)
PowerOn  == ClassRequest /\ h2_open
PowerOff == InterfaceDeInit /\ h2_close

CmdNotify  == CmdSent /\ h2_tx_end_notify
CmdReturn  == CmdEndReturn /\ h2_tx_end_return
AcloNotify == AcloSent /\ h2_tx_end_notify
AcloReturn == AcloEndReturn /\ h2_tx_end_return

(* h2_rx_cb hands a packet to the stack and leaves the transport as it is. *)
Receive == EvtReceived \/ EvtRxReturn \/ AcliReceived \/ AcliRxReturn

MainStep ==
  \/ PowerOn \/ PowerOff
  \/ CmdNotify \/ CmdReturn \/ AcloNotify \/ AcloReturn
  \/ (InterfaceInit \/ PollStep \/ Receive \/ ProcessStep) /\ UNCHANGED hcivars

StackStep == \E type \in DOMAIN PacketSizes : \E size \in PacketSizes[type] :
               HciSend(type, size)

Next ==
  \/ MainStep
  \/ StackStep
  \/ IsrStep /\ UNCHANGED hcivars

Spec == Init /\ [][Next]_vars

-----------------------------------------------------------------------------
(* Safety.                                                                 *)

(* Every variable of the driver, the transport and the library keeps to    *)
(* the values the code gives it.                                           *)
TypeOK == HostLibTypeOK /\ CoreTypeOK /\ HciTypeOK

(* tx_busy in the transport and cmd_busy / aclo_busy in the driver are two *)
(* records of one fact, kept by two modules and cleared in different       *)
(* places: while the stack is on, the transport is busy exactly while the  *)
(* driver holds one packet, and the driver never holds two.  If it fails   *)
(* one way the transport is wedged, if the other way a packet that the     *)
(* transport accepts is refused below it.                                  *)
TxAccounted ==
  hci_on => tx_busy = cmd_busy + aclo_busy

(* When DAEMON_EVENT_HCI_PACKET_SENT is reported, the dongle has taken the *)
(* packet: the completion the driver saw was that packet's own.            *)
SentMeansOnWire ==
  /\ pc = "cmd_end" => "COMMAND" \in wire
  /\ pc = "aclo_end" => "ACL" \in wire

(* When an event is handed up, a command that the dongle has taken has     *)
(* been reported as sent: the answer to a command never reaches the stack  *)
(* while that command still counts as in the transport, so that the stack  *)
(* may send the next command at once.  (The order is not kept for ACL: an  *)
(* answer to an ACL packet may arrive before the end of that packet.)      *)
EventAfterSent == pc = "evt_rx" => ~(cmd_busy = 1 /\ "COMMAND" \in wire)

(* While the library works on cmd_packet or aclo_packet, the busy flag     *)
(* that keeps hal_ub_tx_packet from copying into it is set.                *)
InFlightHeld ==
  /\ ControlState = "BUSY" /\ CarriesCommand => cmd_busy = 1 /\ cmd_state = 1
  /\ urb["ACLO"] = "ACTIVE" => aclo_busy = 1 /\ aclo_state = 1

(* While the stack reads evt_packet or acli_packet in rx_handler, the      *)
(* channel that fills that buffer is not active again.                     *)
RxBufferHeld ==
  /\ pc = "evt_rx" => urb["EVT"] = "DONE"
  /\ pc = "acli_rx" => urb["ACLI"] = "DONE"

(* With no device in the class, no channel works on the driver's buffers,  *)
(* no control transfer is out, no channel stays allocated and the stack is *)
(* off, whatever the driver was doing when the dongle went.                *)
DetachedQuiet ==
  gState = "HOST_IDLE" => /\ \A ep \in EP : urb[ep] # "ACTIVE"
                          /\ RequestState = "CMD_SEND" /\ ControlState # "BUSY"
                          /\ hcn = {}
                          /\ ~hci_on

(* Frames since the one in which the event endpoint was armed.             *)
EvtAge == (frame - armed) % FRNUM_PERIOD

(* However late the polls come, within MaxLag, the event endpoint is armed *)
(* again 2 * MaxLag + 1 frames after it was armed, at the latest: the test *)
(* of evt_tmo never mistakes a deadline that has passed for one to come,   *)
(* although the frame number wraps.  Holds while MaxLag is at most half of *)
(* FRNUM_PERIOD.                                                           *)
PollPeriod == hci_on /\ evt_state \in {1, 2} => EvtAge <= 2 * MaxLag + 1

-----------------------------------------------------------------------------
(* Action properties.                                                      *)

RxPc == [EVT |-> "evt_rx", ACLI |-> "acli_rx"]
HandedUp(ep) == pc # RxPc[ep] /\ pc' = RxPc[ep]

(* The poll at hand read the frame number 2 frames after the arming or     *)
(* later: the time evt_tmo gives the dongle is over.                       *)
Late == (cur_fn - armed) % FRNUM_PERIOD >= 2

(* The driver gives up a poll of the event endpoint that is running or     *)
(* whose packet lies in evt_packet.                                        *)
GivesUp == evt_state = 1 /\ evt_state' = 0 /\ ("EVT" \in fresh \/ urb["EVT"] = "ACTIVE")

(* What a late poll may cost, and what it may not.  A packet that has      *)
(* arrived leaves its buffer through rx_handler and on to the stack, never *)
(* to a dummy handler, unless the class is closed.  The one exception: an  *)
(* event that arrives, or waits, when its poll is given up is overwritten  *)
(* by the next (the time-out is looked at before the URB); and a poll is   *)
(* given up by a late look only, however the frame number wraps.           *)
OnlyLateLost ==
  [][/\ GivesUp => Late
     /\ \A ep \in {"EVT", "ACLI"} :
          ep \in fresh /\ ep \notin fresh' =>
            \/ HandedUp(ep) /\ RxReachesStack
            \/ gState' = "HOST_IDLE"
            \/ ep = "EVT" /\ evt_state = 0]_vars

(* rx_handler is called once for each packet that arrives, never again for *)
(* what is left in the buffer from an earlier one.                         *)
NothingTwice ==
  [][\A ep \in {"EVT", "ACLI"} : HandedUp(ep) => ep \in fresh]_vars

-----------------------------------------------------------------------------
(* The abstract port.  A packet is in the port from send_packet until the  *)
(* callback that reports it returns; one that the driver dropped stays.    *)
PortPacket ==
  IF ~hci_on \/ tx_busy = 0 THEN "NONE" ELSE IF aclo_busy = 1 THEN "ACL" ELSE "COMMAND"

PortPhase ==
  IF PortPacket = "NONE" THEN "idle"
  ELSE IF cmd_busy = 0 /\ aclo_busy = 0 THEN "stuck"
  ELSE IF pc \in {"cmd_end", "aclo_end"} THEN "announced"
  ELSE IF PortPacket \in wire THEN "wire" ELSE "queued"

(* What of the dongle can make the port's promise fail: a control transfer *)
(* that fails, and a halted IN endpoint, whose clear request may be out    *)
(* while a command is (ACL-out never is: its packet has the port).         *)
CtlMayFail == "FAIL" \in CtlOutcomes
InMayHalt == \E ep \in {"EVT", "ACLI"} : "STALL" \in UrbOutcomes[ep]

Port == INSTANCE HciPort WITH on <- hci_on, packet <- PortPacket, phase <- PortPhase,
                              MayStick <- CtlMayFail, MayMisreport <- InMayHalt

(* The driver and the transport together keep the promise of HciPort: one  *)
(* packet at a time, reported once, after the dongle took it; with a       *)
(* dongle that fails, a command may be stuck or misreported and nothing    *)
(* else changes.                                                           *)
ImplementsPort == Port!Spec

-----------------------------------------------------------------------------
(* Liveness.                                                               *)

(* The run loop calls USBH_Process over and over, time passes, and what a  *)
(* device that is plugged in is asked over and over it does at last: end a *)
(* control transfer with success, take a packet it has not refused.        *)
Fairness ==
  /\ WF_vars(MainStep)
  /\ WF_vars(FrameTick /\ UNCHANGED <<corevars, hcivars>>)
  /\ SF_vars(pc = "loop" /\ HandleControl("OK") /\ UNCHANGED <<corevars, hcivars>>)
  /\ SF_vars(UrbAnswer("ACLO", "DONE") /\ UNCHANGED <<corevars, hcivars>>)

FairSpec == Spec /\ Fairness

(* The transport keeps a packet that will never be reported: the driver    *)
(* gave a command up, or an ACL packet ended with an error or refused,     *)
(* both of which usb_bt_aclo_process takes for "not yet".                  *)
Wedged ==
  /\ hci_on /\ tx_busy = 1
  /\ \/ cmd_busy = 0 /\ aclo_busy = 0
     \/ aclo_busy = 1 /\ aclo_state = 1 /\ urb["ACLO"] \in {"ERROR", "NOTREADY"}

(* The transport becomes free again, whatever command or ACL packet it     *)
(* holds, or the stack is powered off because the dongle is gone, or the   *)
(* transport is wedged in one of these ways: there is no other.            *)
TxEnds == (hci_on /\ tx_busy = 1) ~> (tx_busy = 0 \/ ~hci_on \/ Wedged)

(* The event endpoint is armed again and again while the class runs.       *)
EvtRearmed == hci_on ~> ((pc = "aclo" /\ urb["EVT"] = "ACTIVE") \/ ~hci_on)
=============================================================================

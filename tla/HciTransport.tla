---------------------------- MODULE HciTransport ----------------------------
(***************************************************************************)
(* hci_transport_uubt.c: the thin interface between BTstack and the USB    *)
(* class driver.  Its own state is one flag, tx_busy, shared by commands   *)
(* and ACL packets, and the stack's packet_handler; it hands its two       *)
(* callbacks to the driver, which keeps them in tx_end_handler and         *)
(* rx_handler.  hci_on is the Bluetooth stack's own power state: the stack *)
(* opens the transport when it is powered on and sends nothing before or   *)
(* after.                                                                  *)
(***************************************************************************)

VARIABLES tx_busy, hci_on, packet_handler, tx_end_handler, rx_handler

handlers == <<packet_handler, tx_end_handler, rx_handler>>
hcivars == <<tx_busy, hci_on, handlers>>

HciTypeOK ==
  /\ tx_busy \in {0, 1}
  /\ hci_on \in BOOLEAN
  /\ packet_handler \in {"dummy_handler", "hci"}
  /\ tx_end_handler \in {"dummy_tx_end_handler", "h2_tx_end_cb"}
  /\ rx_handler \in {"dummy_rx_handler", "h2_rx_cb"}

(* hci_init, which main calls before anything runs, registers the stack.   *)
h2_register_packet_handler(handler) == packet_handler = handler

HciInit ==
  /\ tx_busy = 0
  /\ hci_on = FALSE
  /\ h2_register_packet_handler("hci")
  /\ tx_end_handler = "dummy_tx_end_handler"
  /\ rx_handler = "dummy_rx_handler"

-----------------------------------------------------------------------------
(* The driver's side of the registration: no callback means the dummy.     *)
hal_ub_reg_tx_end(cb) ==
  tx_end_handler' = IF cb = "none" THEN "dummy_tx_end_handler" ELSE cb

hal_ub_reg_rx_packet(cb) ==
  rx_handler' = IF cb = "none" THEN "dummy_rx_handler" ELSE cb

(* Whether a call of the driver's handler gets to the stack.               *)
TxEndReachesStack == tx_end_handler = "h2_tx_end_cb" /\ packet_handler = "hci"
RxReachesStack == rx_handler = "h2_rx_cb" /\ packet_handler = "hci"

h2_can_send_packet_now == tx_busy = 0

(* The flag is set before the class driver is asked, and stays set when it *)
(* refuses the packet.                                                     *)
h2_send_packet ==
  /\ h2_can_send_packet_now
  /\ tx_busy' = 1
  /\ UNCHANGED <<hci_on, handlers>>

(* The flag cleared before the stack is told, not after (a mistake, kept   *)
(* to show that a property would notice).                                  *)
h2_tx_end_notify_Wrong ==
  /\ tx_busy' = 0
  /\ UNCHANGED <<hci_on, handlers>>

(* h2_tx_end_cb: packet_handler(DAEMON_EVENT_HCI_PACKET_SENT) runs first,  *)
(* with tx_busy still set ...                                              *)
h2_tx_end_notify == UNCHANGED hcivars

(* ... and the flag is cleared when it has returned.  A dummy handler      *)
(* leaves it set.                                                          *)
h2_tx_end_return ==
  /\ tx_busy' = IF tx_end_handler = "h2_tx_end_cb" THEN 0 ELSE tx_busy
  /\ UNCHANGED <<hci_on, handlers>>

(* The callback for received packets not registered.                       *)
h2_open_Wrong ==
  /\ tx_busy' = 0
  /\ hal_ub_reg_tx_end("h2_tx_end_cb")
  /\ hci_on' = TRUE
  /\ UNCHANGED <<packet_handler, rx_handler>>

(* h2_open, called by hci_power_control(HCI_POWER_ON); hal_ub_reset does   *)
(* nothing.                                                                *)
h2_open ==
  /\ tx_busy' = 0
  /\ hal_ub_reg_tx_end("h2_tx_end_cb")
  /\ hal_ub_reg_rx_packet("h2_rx_cb")
  /\ hci_on' = TRUE
  /\ UNCHANGED packet_handler

(* h2_close leaves tx_busy and the handlers alone.                         *)
h2_close ==
  /\ hci_on' = FALSE
  /\ UNCHANGED <<tx_busy, handlers>>
=============================================================================

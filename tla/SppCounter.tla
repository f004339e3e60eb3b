----------------------------- MODULE SppCounter -----------------------------
(***************************************************************************)
(* main.c: the demo application.  packet_handler receives the events of    *)
(* the Bluetooth stack, heartbeat_handler sends a number over RFCOMM once  *)
(* a second.  Both run in the run loop's thread, one at a time.            *)
(*                                                                         *)
(* The stack is external.  What matters of it: RFCOMM channels open and    *)
(* close at the peers' will, at most MAX_NO_RFCOMM_CHANNELS of them at a   *)
(* time (config.h gives it memory for no more), and hci_send_cmd ends in   *)
(* h2_send_packet (hci_transport_uubt.c), which takes a packet only when   *)
(* none is in the transport and keeps no queue.                            *)
(***************************************************************************)
EXTENDS Integers, FiniteSets

CONSTANTS
  Cids,                     (* RFCOMM channel ids                        *)
  MAX_NO_RFCOMM_CHANNELS    (* config.h: 1                               *)

ASSUME SppCounterAssumed == Cids \subseteq Nat \ {0} /\ MAX_NO_RFCOMM_CHANNELS \in Nat

VARIABLES
  rfcomm_channel_id,
  timer,          (* the heartbeat timer                                 *)
  chan,           (* external: the RFCOMM channels                       *)
  served,         (* history: open channels a number was sent on         *)
  hci_state,      (* external: the stack's power state                   *)
  tx,             (* external: the packet in the transport               *)
  named,          (* external: the dongle has its local name             *)
  discoverable,
  waiting         (* external: the dongle's requests still unanswered    *)

sppvars == <<rfcomm_channel_id, chan, served>>
hcivars == <<hci_state, tx, named, discoverable, waiting>>
vars == <<sppvars, timer, hcivars>>

Requests == {"LINK_KEY", "PIN_CODE"}

Init ==
  /\ rfcomm_channel_id = 0
  /\ timer = "set"
  /\ chan = [c \in Cids |-> "none"]
  /\ served = {}
  /\ hci_state = "off"
  /\ tx = "NONE"
  /\ named = FALSE
  /\ discoverable = FALSE
  /\ waiting = {}

-----------------------------------------------------------------------------
(* packet_handler, HCI events.  The value hci_send_cmd returns is not      *)
(* looked at: a command that finds the transport busy is gone.             *)
hci_send_cmd(cmd) == tx' = IF tx = "NONE" THEN cmd ELSE tx

(* The last answer of the stack's own start-up is handed up after its      *)
(* command was reported as sent (UubtStack: EventAfterSent).               *)
StateWorking ==
  /\ hci_state = "off"
  /\ tx = "NONE"
  /\ hci_state' = "working"
  /\ hci_send_cmd("LOCAL_NAME")
  /\ UNCHANGED <<sppvars, timer, named, discoverable, waiting>>

CommandComplete ==
  /\ named
  /\ ~discoverable
  /\ discoverable' = TRUE       (* hci_discoverable_control(1)           *)
  /\ UNCHANGED <<sppvars, timer, hci_state, tx, named, waiting>>

(* The dongle asks for a link key or a PIN; the reply is sent at once.     *)
Request(r) ==
  /\ hci_state = "working"
  /\ r \notin waiting
  /\ waiting' = waiting \cup {r}
  /\ hci_send_cmd(r)
  /\ UNCHANGED <<sppvars, timer, hci_state, named, discoverable>>

-----------------------------------------------------------------------------
(* packet_handler, RFCOMM events.                                          *)
rfcommframe == <<timer, hcivars>>

(* The channel asked for is accepted, and remembered before it is open.    *)
IncomingConnection(c) ==
  /\ hci_state = "working"
  /\ chan[c] = "none"
  /\ Cardinality({d \in Cids : chan[d] # "none"}) < MAX_NO_RFCOMM_CHANNELS
  /\ rfcomm_channel_id' = c
  /\ chan' = [chan EXCEPT ![c] = "opening"]
  /\ UNCHANGED <<served, rfcommframe>>

(* The field after the right one read, which is the frame size, here 100.  *)
(* No part of the model, like every definition whose name ends in _Wrong:  *)
(* a plausible mistake, kept to show that a property would notice.         *)
OpenComplete_Field_Wrong(c) ==
  /\ chan[c] = "opening"
  /\ chan' = [chan EXCEPT ![c] = "open"]
  /\ rfcomm_channel_id' = 100
  /\ UNCHANGED <<served, rfcommframe>>

(* A failure leaves rfcomm_channel_id as it is.                            *)
OpenComplete(c) ==
  /\ chan[c] = "opening"
  /\ \/ chan' = [chan EXCEPT ![c] = "open"] /\ rfcomm_channel_id' = c
     \/ chan' = [chan EXCEPT ![c] = "none"] /\ UNCHANGED rfcomm_channel_id
  /\ UNCHANGED <<served, rfcommframe>>

(* Whatever channel closed.                                                *)
ChannelClosed(c) ==
  /\ chan[c] = "open"
  /\ chan' = [chan EXCEPT ![c] = "none"]
  /\ served' = served \ {c}
  /\ rfcomm_channel_id' = 0
  /\ UNCHANGED rfcommframe

-----------------------------------------------------------------------------
(* heartbeat_handler.  rfcomm_send_internal fails on a channel that is not *)
(* open, and may fail on one that is; the number is then skipped.          *)
Sent == IF rfcomm_channel_id \in {c \in Cids : chan[c] = "open"}
          THEN {{}, {rfcomm_channel_id}} ELSE {{}}

(* The timer added again only after a number was sent.                     *)
Heartbeat_Wrong ==
  /\ timer = "due"
  /\ \E s \in Sent : served' = served \cup s
  /\ timer' = IF rfcomm_channel_id # 0 THEN "set" ELSE "off"
  /\ UNCHANGED <<rfcomm_channel_id, chan, hcivars>>

(* The channel given up at the first error.                                *)
Heartbeat_Forget_Wrong ==
  /\ timer = "due"
  /\ \E s \in Sent :
       /\ served' = served \cup s
       /\ rfcomm_channel_id' = IF s = {} THEN 0 ELSE rfcomm_channel_id
  /\ timer' = "set"
  /\ UNCHANGED <<chan, hcivars>>

Heartbeat ==
  /\ timer = "due"
  /\ \E s \in Sent : served' = served \cup s
  /\ timer' = "set"
  /\ UNCHANGED <<rfcomm_channel_id, chan, hcivars>>

TimerExpires ==
  /\ timer = "set"
  /\ timer' = "due"
  /\ UNCHANGED <<sppvars, hcivars>>

-----------------------------------------------------------------------------
(* The transport: the stack's own packets, and the end of any packet.      *)
StackSends ==
  /\ tx = "NONE"
  /\ tx' = "OTHER"
  /\ UNCHANGED <<sppvars, timer, hci_state, named, discoverable, waiting>>

TransportEnds ==
  /\ tx # "NONE"
  /\ tx' = "NONE"
  /\ named' = (named \/ tx = "LOCAL_NAME")
  /\ waiting' = waiting \ {tx}
  /\ UNCHANGED <<sppvars, timer, hci_state, discoverable>>

RfcommEvent == \E c \in Cids : IncomingConnection(c) \/ OpenComplete(c) \/ ChannelClosed(c)
HciEvent == StateWorking \/ CommandComplete \/ \E r \in Requests : Request(r)

Next == RfcommEvent \/ HciEvent \/ Heartbeat \/ TimerExpires \/ StackSends \/ TransportEnds

Spec == Init /\ [][Next]_vars

(* Time passes, the run loop serves the timer, a channel that can carry a  *)
(* number does not refuse it for ever, the transport ends each packet.     *)
Fairness ==
  /\ WF_vars(TimerExpires)
  /\ WF_vars(Heartbeat)
  /\ SF_vars(Heartbeat /\ served' # served)
  /\ WF_vars(TransportEnds)
  /\ WF_vars(CommandComplete)

FairSpec == Spec /\ Fairness

-----------------------------------------------------------------------------
(* Each variable keeps to the values packet_handler gives it: in           *)
(* particular rfcomm_channel_id is 0 or a channel id.                      *)
SppTypeOK ==
  /\ rfcomm_channel_id \in Cids \cup {0}
  /\ timer \in {"set", "due"}
  /\ chan \in [Cids -> {"none", "opening", "open"}]
  /\ served \subseteq Cids
  /\ hci_state \in {"off", "working"}
  /\ tx \in {"NONE", "LOCAL_NAME", "OTHER"} \cup Requests
  /\ named \in BOOLEAN
  /\ discoverable \in BOOLEAN
  /\ waiting \subseteq Requests

(* heartbeat_handler writes to the channel that is open, although the id   *)
(* is set and cleared by three events that do not compare it with theirs.  *)
(* Holds because config.h allows one channel at a time.                    *)
OpenIsCounted == \A c \in Cids : chan[c] = "open" => rfcomm_channel_id = c

(* A peer whose channel opens gets a number, unless the channel closes.    *)
Served == \A c \in Cids : chan[c] = "open" ~> (c \in served \/ chan[c] # "open")

(* A link-key or PIN request that waits has its reply in the transport.    *)
RequestsAnswered == waiting \subseteq {tx}
=============================================================================

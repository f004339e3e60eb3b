-------------------------- MODULE SppCounterProofs --------------------------
(* The demo's one channel id, for any channel ids.                         *)
EXTENDS SppCounter, FiniteSetTheorems, TLAPS

Used == {d \in Cids : chan[d] # "none"}

(* At most one channel exists, and when it is open its id is the one       *)
(* heartbeat_handler uses.                                                 *)
ChannelInv ==
  /\ chan \in [Cids -> {"none", "opening", "open"}]
  /\ rfcomm_channel_id \in Cids \cup {0}
  /\ served \subseteq Cids
  /\ \A c, d \in Used : c = d
  /\ \A c \in Cids : chan[c] = "open" => rfcomm_channel_id = c

(* With memory for one channel, a second is never asked for.               *)
LEMMA OneChannel ==
  ASSUME MAX_NO_RFCOMM_CHANNELS = 1, ChannelInv, NEW c \in Cids, IncomingConnection(c)
  PROVE  Used = {}
<1>1. Cardinality(Used) < 1
  BY DEF IncomingConnection, Used
<1>2. ASSUME NEW d \in Used PROVE FALSE
  <2>1. Used = {d}
    BY <1>2 DEF ChannelInv
  <2>2. Cardinality(Used) = 1
    BY <2>1, FS_Singleton
  <2> QED
    BY <1>1, <2>2
<1> QED
  BY <1>2

LEMMA ChannelInvStep ==
  ASSUME MAX_NO_RFCOMM_CHANNELS = 1, ChannelInv, [Next]_vars
  PROVE  ChannelInv'
<1> USE DEF ChannelInv, Used
<1>1. ASSUME NEW c \in Cids, IncomingConnection(c) PROVE ChannelInv'
  <2>1. \A d \in Cids : chan[d] = "none"
    BY <1>1, OneChannel
  <2> QED
    BY <1>1, <2>1 DEF IncomingConnection
<1>2. ASSUME NEW c \in Cids, OpenComplete(c) PROVE ChannelInv'
  BY <1>2 DEF OpenComplete
<1>3. ASSUME NEW c \in Cids, ChannelClosed(c) PROVE ChannelInv'
  BY <1>3 DEF ChannelClosed
<1>4. CASE Heartbeat
  <2>1. PICK s \in Sent : served' = served \cup s
    BY <1>4 DEF Heartbeat
  <2>2. s \subseteq Cids
    BY <2>1 DEF Sent
  <2> QED
    BY <1>4, <2>1, <2>2 DEF Heartbeat
<1>5. CASE HciEvent \/ TimerExpires \/ StackSends \/ TransportEnds
  BY <1>5 DEF HciEvent, StateWorking, CommandComplete, Request, TimerExpires, StackSends, TransportEnds, sppvars
<1>6. CASE UNCHANGED vars
  BY <1>6 DEF vars, sppvars
<1> QED
  BY <1>1, <1>2, <1>3, <1>4, <1>5, <1>6 DEF Next, RfcommEvent

LEMMA ChannelInvAlways ==
  ASSUME MAX_NO_RFCOMM_CHANNELS = 1
  PROVE  Spec => []ChannelInv
<1>1. Init => ChannelInv
  BY DEF Init, ChannelInv, Used
<1>2. ChannelInv /\ [Next]_vars => ChannelInv'
  BY ChannelInvStep
<1> QED
  BY <1>1, <1>2, PTL DEF Spec

(* The memory of config.h is all that keeps heartbeat_handler on the       *)
(* channel that is open: for one channel, whatever the ids.                *)
THEOREM OpenAlwaysCounted ==
  ASSUME MAX_NO_RFCOMM_CHANNELS = 1
  PROVE  Spec => []OpenIsCounted
<1>1. ChannelInv => OpenIsCounted
  BY DEF ChannelInv, OpenIsCounted
<1> QED
  BY <1>1, ChannelInvAlways, PTL

-----------------------------------------------------------------------------
(* What the stack and the transport of the demo keep.                      *)
HciInv ==
  /\ timer \in {"set", "due"}
  /\ hci_state \in {"off", "working"}
  /\ tx \in {"NONE", "LOCAL_NAME", "OTHER"} \cup Requests
  /\ waiting \subseteq Requests

FlagsOK == named \in BOOLEAN /\ discoverable \in BOOLEAN

LEMMA HciInvStep == HciInv /\ [Next]_vars => HciInv'
<1> SUFFICES ASSUME HciInv, [Next]_vars PROVE HciInv'
  OBVIOUS
<1> USE DEF HciInv, hci_send_cmd
<1>1. CASE RfcommEvent
  BY <1>1 DEF RfcommEvent, IncomingConnection, OpenComplete, ChannelClosed, rfcommframe, hcivars
<1>2. CASE StateWorking \/ CommandComplete
  BY <1>2 DEF StateWorking, CommandComplete
<1>3. ASSUME NEW r \in Requests, Request(r) PROVE HciInv'
  BY <1>3 DEF Request
<1>4. CASE Heartbeat \/ TimerExpires
  BY <1>4 DEF Heartbeat, TimerExpires, hcivars
<1>5. CASE StackSends \/ TransportEnds
  BY <1>5 DEF StackSends, TransportEnds
<1>6. CASE UNCHANGED vars
  BY <1>6 DEF vars, hcivars
<1> QED
  BY <1>1, <1>2, <1>3, <1>4, <1>5, <1>6 DEF Next, HciEvent

LEMMA FlagsStep == FlagsOK /\ [Next]_vars => FlagsOK'
<1> SUFFICES ASSUME FlagsOK, [Next]_vars PROVE FlagsOK'
  OBVIOUS
<1> USE DEF FlagsOK
<1>1. CASE TransportEnds
  <2>1. named' \in BOOLEAN
    BY <1>1, Zenon DEF TransportEnds
  <2> QED
    BY <1>1, <2>1, Zenon DEF TransportEnds
<1>2. CASE CommandComplete
  BY <1>2, Zenon DEF CommandComplete
<1>3. CASE \/ RfcommEvent \/ StateWorking \/ (\E r \in Requests : Request(r))
           \/ Heartbeat \/ TimerExpires \/ StackSends \/ UNCHANGED vars
  <2>1. named' = named /\ discoverable' = discoverable
    BY <1>3 DEF RfcommEvent, IncomingConnection, OpenComplete, ChannelClosed, rfcommframe, StateWorking,
                Request, Heartbeat, TimerExpires, StackSends, vars, hcivars
  <2> QED
    BY <2>1
<1> QED
  BY <1>1, <1>2, <1>3 DEF Next, HciEvent

(* Each variable keeps to the values packet_handler gives it.              *)
THEOREM SppTypeCorrect ==
  ASSUME MAX_NO_RFCOMM_CHANNELS = 1
  PROVE  Spec => []SppTypeOK
<1>1. Init => HciInv /\ FlagsOK
  BY DEF Init, HciInv, FlagsOK
<1>2. ChannelInv /\ HciInv /\ FlagsOK => SppTypeOK
  BY DEF ChannelInv, HciInv, FlagsOK, SppTypeOK
<1> QED
  BY <1>1, <1>2, HciInvStep, FlagsStep, ChannelInvAlways, PTL DEF Spec

-----------------------------------------------------------------------------
(* A reply is lost in one way only: packet_handler sends it while another  *)
(* packet is in the transport.  No event of RFCOMM, no heartbeat and no    *)
(* packet of the stack's own can take the place of a reply that got in.    *)
THEOREM OnlyBusyLosesReplies ==
  Spec => [][RequestsAnswered =>
               RequestsAnswered' \/ (tx # "NONE" /\ \E r \in Requests : Request(r))]_vars
<1> DEFINE Lost == tx # "NONE" /\ \E r \in Requests : Request(r)
<1>1. ASSUME HciInv, RequestsAnswered, [Next]_vars PROVE RequestsAnswered' \/ Lost
  <2> USE <1>1 DEF HciInv, RequestsAnswered, Requests, hci_send_cmd
  <2>1. CASE RfcommEvent
    BY <2>1 DEF RfcommEvent, IncomingConnection, OpenComplete, ChannelClosed, rfcommframe, hcivars
  <2>2. CASE StateWorking \/ CommandComplete
    BY <2>2 DEF StateWorking, CommandComplete
  <2>3. ASSUME NEW r \in Requests, Request(r), tx = "NONE" PROVE RequestsAnswered'
    <3>1. waiting = {}
      BY <2>3
    <3> QED
      BY <2>3, <3>1 DEF Request
  <2>4. CASE Heartbeat \/ TimerExpires
    BY <2>4 DEF Heartbeat, TimerExpires, hcivars
  <2>5. CASE StackSends \/ TransportEnds
    BY <2>5 DEF StackSends, TransportEnds
  <2>6. CASE UNCHANGED vars
    BY <2>6 DEF vars, hcivars
  <2> QED
    BY <2>1, <2>2, <2>3, <2>4, <2>5, <2>6 DEF Next, HciEvent
<1>2. HciInv /\ [Next]_vars => (RequestsAnswered => RequestsAnswered' \/ Lost)
  BY <1>1
<1>3. Init => HciInv
  BY DEF Init, HciInv
<1> QED
  BY <1>2, <1>3, HciInvStep, PTL DEF Spec
=============================================================================

------------------------------- MODULE HciPort -------------------------------
(***************************************************************************)
(* What the transport promises to the Bluetooth stack, as the stack sees   *)
(* it through hci_transport_t (hci_transport_uubt.c): a slot for one       *)
(* packet.  The slot can be filled when it is free, the packet goes to the *)
(* dongle, then it is reported as sent, and only then the slot is free.    *)
(* Powering off, at any moment, forgets the packet.                        *)
(*                                                                         *)
(* Two things may go wrong, of a command only, where the constants say so: *)
(* it gets stuck in the slot, or is reported before the dongle has it.     *)
(***************************************************************************)
CONSTANTS MayStick, MayMisreport

VARIABLES on, packet, phase

portvars == <<on, packet, phase>>

Packets == {"COMMAND", "ACL"}

Init == on = FALSE /\ packet = "NONE" /\ phase = "idle"

PowerOn ==
  /\ ~on
  /\ on' = TRUE
  /\ UNCHANGED <<packet, phase>>

Send ==
  /\ on
  /\ phase = "idle"
  /\ packet' \in Packets
  /\ phase' = "queued"
  /\ UNCHANGED on

Step(from, to) ==
  /\ phase = from
  /\ phase' = to
  /\ UNCHANGED <<on, packet>>

Transmit == Step("queued", "wire")
Announce == Step("wire", "announced")

Stick ==
  /\ MayStick
  /\ packet = "COMMAND"
  /\ Step("queued", "stuck") \/ Step("wire", "stuck")

Misreport ==
  /\ MayMisreport
  /\ packet = "COMMAND"
  /\ Step("queued", "announced")

Release ==
  /\ phase = "announced"
  /\ phase' = "idle"
  /\ packet' = "NONE"
  /\ UNCHANGED on

PowerOff ==
  /\ on
  /\ on' = FALSE
  /\ packet' = "NONE"
  /\ phase' = "idle"

Next == PowerOn \/ Send \/ Transmit \/ Announce \/ Release \/ PowerOff
        \/ Stick \/ Misreport

Spec == Init /\ [][Next]_portvars
=============================================================================

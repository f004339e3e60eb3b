-------------------------- MODULE ResetThreadProofs --------------------------
(* The ChibiOS board glue, for sleeps of any length.                       *)
EXTENDS ResetThread, TLAPS

(* A thread sleeps as long as it has ticks left; the reset thread is where *)
(* its state says, and has been given the handle when it is made ready.    *)
ThreadInv ==
  /\ state \in [Thread -> {"none", "ready", "sleeping", "suspended"}]
  /\ state["main"] \in {"ready", "sleeping"}
  /\ left \in [Thread -> Nat]
  /\ \A th \in Thread : state[th] = "sleeping" <=> left[th] > 0
  /\ mpc \in {"start", "created", "armed", "ticking", "bsp", "vbus", "host", "process"}
  /\ rpc \in {"start", "suspended", "delay", "pulse"}
  /\ rpc = "suspended" => state["reset"] \in {"suspended", "ready"}
  /\ rpc = "suspended" /\ state["reset"] = "ready" => rdymsg = "pdev"
  /\ rpc \in {"delay", "pulse"} => state["reset"] \in {"ready", "sleeping"} /\ msg = "pdev"
  /\ mpc \notin {"start", "created"} => vt = "armed"
  /\ mpc \notin {"start", "created", "armed"} => tick_handler = "embedded_tick_handler"

(* Until the thread first suspends, the interrupt is still off: main is    *)
(* before ConfigVBUS or asleep in it, and cannot wake before the thread    *)
(* has run.  After that, no handle means that a reset is on its way.       *)
HandoverInv ==
  /\ irq_on => mpc = "process"
  /\ usb_reset_tp \in {"NULL", "thread"}
  /\ usb_reset_tp = "thread" => state["reset"] = "suspended" /\ rpc = "suspended"
  /\ state["reset"] = "none" <=> mpc = "start"
  /\ mpc = "start" => rpc = "start"
  /\ rpc = "start" => mpc \notin {"host", "process"} /\ state["reset"] \in {"none", "ready"}
  /\ rpc = "start" /\ mpc = "vbus" => state["main"] = "sleeping"
  /\ usb_reset_tp = "NULL" => asked \/ rpc \in {"start", "delay", "pulse"}

(* How far main is says what the board has; while it sleeps in ConfigVBUS  *)
(* the ticks VBUS has been off and those still to sleep add up.            *)
BoardInv ==
  /\ clk \subseteq {"GPIOA", "GPIOC", "SYSCFG", "OTGFS"}
  /\ low_for \in Nat /\ low_for <= VbusDelay
  /\ mpc \in {"start", "created", "armed", "ticking", "bsp"} => vbus = "floating" /\ low_for = 0
  /\ mpc \in {"bsp", "vbus", "host", "process"} =>
       pins = {9, 10, 11, 12} /\ {"GPIOA", "SYSCFG", "OTGFS"} \subseteq clk
  /\ mpc = "vbus" => vbus = "off" /\ low_for + left["main"] = VbusDelay
  /\ mpc \in {"host", "process"} => vbus = "on"

(* The processor is with a thread that is ready, if there is one.          *)
SchedInv ==
  /\ running \in {"main", "reset", "idle"}
  /\ preempt \in Nat /\ preempt <= 5
  /\ running # "idle" => state[running] = "ready"
  /\ running = "idle" => \A th \in Thread : state[th] # "ready"

RtInv == ThreadInv /\ HandoverInv /\ BoardInv /\ SchedInv

LEMMA Other ==
  /\ (CHOOSE other \in Thread : other # "main") = "reset"
  /\ (CHOOSE other \in Thread : other # "reset") = "main"
BY DEF Thread

(* No thread yet, no handle, no interrupt.                                 *)
LEMMA RtInvInit == Init => RtInv
BY DelaysAssumed DEF Init, RtInv, ThreadInv, HandoverInv, BoardInv, SchedInv, Thread, Delays, CH_TIME_QUANTUM

(* Who is ready, asleep or suspended, after a step of main, the thread,    *)
(* the interrupt or the tick.                                              *)
LEMMA ThreadInvStep == RtInv /\ [Next]_vars => ThreadInv'
<1> SUFFICES ASSUME RtInv, [Next]_vars
             PROVE  ThreadInv'
  OBVIOUS
<1> USE DelaysAssumed DEF RtInv, ThreadInv, HandoverInv, SchedInv, Thread, Become, MainAt, ResetAt,
    Wait, handover, tickvars, boardvars, Delays, USB_OTG_BSP_mDelay
<1>1. CASE my_usb_bsp_init
  BY <1>1 DEF my_usb_bsp_init
<1>2. CASE hal_tick_init \/ hal_tick_set_handler("embedded_tick_handler")
  BY <1>2 DEF hal_tick_init, hal_tick_set_handler
<1>3. CASE USB_OTG_BSP_Init
  BY <1>3 DEF USB_OTG_BSP_Init
<1>4. CASE USB_OTG_BSP_ConfigVBUS
  BY <1>4 DEF USB_OTG_BSP_ConfigVBUS, USB_OTG_BSP_DriveVBUS
<1>5. CASE HostDrivesVbus
  BY <1>5 DEF HostDrivesVbus, USB_OTG_BSP_DriveVBUS
<1>6. CASE USB_OTG_BSP_EnableInterrupt
  BY <1>6 DEF USB_OTG_BSP_EnableInterrupt
<1>7. CASE USBH_USR_EnumerationDone
  BY <1>7 DEF USBH_USR_EnumerationDone
<1>8. CASE Suspend
  BY <1>8 DEF Suspend
<1>9. CASE Resume
  BY <1>9 DEF Resume
<1>10. CASE USB_OTG_ResetPort
  BY <1>10 DEF USB_OTG_ResetPort
<1>11. CASE USB_OTG_ResetPort_I
  BY <1>11 DEF USB_OTG_ResetPort_I, PortWantsReset
<1>12. CASE SystemTick
  BY <1>12 DEF SystemTick, WakeSleepers, tick_wrapper
<1>13. CASE UNCHANGED vars
  BY <1>13 DEF vars
<1> QED
  BY <1>1, <1>2, <1>3, <1>4, <1>5, <1>6, <1>7, <1>8, <1>9, <1>10, <1>11, <1>12, <1>13
  DEF Next, MainStep, ResetStep

(* The hand-over after it.                                                 *)
LEMMA HandoverInvStep == RtInv /\ [Next]_vars => HandoverInv'
<1> SUFFICES ASSUME RtInv, [Next]_vars
             PROVE  HandoverInv'
  OBVIOUS
<1> USE DelaysAssumed DEF RtInv, ThreadInv, HandoverInv, SchedInv, Thread, Become, MainAt, ResetAt,
    Wait, handover, tickvars, boardvars, Delays, USB_OTG_BSP_mDelay
<1>1. CASE my_usb_bsp_init
  BY <1>1 DEF my_usb_bsp_init
<1>2. CASE hal_tick_init \/ hal_tick_set_handler("embedded_tick_handler")
  BY <1>2 DEF hal_tick_init, hal_tick_set_handler
<1>3. CASE USB_OTG_BSP_Init
  BY <1>3 DEF USB_OTG_BSP_Init
<1>4. CASE USB_OTG_BSP_ConfigVBUS
  BY <1>4 DEF USB_OTG_BSP_ConfigVBUS, USB_OTG_BSP_DriveVBUS
<1>5. CASE HostDrivesVbus
  BY <1>5 DEF HostDrivesVbus, USB_OTG_BSP_DriveVBUS
<1>6. CASE USB_OTG_BSP_EnableInterrupt
  BY <1>6 DEF USB_OTG_BSP_EnableInterrupt
<1>7. CASE USBH_USR_EnumerationDone
  BY <1>7 DEF USBH_USR_EnumerationDone
<1>8. CASE Suspend
  BY <1>8 DEF Suspend
<1>9. CASE Resume
  BY <1>9 DEF Resume
<1>10. CASE USB_OTG_ResetPort
  BY <1>10 DEF USB_OTG_ResetPort
<1>11. CASE USB_OTG_ResetPort_I
  BY <1>11 DEF USB_OTG_ResetPort_I, PortWantsReset
<1>12. CASE SystemTick
  BY <1>12 DEF SystemTick, WakeSleepers, tick_wrapper
<1>13. CASE UNCHANGED vars
  BY <1>13 DEF vars
<1> QED
  BY <1>1, <1>2, <1>3, <1>4, <1>5, <1>6, <1>7, <1>8, <1>9, <1>10, <1>11, <1>12, <1>13
  DEF Next, MainStep, ResetStep

(* And the board.                                                          *)
LEMMA BoardInvStep == RtInv /\ [Next]_vars => BoardInv'
<1> SUFFICES ASSUME RtInv, [Next]_vars
             PROVE  BoardInv'
  OBVIOUS
<1> USE DelaysAssumed DEF RtInv, ThreadInv, BoardInv, SchedInv, Thread, Become, MainAt, ResetAt,
    Wait, handover, tickvars, boardvars, Delays, USB_OTG_BSP_mDelay
<1>1. CASE my_usb_bsp_init
  BY <1>1 DEF my_usb_bsp_init
<1>2. CASE hal_tick_init \/ hal_tick_set_handler("embedded_tick_handler")
  BY <1>2 DEF hal_tick_init, hal_tick_set_handler
<1>3. CASE USB_OTG_BSP_Init
  BY <1>3 DEF USB_OTG_BSP_Init
<1>4. CASE USB_OTG_BSP_ConfigVBUS
  BY <1>4 DEF USB_OTG_BSP_ConfigVBUS, USB_OTG_BSP_DriveVBUS
<1>5. CASE HostDrivesVbus
  BY <1>5 DEF HostDrivesVbus, USB_OTG_BSP_DriveVBUS
<1>6. CASE USB_OTG_BSP_EnableInterrupt
  BY <1>6 DEF USB_OTG_BSP_EnableInterrupt
<1>7. CASE USBH_USR_EnumerationDone
  BY <1>7 DEF USBH_USR_EnumerationDone
<1>8. CASE Suspend
  BY <1>8 DEF Suspend
<1>9. CASE Resume
  BY <1>9 DEF Resume
<1>10. CASE USB_OTG_ResetPort
  BY <1>10 DEF USB_OTG_ResetPort
<1>11. CASE USB_OTG_ResetPort_I
  BY <1>11 DEF USB_OTG_ResetPort_I, PortWantsReset
<1>12. CASE SystemTick
  BY <1>12 DEF SystemTick, WakeSleepers, tick_wrapper
<1>13. CASE UNCHANGED vars
  BY <1>13 DEF vars
<1> QED
  BY <1>1, <1>2, <1>3, <1>4, <1>5, <1>6, <1>7, <1>8, <1>9, <1>10, <1>11, <1>12, <1>13
  DEF Next, MainStep, ResetStep

(* And the processor.                                                      *)
LEMMA SchedInvStep == RtInv /\ [Next]_vars => SchedInv'
<1> SUFFICES ASSUME RtInv, [Next]_vars
             PROVE  SchedInv'
  OBVIOUS
<1> USE DelaysAssumed DEF RtInv, ThreadInv, SchedInv, Thread, sched, CH_TIME_QUANTUM
<1>1. ASSUME NEW th \in Thread, NEW s \in {"sleeping", "suspended"}, running = th, Wait(th, s)
      PROVE  SchedInv'
  BY <1>1, Other DEF Wait, Become
<1>2. ASSUME NEW q \in 0 .. 5, Reschedule(q), state' \in [Thread -> {"none", "ready", "sleeping", "suspended"}],
             \A th \in Thread : state[th] = "ready" => state'[th] = "ready"
      PROVE  SchedInv'
  BY <1>2 DEF Reschedule
<1>3. ASSUME UNCHANGED sched, running # "idle", state'[running] = "ready"
      PROVE  SchedInv'
  BY <1>3
<1>4. CASE my_usb_bsp_init
  BY <1>4, <1>3 DEF my_usb_bsp_init, MainAt, Become
<1>5. CASE \/ hal_tick_init \/ hal_tick_set_handler("embedded_tick_handler") \/ USB_OTG_BSP_Init
           \/ HostDrivesVbus \/ USB_OTG_BSP_EnableInterrupt
  BY <1>5, <1>3 DEF hal_tick_init, hal_tick_set_handler, USB_OTG_BSP_Init, HostDrivesVbus,
     USB_OTG_BSP_EnableInterrupt, MainAt
<1>6. CASE USB_OTG_BSP_ConfigVBUS \/ USBH_USR_EnumerationDone
  BY <1>6, <1>1 DEF USB_OTG_BSP_ConfigVBUS, USBH_USR_EnumerationDone, MainAt, USB_OTG_BSP_mDelay
<1>7. CASE ResetStep
  BY <1>7, <1>1 DEF ResetStep, Suspend, Resume, USB_OTG_ResetPort, ResetAt, USB_OTG_BSP_mDelay
<1>8. CASE USB_OTG_ResetPort_I
  BY <1>8, <1>2 DEF USB_OTG_ResetPort_I, Become
<1>9. CASE SystemTick
  <2>1. (IF preempt > 0 THEN preempt - 1 ELSE 0) \in 0 .. 5
    OBVIOUS
  <2>2. /\ state' \in [Thread -> {"none", "ready", "sleeping", "suspended"}]
        /\ \A th \in Thread : state[th] = "ready" => state'[th] = "ready"
    BY <1>9 DEF SystemTick, WakeSleepers
  <2> QED
    BY <1>9, <1>2, <2>1, <2>2 DEF SystemTick
<1>10. CASE UNCHANGED vars
  BY <1>10 DEF vars
<1> QED
  BY <1>4, <1>5, <1>6, <1>7, <1>8, <1>9, <1>10 DEF Next, MainStep

(* One step of anybody keeps it all.                                       *)
LEMMA RtInvStep == RtInv /\ [Next]_vars => RtInv'
BY ThreadInvStep, HandoverInvStep, BoardInvStep, SchedInvStep DEF RtInv

LEMMA RtInvAlways == Spec => []RtInv
BY RtInvInit, RtInvStep, PTL DEF Spec

(* Types; the thread never resets a port without the handle the interrupt  *)
(* passed it.                                                              *)
THEOREM RtTypeCorrect == Spec => []RtTypeOK
<1>1. RtInv => RtTypeOK
  BY DelaysAssumed DEF RtInv, ThreadInv, HandoverInv, BoardInv, SchedInv, RtTypeOK, Thread, Delays, CH_TIME_QUANTUM
<1> QED
  BY <1>1, RtInvAlways, PTL

(* The interrupt never makes a running or sleeping thread ready.           *)
THEOREM ReadiedOnlySuspended == Spec => []ReadyOnlySuspended
<1>1. RtInv => ReadyOnlySuspended
  BY DEF RtInv, HandoverInv, ReadyOnlySuspended
<1> QED
  BY <1>1, RtInvAlways, PTL

(* A port's request is dropped only while a reset is on its way: the sleep *)
(* in ConfigVBUS, of any length, lets the thread come to its loop first.   *)
THEOREM DropsOnlyInReset == Spec => []DroppedOnlyInReset
<1>1. RtInv => DroppedOnlyInReset
  BY DEF RtInv, HandoverInv, DroppedOnlyInReset
<1> QED
  BY <1>1, RtInvAlways, PTL

(* No port interrupt before the core has its pins, its clocks and VBUS.    *)
THEOREM PortAlwaysBacked == Spec => []PortBacked
<1>1. RtInv => PortBacked
  BY DEF RtInv, HandoverInv, BoardInv, PortBacked
<1> QED
  BY <1>1, RtInvAlways, PTL

(* VBUS stays off for the whole sleep before the host puts it on.          *)
THEOREM VbusAlwaysRests == Spec => VbusRests
<1> DEFINE Rests == vbus = "off" /\ vbus' = "on" => low_for = VbusDelay
<1>1. RtInv /\ [Next]_vars => [Rests]_vars
  <2> SUFFICES ASSUME RtInv, Next, vbus = "off", vbus' = "on"
               PROVE  low_for = VbusDelay
    OBVIOUS
  <2>1. HostDrivesVbus
    BY DEF Next, MainStep, ResetStep, my_usb_bsp_init, hal_tick_init, hal_tick_set_handler, USB_OTG_BSP_Init,
    USB_OTG_BSP_ConfigVBUS, USB_OTG_BSP_DriveVBUS, USB_OTG_BSP_EnableInterrupt,
    USBH_USR_EnumerationDone, Suspend, Resume, USB_OTG_ResetPort, USB_OTG_ResetPort_I,
    SystemTick, ResetAt, boardvars, tickvars
  <2>2. mpc = "vbus" /\ running = "main"
    BY <2>1 DEF HostDrivesVbus, MainAt
  <2> QED
    BY <2>2 DEF RtInv, ThreadInv, BoardInv, SchedInv, Thread
<1> QED
  BY <1>1, RtInvAlways, PTL DEF Spec, VbusRests

-----------------------------------------------------------------------------
(* Why an accepted request is done: the round robin, in ticks.             *)

(* The ticks after which th has the processor, at the latest: those it     *)
(* still sleeps, and what is left of the quantum of the one that runs.     *)
Turn(th) ==
  IF running = th THEN 0
  ELSE IF state[th] = "ready" THEN IF preempt > 0 THEN preempt ELSE 1
  ELSE left[th] + CH_TIME_QUANTUM

Queues(th) == running # th /\ state[th] \in {"ready", "sleeping"}

(* A tick brings the turn of a waiting thread nearer.                      *)
LEMMA TickBringsTurn ==
  ASSUME RtInv, NEW th \in Thread, Queues(th), SystemTick
  PROVE  Turn(th)' < Turn(th)
<1> DEFINE q == IF preempt > 0 THEN preempt - 1 ELSE 0
<1> USE DEF RtInv, ThreadInv, SchedInv, Queues, Thread, CH_TIME_QUANTUM
<1>1. /\ left[th]' = (IF left[th] > 0 THEN left[th] - 1 ELSE 0)
      /\ state[th]' = (IF left[th] = 1 THEN "ready" ELSE state[th])
  BY DEF SystemTick, WakeSleepers
<1>2. Reschedule(q) /\ q \in 0 .. 5
  BY DEF SystemTick
<1>3. CASE state[th]' = "ready"
  <2>1. th \in {t \in Thread \ {running} : state'[t] = "ready"}
    BY <1>3
  <2>2. CASE running = "idle"
    <3>1. left[th] = 1 /\ preempt' \in 0 .. 5
      BY <1>1, <1>2, <1>3, <2>2 DEF Reschedule
    <3> QED
      BY <1>3, <2>2, <3>1 DEF Turn
  <2>3. CASE running # "idle" /\ q = 0
    <3>1. running' = th
      BY <1>2, <2>1, <2>3 DEF Reschedule
    <3> QED
      BY <1>1, <3>1 DEF Turn
  <2>4. CASE running # "idle" /\ q # 0
    <3>1. running' = running /\ preempt' = preempt - 1 /\ preempt > 1
      BY <1>2, <2>4 DEF Reschedule
    <3> QED
      BY <1>1, <1>3, <3>1 DEF Turn
  <2> QED
    BY <2>2, <2>3, <2>4
<1>4. CASE state[th]' # "ready"
  <2>1. state[th] = "sleeping" /\ left[th] > 1 /\ state[th]' = "sleeping"
    BY <1>1, <1>4
  <2>2. running' # th
    BY <1>2, <1>4 DEF Reschedule
  <2> QED
    BY <1>1, <2>1, <2>2 DEF Turn
<1> QED
  BY <1>3, <1>4

(* Nobody else's step puts it off.                                         *)
LEMMA TurnNotPutOff ==
  ASSUME RtInv, NEW th \in Thread, Queues(th), [Next]_vars
  PROVE  Turn(th)' <= Turn(th)
<1> USE DEF RtInv, ThreadInv, HandoverInv, SchedInv, Queues, Thread, CH_TIME_QUANTUM
<1>1. Turn(th) \in Nat /\ Turn(th)' \in Nat
  <2>1. RtInv'
    BY RtInvStep
  <2> QED
    BY <2>1 DEF Turn
<1>2. CASE SystemTick
  BY <1>1, <1>2, TickBringsTurn
<1>3. ASSUME UNCHANGED <<sched, left>>, state'[th] = state[th]
      PROVE  Turn(th)' <= Turn(th)
  BY <1>1, <1>3 DEF Turn, sched
<1>4. ASSUME NEW other \in Thread, other # th, running = other, NEW s, Wait(other, s),
             left'[th] = left[th]
      PROVE  Turn(th)' <= Turn(th)
  <2>1. state'[th] = state[th] /\ preempt' = 5
    BY <1>4 DEF Wait, Become
  <2>2. CASE state[th] = "ready"
    <3>1. running' = th
      BY <1>4, <2>2, Other DEF Wait
    <3> QED
      BY <1>1, <3>1 DEF Turn
  <2>3. CASE state[th] = "sleeping"
    BY <1>1, <1>4, <2>1, <2>3 DEF Turn
  <2> QED
    BY <2>2, <2>3
<1>5. CASE my_usb_bsp_init
  BY <1>5, <1>3 DEF my_usb_bsp_init, MainAt, Become
<1>6. CASE \/ hal_tick_init \/ hal_tick_set_handler("embedded_tick_handler") \/ USB_OTG_BSP_Init
           \/ HostDrivesVbus \/ USB_OTG_BSP_EnableInterrupt
  BY <1>6, <1>3 DEF hal_tick_init, hal_tick_set_handler, USB_OTG_BSP_Init, HostDrivesVbus,
     USB_OTG_BSP_EnableInterrupt
<1>7. CASE USB_OTG_BSP_ConfigVBUS \/ USBH_USR_EnumerationDone
  BY <1>7, <1>4 DEF USB_OTG_BSP_ConfigVBUS, USBH_USR_EnumerationDone, MainAt, USB_OTG_BSP_mDelay
<1>8. CASE ResetStep
  BY <1>8, <1>4 DEF ResetStep, Suspend, Resume, USB_OTG_ResetPort, ResetAt, USB_OTG_BSP_mDelay
<1>9. CASE USB_OTG_ResetPort_I
  <2>1. th = "main" /\ state[th]' = state[th] /\ left' = left /\ state["reset"] = "suspended"
    BY <1>9 DEF USB_OTG_ResetPort_I, Become
  <2>2. running = "idle" /\ state[th] = "sleeping"
    BY <2>1
  <2>3. running' # th
    BY <1>9, <2>1, <2>2 DEF USB_OTG_ResetPort_I, Reschedule
  <2> QED
    BY <1>1, <2>1, <2>2, <2>3 DEF Turn
<1>10. CASE UNCHANGED vars
  BY <1>10, <1>3 DEF vars
<1> QED
  BY <1>2, <1>5, <1>6, <1>7, <1>8, <1>9, <1>10 DEF Next, MainStep

(* The turn of a thread that waits for the processor, or sleeps, is put    *)
(* off by nobody, and is nearer after each tick: as the processor is at    *)
(* most a quantum away when it wakes, neither thread starves the other.    *)
THEOREM NobodyStarves ==
  Spec => [][\A th \in Thread : Queues(th) =>
               /\ Turn(th)' <= Turn(th)
               /\ SystemTick => Turn(th)' < Turn(th)]_vars
<1> DEFINE Nearer ==
             \A th \in Thread : Queues(th) =>
               /\ Turn(th)' <= Turn(th)
               /\ SystemTick => Turn(th)' < Turn(th)
<1>1. RtInv /\ [Next]_vars => Nearer
  BY TickBringsTurn, TurnNotPutOff
<1> HIDE DEF Nearer
<1>2. Spec => [][Nearer]_vars
  BY <1>1, RtInvAlways, PTL DEF Spec
<1> QED
  BY <1>2 DEF Nearer

(* The ticks after which the reset of an accepted request begins, at the   *)
(* latest: the thread's turn, the delay, and its turn once more.           *)
Remaining ==
  Turn("reset") + (IF rpc = "suspended" THEN ResetDelay + CH_TIME_QUANTUM ELSE 0)

(* A request that was taken made the thread ready, or the thread is in the *)
(* delay before the reset.                                                 *)
AskedInv ==
  /\ asked => (rpc = "suspended" /\ state["reset"] = "ready") \/ rpc = "delay"
  /\ rpc = "delay" => left["reset"] <= ResetDelay

LEMMA AskedInvStep ==
  ASSUME RtInv, AskedInv, [Next]_vars PROVE AskedInv'
<1> USE DelaysAssumed DEF RtInv, ThreadInv, HandoverInv, AskedInv, Delays, Thread, MainAt, ResetAt,
    Become, Wait, USB_OTG_BSP_mDelay, handover
<1>1. CASE my_usb_bsp_init \/ hal_tick_init \/ hal_tick_set_handler("embedded_tick_handler")
  BY <1>1 DEF my_usb_bsp_init, hal_tick_init, hal_tick_set_handler
<1>2. CASE USB_OTG_BSP_Init \/ USB_OTG_BSP_ConfigVBUS \/ HostDrivesVbus
  BY <1>2 DEF USB_OTG_BSP_Init, USB_OTG_BSP_ConfigVBUS, HostDrivesVbus
<1>3. CASE USB_OTG_BSP_EnableInterrupt \/ USBH_USR_EnumerationDone
  BY <1>3 DEF USB_OTG_BSP_EnableInterrupt, USBH_USR_EnumerationDone
<1>4. CASE ResetStep
  BY <1>4 DEF ResetStep, Suspend, Resume, USB_OTG_ResetPort
<1>5. CASE USB_OTG_ResetPort_I
  BY <1>5 DEF USB_OTG_ResetPort_I
<1>6. CASE SystemTick
  BY <1>6 DEF SystemTick, WakeSleepers
<1>7. CASE UNCHANGED vars
  BY <1>7 DEF vars
<1> QED
  BY <1>1, <1>2, <1>3, <1>4, <1>5, <1>6, <1>7 DEF Next, MainStep

LEMMA AskedAlways == Spec => []AskedInv
<1>1. Init => AskedInv
  BY DEF Init, AskedInv
<1>2. RtInv /\ AskedInv /\ [Next]_vars => AskedInv'
  BY AskedInvStep
<1> QED
  BY <1>1, <1>2, RtInvAlways, PTL DEF Spec

(* The bound: one delay and two quanta.                                    *)
Due == asked => Remaining <= ResetDelay + 2 * CH_TIME_QUANTUM

(* A request that is accepted is due: its reset begins within its delay    *)
(* and two quanta, whatever main does, not counting the ticks for which    *)
(* the reset thread itself has the processor.                              *)
THEOREM AcceptedAlwaysDue == Spec => []Due
<1>1. RtInv /\ AskedInv => Due
  BY DelaysAssumed DEF RtInv, ThreadInv, SchedInv, AskedInv, Due, Remaining, Turn, Delays, Thread,
     CH_TIME_QUANTUM
<1> QED
  BY <1>1, RtInvAlways, AskedAlways, PTL

(* The reset thread has used up its quantum.                               *)
UsesUpQuantum == SystemTick /\ running = "reset" /\ running' = "main"

(* The ticks that remain get fewer with each tick until the reset begins,  *)
(* and grow only if the reset thread itself uses up a quantum on the way.  *)
THEOREM AcceptedGetsNearer ==
  Spec => [][asked /\ asked' /\ ~UsesUpQuantum =>
               /\ Remaining' <= Remaining
               /\ SystemTick /\ running # "reset" => Remaining' < Remaining]_vars
<1> DEFINE Nearer ==
             asked /\ asked' /\ ~UsesUpQuantum =>
               /\ Remaining' <= Remaining
               /\ SystemTick /\ running # "reset" => Remaining' < Remaining
<1>1. RtInv /\ AskedInv /\ [Next]_vars => Nearer
  <2> SUFFICES ASSUME RtInv, AskedInv, [Next]_vars, asked, asked', ~UsesUpQuantum
               PROVE  /\ Remaining' <= Remaining
                      /\ SystemTick /\ running # "reset" => Remaining' < Remaining
    OBVIOUS
  <2> USE DelaysAssumed DEF Delays, CH_TIME_QUANTUM, Remaining
  <2>1. Turn("reset") \in Nat /\ Turn("reset")' \in Nat
    <3>1. RtInv'
      BY RtInvStep
    <3> QED
      BY <3>1 DEF RtInv, ThreadInv, SchedInv, Thread, Turn
  <2>2. CASE running # "reset"
    <3>1. Queues("reset")
      BY <2>2 DEF RtInv, ThreadInv, AskedInv, Queues
    <3>2. rpc' = rpc
      BY <2>2 DEF Next, MainStep, ResetStep, my_usb_bsp_init, hal_tick_init, hal_tick_set_handler,
         USB_OTG_BSP_Init, USB_OTG_BSP_ConfigVBUS, HostDrivesVbus, USB_OTG_BSP_EnableInterrupt,
         USBH_USR_EnumerationDone, Suspend, Resume, USB_OTG_ResetPort, USB_OTG_ResetPort_I,
         SystemTick, MainAt, ResetAt, vars
    <3> QED
      BY <2>1, <3>1, <3>2, TurnNotPutOff, TickBringsTurn DEF Thread
  <2>3. CASE running = "reset"
    <3>1. Turn("reset") = 0
      BY <2>3 DEF Turn
    <3>2. CASE Resume
      <4>1. rpc = "suspended" /\ rpc' = "delay" /\ left'["reset"] = ResetDelay
        BY <3>2 DEF Resume, ResetAt, USB_OTG_BSP_mDelay, RtInv, ThreadInv, Thread
      <4>2. state'["reset"] = "sleeping"
        BY <3>2 DEF Resume, USB_OTG_BSP_mDelay, Wait, Become, RtInv, ThreadInv, Thread
      <4>3. running' # "reset"
        BY <3>2, Other DEF Resume, USB_OTG_BSP_mDelay, Wait
      <4> QED
        BY <2>1, <2>3, <3>1, <4>1, <4>2, <4>3 DEF Turn
    <3>3. CASE SystemTick
      <4>1. running' = "reset" /\ rpc' = rpc
        BY <2>3, <3>3 DEF UsesUpQuantum, SystemTick, Reschedule, Thread
      <4> QED
        BY <2>1, <2>3, <3>1, <4>1 DEF Turn
    <3>4. CASE UNCHANGED vars
      BY <2>1, <2>3, <3>4 DEF vars, sched, Turn
    <3>5. ~(Suspend \/ USB_OTG_ResetPort \/ USB_OTG_ResetPort_I \/ MainStep)
      BY <2>3 DEF RtInv, HandoverInv, SchedInv, AskedInv, MainStep, my_usb_bsp_init, hal_tick_init,
         hal_tick_set_handler, USB_OTG_BSP_Init, USB_OTG_BSP_ConfigVBUS, HostDrivesVbus,
         USB_OTG_BSP_EnableInterrupt, USBH_USR_EnumerationDone, Suspend, USB_OTG_ResetPort,
         USB_OTG_ResetPort_I, MainAt, ResetAt
    <3> QED
      BY <2>3, <3>2, <3>3, <3>4, <3>5 DEF Next, ResetStep
  <2> QED
    BY <2>2, <2>3
<1> HIDE DEF Nearer
<1>2. Spec => [][Nearer]_vars
  BY <1>1, RtInvAlways, AskedAlways, PTL DEF Spec
<1> QED
  BY <1>2 DEF Nearer
=============================================================================

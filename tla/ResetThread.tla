----------------------------- MODULE ResetThread -----------------------------
(***************************************************************************)
(* os/chibios: in the ChibiOS build the OTG_FS interrupt must not delay,   *)
(* so it hands a port reset to a thread of its own.  It finds the thread   *)
(* through usb_reset_tp, which is set while the thread is suspended.       *)
(*                                                                         *)
(* Two threads of one priority, main and usb_reset_thread.  A thread is    *)
(* ready (running or not), sleeping for left[th] system ticks, or          *)
(* suspended until the interrupt makes it ready; "none" before it is       *)
(* created.  The one that runs gives up the processor when it waits, or    *)
(* to another that is ready when its quantum of ticks is used up.  The     *)
(* same system tick drives BTstack's clock (vt).  What USBH_Init sets up   *)
(* on the board is here too.                                               *)
(***************************************************************************)
EXTENDS Integers

CONSTANTS
  VbusDelay,      (* the sleeps, in system ticks: in ConfigVBUS,         *)
  ResetDelay,     (* before a reset (stm32f4discovery_fw.diff),          *)
  PulseDelay,     (* in a reset,                                         *)
  EnumDelay       (* after an enumeration                                *)

Delays == {VbusDelay, ResetDelay, PulseDelay, EnumDelay}

ASSUME DelaysAssumed == Delays \subseteq Nat \ {0}

(* Zero: no round robin.  No part of the model, like every definition      *)
(* whose name ends in _Wrong: a plausible mistake, kept to show that a     *)
(* property would notice.                                                  *)
CH_TIME_QUANTUM_Wrong == 0

(* Ticks a thread may run on while another of its priority is ready.       *)
CH_TIME_QUANTUM == 5

CH_FREQUENCY == 100

(* chThdSleepMilliseconds in ticks.                                        *)
MS2ST(msec) == ((msec * CH_FREQUENCY - 1) \div 1000) + 1

VARIABLES
  running,        (* the thread that has the processor, or "idle"        *)
  preempt,        (* ticks left of its quantum                           *)
  state,          (* of each thread                                      *)
  left,           (* ticks each has still to sleep                       *)
  mpc, rpc,       (* where main and usb_reset_thread are                 *)
  usb_reset_tp,   (* "thread" or "NULL"                                  *)
  rdymsg,         (* the thread's p_u.rdymsg                             *)
  msg,            (* its local                                           *)
  irq_on,         (* OTG_FS enabled in the NVIC                          *)
  vt,             (* BTstack's virtual timer: "off" or "armed"           *)
  tick_handler,
  clk, pins,      (* RCC: clocks that are on; GPIOA: pins given to OTG_FS *)
  vbus,           (* the power switch                                    *)
  low_for,        (* history: ticks for which VBUS has been off          *)
  asked           (* history: a request was taken and its reset has not  *)
                  (* begun                                               *)

handover == <<usb_reset_tp, rdymsg, msg, asked>>
boardvars == <<clk, pins, vbus, low_for>>
tickvars == <<vt, tick_handler>>
sched == <<running, preempt>>
vars == <<sched, state, left, mpc, rpc, handover, irq_on, tickvars, boardvars>>

Thread == {"main", "reset"}

Init ==
  /\ running = "main"
  /\ preempt = CH_TIME_QUANTUM
  /\ state = [main |-> "ready", reset |-> "none"]
  /\ left = [th \in Thread |-> 0]
  /\ mpc = "start"
  /\ rpc = "start"
  /\ usb_reset_tp = "NULL"
  /\ rdymsg = "NULL"
  /\ msg = "NULL"
  /\ irq_on = FALSE
  /\ vt = "off"
  /\ tick_handler = "dummy_tick_handler"
  /\ clk = {}
  /\ pins = {}
  /\ vbus = "floating"
  /\ low_for = 0
  /\ asked = FALSE

Become(th, s) == state' = [state EXCEPT ![th] = s]

(* The running thread waits: the other runs, if it is ready, with a whole  *)
(* quantum.                                                                *)
Wait(th, s) ==
  /\ Become(th, s)
  /\ running' = IF \E other \in Thread \ {th} : state[other] = "ready"
                THEN CHOOSE other \in Thread : other # th ELSE "idle"
  /\ preempt' = CH_TIME_QUANTUM

(* The end of an interrupt that left so much of the quantum: a ready       *)
(* thread takes over from the idle one, and from another whose quantum is  *)
(* used up.                                                                *)
Reschedule(quantum) ==
  LET waiting == {th \in Thread \ {running} : state'[th] = "ready"}
      switch == running = "idle" \/ (CH_TIME_QUANTUM > 0 /\ quantum = 0)
  IN  \/ /\ switch /\ running' \in waiting
         /\ preempt' = IF quantum = 0 THEN CH_TIME_QUANTUM ELSE quantum
      \/ /\ ~switch \/ waiting = {}
         /\ preempt' = quantum
         /\ UNCHANGED running

(* Main from one place to the next, if it runs; the thread likewise.       *)
MainAt(from, to) ==
  /\ running = "main" /\ mpc = from
  /\ mpc' = to
  /\ UNCHANGED <<rpc, handover>>

ResetAt(from, to) ==
  /\ running = "reset" /\ rpc = from
  /\ rpc' = to
  /\ UNCHANGED <<mpc, irq_on, tickvars, boardvars>>

(* USB_OTG_BSP_mDelay is chThdSleepMilliseconds.                           *)
USB_OTG_BSP_mDelay(th, ticks) ==
  /\ Wait(th, "sleeping")
  /\ left' = [left EXCEPT ![th] = ticks]

-----------------------------------------------------------------------------
(* main: my_usb_bsp_init, then BTstack's run loop, which starts the tick   *)
(* before it takes it, and USBH_Init.                                      *)
my_usb_bsp_init ==
  /\ MainAt("start", "created")
  /\ Become("reset", "ready")
  /\ UNCHANGED <<sched, left, irq_on, tickvars, boardvars>>

hal_tick_init ==
  /\ MainAt("created", "armed")
  /\ vt' = "armed"
  /\ UNCHANGED <<sched, state, left, irq_on, tick_handler, boardvars>>

hal_tick_set_handler(handler) ==
  /\ MainAt("armed", "ticking")
  /\ tick_handler' = IF handler = "none" THEN "dummy_tick_handler" ELSE handler
  /\ UNCHANGED <<sched, state, left, irq_on, vt, boardvars>>

(* Without the clock of port A.                                            *)
USB_OTG_BSP_Init_Wrong ==
  /\ MainAt("ticking", "bsp")
  /\ clk' = clk \cup {"SYSCFG", "OTGFS"}
  /\ pins' = IF "GPIOA" \in clk' THEN {9, 10, 11, 12} ELSE pins
  /\ UNCHANGED <<sched, state, left, irq_on, tickvars, vbus, low_for>>

(* A port without its clock takes no settings.                             *)
USB_OTG_BSP_Init ==
  /\ MainAt("ticking", "bsp")
  /\ clk' = clk \cup {"GPIOA", "SYSCFG", "OTGFS"}
  /\ pins' = IF "GPIOA" \in clk' THEN {9, 10, 11, 12} ELSE pins
  /\ UNCHANGED <<sched, state, left, irq_on, tickvars, vbus, low_for>>

(* 0 sets the pin, which disables the switch.                              *)
USB_OTG_BSP_DriveVBUS(on) == vbus' = IF on = 0 THEN "off" ELSE "on"

(* Without the 200 ms.                                                     *)
USB_OTG_BSP_ConfigVBUS_Wrong ==
  /\ MainAt("bsp", "vbus")
  /\ clk' = clk \cup {"GPIOC"}
  /\ USB_OTG_BSP_DriveVBUS(0)
  /\ UNCHANGED <<sched, state, left, irq_on, tickvars, pins, low_for>>

USB_OTG_BSP_ConfigVBUS ==
  /\ MainAt("bsp", "vbus")
  /\ clk' = clk \cup {"GPIOC"}
  /\ USB_OTG_BSP_DriveVBUS(0)
  /\ USB_OTG_BSP_mDelay("main", VbusDelay)
  /\ UNCHANGED <<irq_on, tickvars, pins, low_for>>

HostDrivesVbus ==
  /\ MainAt("vbus", "host")
  /\ USB_OTG_BSP_DriveVBUS(1)
  /\ UNCHANGED <<sched, state, left, irq_on, tickvars, clk, pins, low_for>>

USB_OTG_BSP_EnableInterrupt ==
  /\ MainAt("host", "process")
  /\ irq_on' = TRUE
  /\ UNCHANGED <<sched, state, left, tickvars, boardvars>>

(* USBH_Process, which otherwise never waits, ends an enumeration.         *)
USBH_USR_EnumerationDone ==
  /\ MainAt("process", "process")
  /\ USB_OTG_BSP_mDelay("main", EnumDelay)
  /\ UNCHANGED <<irq_on, tickvars, boardvars>>

-----------------------------------------------------------------------------
(* usb_reset_thread.                                                       *)

(* The thread announced outside the lock.                                  *)
Suspend_Wrong ==
  /\ \/ /\ \E from \in {"start", "pulse"} : ResetAt(from, "announced")
        /\ usb_reset_tp' = "thread"
        /\ UNCHANGED <<sched, state>>
     \/ /\ ResetAt("announced", "suspended")
        /\ Wait("reset", "suspended")
        /\ UNCHANGED usb_reset_tp
  /\ UNCHANGED <<left, rdymsg, msg, asked>>

(* At its start and after each reset; chSysLock holds the interrupt off    *)
(* until the thread is suspended.                                          *)
Suspend ==
  /\ \E from \in {"start", "pulse"} : ResetAt(from, "suspended")
  /\ usb_reset_tp' = "thread"
  /\ Wait("reset", "suspended")
  /\ UNCHANGED <<left, rdymsg, msg, asked>>

(* Made ready: takes its message and calls USB_OTG_ResetPort, whose first  *)
(* act is a delay ...                                                      *)
Resume ==
  /\ ResetAt("suspended", "delay")
  /\ msg' = rdymsg
  /\ USB_OTG_BSP_mDelay("reset", ResetDelay)
  /\ UNCHANGED <<usb_reset_tp, rdymsg, asked>>

(* ... before the port is reset, for a while.                              *)
USB_OTG_ResetPort ==
  /\ ResetAt("delay", "pulse")
  /\ asked' = FALSE
  /\ USB_OTG_BSP_mDelay("reset", PulseDelay)
  /\ UNCHANGED <<usb_reset_tp, rdymsg, msg>>

-----------------------------------------------------------------------------
(* The OTG_FS interrupt, when the port wants a reset.                      *)
PortWantsReset == irq_on

(* usb_reset_tp not cleared.                                               *)
USB_OTG_ResetPort_I_Again_Wrong ==
  /\ PortWantsReset
  /\ usb_reset_tp = "thread"
  /\ rdymsg' = "pdev"
  /\ Become("reset", "ready")
  /\ Reschedule(preempt)
  /\ asked' = TRUE
  /\ UNCHANGED <<left, mpc, rpc, usb_reset_tp, msg, irq_on, tickvars, boardvars>>

(* The handle not passed.                                                  *)
USB_OTG_ResetPort_I_Msg_Wrong ==
  /\ PortWantsReset
  /\ usb_reset_tp = "thread"
  /\ Become("reset", "ready")
  /\ Reschedule(preempt)
  /\ usb_reset_tp' = "NULL"
  /\ asked' = TRUE
  /\ UNCHANGED <<left, mpc, rpc, rdymsg, msg, irq_on, tickvars, boardvars>>

(* With usb_reset_tp = 0 the request is dropped: no step of this model.    *)
USB_OTG_ResetPort_I ==
  /\ PortWantsReset
  /\ usb_reset_tp = "thread"
  /\ rdymsg' = "pdev"
  /\ Become("reset", "ready")
  /\ Reschedule(preempt)
  /\ usb_reset_tp' = "NULL"
  /\ asked' = TRUE
  /\ UNCHANGED <<left, mpc, rpc, msg, irq_on, tickvars, boardvars>>

-----------------------------------------------------------------------------
(* The kernel's tick: sleepers, and the virtual timer.                     *)
WakeSleepers ==
  /\ left' = [th \in Thread |-> IF left[th] > 0 THEN left[th] - 1 ELSE 0]
  /\ state' = [th \in Thread |-> IF left[th] = 1 THEN "ready" ELSE state[th]]

(* The virtual timer, armed for one tick, has expired; its function arms   *)
(* it again and calls BTstack's tick handler.                              *)
tick_wrapper ==
  \/ vt = "armed" /\ vt' = "armed"
  \/ vt = "off" /\ UNCHANGED vt

(* Usb_reset_thread, alone on the processor while ConfigVBUS sleeps, comes *)
(* to its loop before that sleep is over.                                  *)
SystemTick ==
  /\ ~(rpc = "start" /\ left["main"] = 1)
  /\ WakeSleepers
  /\ Reschedule(IF preempt > 0 THEN preempt - 1 ELSE 0)
  /\ tick_wrapper
  /\ low_for' = IF vbus = "off" /\ low_for < VbusDelay THEN low_for + 1 ELSE low_for
  /\ UNCHANGED <<mpc, rpc, handover, irq_on, tick_handler, clk, pins, vbus>>

MainStep ==
  \/ my_usb_bsp_init \/ hal_tick_init \/ hal_tick_set_handler("embedded_tick_handler")
  \/ USB_OTG_BSP_Init \/ USB_OTG_BSP_ConfigVBUS \/ HostDrivesVbus \/ USB_OTG_BSP_EnableInterrupt
  \/ USBH_USR_EnumerationDone

ResetStep == Suspend \/ Resume \/ USB_OTG_ResetPort

Next == MainStep \/ ResetStep \/ USB_OTG_ResetPort_I \/ SystemTick

Spec == Init /\ [][Next]_vars

(* Time passes, and usb_reset_thread gets on when it has the processor:    *)
(* between two waits it needs much less than a quantum.  Whether it gets   *)
(* the processor is not assumed.                                           *)
FairSpec == Spec /\ WF_vars(SystemTick) /\ SF_vars(ResetStep)

-----------------------------------------------------------------------------
(* Types; no processor idles while a thread is ready; the thread has the   *)
(* handle it resets the port with; BTstack's clock goes on once it was     *)
(* started, and BTstack hears it.                                          *)
RtTypeOK ==
  /\ running \in Thread \cup {"idle"}
  /\ \A th \in Thread : state[th] = "ready" => running # "idle"
  /\ running # "idle" => state[running] = "ready"
  /\ preempt \in 0 .. CH_TIME_QUANTUM
  /\ state["main"] \in {"ready", "sleeping"}
  /\ state["reset"] \in {"none", "ready", "sleeping", "suspended"}
  /\ \A th \in Thread : state[th] = "sleeping" <=> left[th] > 0
  /\ mpc \in {"start", "created", "armed", "ticking", "bsp", "vbus", "host", "process"}
  /\ rpc \in {"start", "suspended", "delay", "pulse"}
  /\ usb_reset_tp \in {"NULL", "thread"}
  /\ rpc \in {"delay", "pulse"} => msg = "pdev"
  /\ mpc \notin {"start", "created"} => vt = "armed"
  /\ mpc \notin {"start", "created", "armed"} => tick_handler = "embedded_tick_handler"
  /\ clk \subseteq {"GPIOA", "GPIOC", "SYSCFG", "OTGFS"}
  /\ vbus \in {"floating", "off", "on"}
  /\ low_for \in 0 .. VbusDelay

(* USB_OTG_ResetPort_I makes usb_reset_thread ready only while it is       *)
(* suspended, never while it runs or sleeps in a reset.                    *)
ReadyOnlySuspended == usb_reset_tp = "thread" => state["reset"] = "suspended"

(* A request of the port is dropped only while a reset is on its way       *)
(* already, and never because the thread has not come to its loop yet.     *)
DroppedOnlyInReset ==
  irq_on /\ usb_reset_tp = "NULL" => asked \/ rpc \in {"delay", "pulse"}

(* When a port interrupt may come, the core has its pins and clocks and    *)
(* the port its power.                                                     *)
PortBacked ==
  irq_on => pins = {9, 10, 11, 12} /\ {"GPIOA", "SYSCFG", "OTGFS"} \subseteq clk /\ vbus = "on"

(* VBUS has been off for the ticks ConfigVBUS sleeps when the host puts it *)
(* on, whatever the reset thread did in between.                           *)
VbusRests == [][vbus = "off" /\ vbus' = "on" => low_for = VbusDelay]_vars

(* Every request USB_OTG_ResetPort_I takes is followed by a reset,         *)
(* although main never waits in its run loop: the round robin alone gives  *)
(* usb_reset_thread the processor.                                         *)
AcceptedIsDone == asked ~> ~asked
=============================================================================

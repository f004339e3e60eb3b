------------------------------ MODULE BspDelay ------------------------------
(***************************************************************************)
(* clones/usb_bsp.c, what the no-OS build puts between the host library    *)
(* and the board: clocks and pins of the USB core, VBUS, two interrupts,   *)
(* and delays.  BSP_Delay counts down one variable, BSP_delay, in the      *)
(* interrupt of one timer, TIM2.                                           *)
(*                                                                         *)
(* Two threads of control delay: "main", and the OTG_FS interrupt ("isr")  *)
(* when the port asks for a reset (os/none/hal_bt_os.c:                    *)
(* USB_OTG_ResetPort_I calls USB_OTG_ResetPort, which delays).  TIM2 ends  *)
(* the wait of either only if its priority lets it interrupt that one.     *)
(*                                                                         *)
(* pc[a]: idle  not in BSP_Delay       set   BSP_delay is written          *)
(*        wait  in the while loop      stop  the loop is left              *)
(***************************************************************************)
EXTENDS Integers

CONSTANTS
  Times,      (* the delays asked for, in the periods of their own unit    *)
  VbusDelay   (* the one of USB_OTG_BSP_ConfigVBUS                         *)

ASSUME TimesAssumed == Times \subseteq Nat /\ VbusDelay \in Nat

VARIABLES
  BSP_delay,
  period,     (* TIM2: timer clocks from one update to the next            *)
  cen,        (* its counter runs                                          *)
  uif,        (* its update interrupt is pending                           *)
  pc,
  owed,       (* history: periods each delay has still to last             *)
  cut,        (* history: a reset began during main's present delay        *)
  stage,      (* main: the last call of USBH_Init made                     *)
  clk,        (* RCC: peripherals whose clock is on                        *)
  pins,       (* GPIOA: pins given to OTG_FS                               *)
  vbus,       (* the power switch                                          *)
  low_for,    (* history: periods for which VBUS has been off              *)
  nvic        (* on: interrupts enabled; subs: sub-priorities in each      *)
              (* priority (the priority group); prio: priority registers   *)

delayvars == <<BSP_delay, period, cen, uif, pc, owed, cut>>
boardvars == <<stage, clk, pins, vbus, low_for, nvic>>
vars == <<delayvars, boardvars>>

Actor == {"main", "isr"}
Irq == {"TIM2", "OTG_FS", "EXTI9_5"}

MAXINT == 2147483647

Init ==
  /\ BSP_delay = 0
  /\ period = 0
  /\ cen = FALSE
  /\ uif = FALSE
  /\ pc = [a \in Actor |-> "idle"]
  /\ owed = [a \in Actor |-> 0]
  /\ cut = FALSE
  /\ stage = "start"
  /\ clk = {}
  /\ pins = {}
  /\ vbus = "floating"
  /\ low_for = 0
  /\ nvic = [on |-> {}, subs |-> 1, prio |-> [i \in Irq |-> 0]]

-----------------------------------------------------------------------------
(* NVIC_PriorityGroupConfig(...) and NVIC_Init: the register is written    *)
(* under the group of the moment and read under the one of the day.        *)
NVIC_Init(n, irq, subs, pre, sub) ==
  [on |-> n.on \cup {irq}, subs |-> subs,
   prio |-> [n.prio EXCEPT ![irq] = (pre * subs) + (sub % subs)]]

Level(word) == word \div nvic.subs

(* An interrupt of this priority waits while the OTG_FS one runs, unless   *)
(* it is of a higher (lower) level.                                        *)
HeldBack(word) == pc["isr"] # "idle" /\ Level(word) >= Level(nvic.prio["OTG_FS"])

(* TIM2's interrupt is served before anything it may interrupt goes on;    *)
(* main is stopped for as long as the OTG_FS interrupt runs.               *)
TimerDue == uif /\ "TIM2" \in nvic.on /\ ~HeldBack(nvic.prio["TIM2"])

Runs(a) == ~TimerDue /\ (a = "main" => pc["isr"] = "idle")

At(a, from, to) ==
  /\ Runs(a)
  /\ pc[a] = from
  /\ pc' = [pc EXCEPT ![a] = to]

(* BSP_Delay(nTime, unit), called by USB_OTG_BSP_uDelay and ..._mDelay.    *)
BSP_Delay(a, nTime) ==
  /\ At(a, "idle", "set")
  /\ BSP_delay' = nTime
  /\ owed' = [owed EXCEPT ![a] = nTime]
  /\ cut' = IF a = "main" THEN FALSE ELSE cut \/ pc["main"] \in {"set", "wait"}
  /\ UNCHANGED <<period, cen, uif>>

(* Without TIM_ClearITPendingBit.  No part of the model, like every        *)
(* definition whose name ends in _Wrong: a plausible mistake, kept to show *)
(* that a property would notice.                                           *)
BSP_SetTime_Wrong(a, unit) ==
  /\ At(a, "set", "wait")
  /\ period' = (5 + 1) * (IF unit = "usec" THEN 11 + 1 ELSE 11999 + 1)
  /\ cen' = ("TIM2" \in clk)
  /\ uif' = ("TIM2" \in clk)
  /\ UNCHANGED <<BSP_delay, owed, cut, boardvars>>

(* TIM_TimeBaseInit starts a whole period and leaves the update flag set;  *)
(* the flag is cleared before the interrupt is enabled.  A timer without   *)
(* its clock stays still.  The unit is chosen by the caller of BSP_Delay,  *)
(* but used only here.                                                     *)
BSP_SetTime(a, unit) ==
  /\ At(a, "set", "wait")
  /\ period' = (5 + 1) * (IF unit = "usec" THEN 11 + 1 ELSE 11999 + 1)
  /\ cen' = ("TIM2" \in clk)
  /\ uif' = FALSE
  /\ UNCHANGED <<BSP_delay, owed, cut, boardvars>>

LeaveLoop(a) ==
  /\ At(a, "wait", "stop")
  /\ BSP_delay = 0
  /\ UNCHANGED <<BSP_delay, period, cen, uif, owed, cut, boardvars>>

StopTimer(a) ==
  /\ At(a, "stop", "idle")
  /\ cen' = FALSE
  /\ UNCHANGED <<BSP_delay, period, uif, owed, cut, boardvars>>

-----------------------------------------------------------------------------
(* main, in USBH_Init.                                                     *)
MainAt(from, to) ==
  /\ Runs("main") /\ pc["main"] = "idle"
  /\ stage = from
  /\ stage' = to

(* TIM2 gets its interrupt and its clock.                                  *)
USB_OTG_BSP_TimeInit(on) ==
  /\ nvic' = NVIC_Init(nvic, "TIM2", 4, 0, 1)
  /\ clk' = on \cup {"TIM2"}

(* Without the clock of port A.                                            *)
USB_OTG_BSP_Init_Wrong ==
  /\ MainAt("start", "bsp")
  /\ USB_OTG_BSP_TimeInit(clk \cup {"SYSCFG", "OTG_FS"})
  /\ pins' = IF "GPIOA" \in clk' THEN {9, 10, 11, 12} ELSE pins
  /\ UNCHANGED <<delayvars, vbus, low_for>>

(* A port without its clock takes no settings.                             *)
USB_OTG_BSP_Init ==
  /\ MainAt("start", "bsp")
  /\ USB_OTG_BSP_TimeInit(clk \cup {"GPIOA", "SYSCFG", "OTG_FS"})
  /\ pins' = IF "GPIOA" \in clk' THEN {9, 10, 11, 12} ELSE pins
  /\ UNCHANGED <<delayvars, vbus, low_for>>

(* 0 sets the pin, which disables the switch.                              *)
USB_OTG_BSP_DriveVBUS(state) == vbus' = IF state = 0 THEN "off" ELSE "on"

(* Ends in the delay.                                                      *)
USB_OTG_BSP_ConfigVBUS ==
  /\ MainAt("bsp", "vbus")
  /\ clk' = clk \cup {"GPIOC"}
  /\ USB_OTG_BSP_DriveVBUS(0)
  /\ BSP_Delay("main", VbusDelay)
  /\ UNCHANGED <<pins, low_for, nvic>>

HostDrivesVbus ==
  /\ MainAt("vbus", "host")
  /\ USB_OTG_BSP_DriveVBUS(1)
  /\ UNCHANGED <<delayvars, clk, pins, low_for, nvic>>

(* OTG_FS at the timer's own level.                                        *)
USB_OTG_BSP_EnableInterrupt_Wrong ==
  /\ MainAt("host", "run")
  /\ nvic' = NVIC_Init(NVIC_Init(nvic, "OTG_FS", 8, 0, 1), "EXTI9_5", 8, 1, 2)
  /\ UNCHANGED <<delayvars, clk, pins, vbus, low_for>>

(* From now on the port may ask for a reset.                               *)
USB_OTG_BSP_EnableInterrupt ==
  /\ MainAt("host", "run")
  /\ nvic' = NVIC_Init(NVIC_Init(nvic, "OTG_FS", 8, 1, 1), "EXTI9_5", 8, 1, 2)
  /\ UNCHANGED <<delayvars, clk, pins, vbus, low_for>>

USBH_Init ==
  \/ USB_OTG_BSP_Init
  \/ USB_OTG_BSP_ConfigVBUS
  \/ HostDrivesVbus
  \/ USB_OTG_BSP_EnableInterrupt

-----------------------------------------------------------------------------
(* The counter comes to its end: a period has passed for every delay.      *)
Update ==
  /\ cen
  /\ uif' = TRUE
  /\ owed' = [a \in Actor |-> IF pc[a] = "wait" /\ owed[a] > 0 THEN owed[a] - 1 ELSE owed[a]]
  /\ low_for' = IF vbus = "off" /\ low_for < VbusDelay THEN low_for + 1 ELSE low_for
  /\ UNCHANGED <<BSP_delay, period, cen, pc, cut, stage, clk, pins, vbus, nvic>>

(* TIM_ClearITPendingBit left out here.                                    *)
USB_OTG_BSP_TimerIRQ_Flag_Wrong ==
  /\ TimerDue
  /\ \/ BSP_delay > 0 /\ BSP_delay' = BSP_delay - 1 /\ UNCHANGED cen
     \/ BSP_delay = 0 /\ cen' = FALSE /\ UNCHANGED BSP_delay
  /\ UNCHANGED <<period, uif, pc, owed, cut, boardvars>>

(* The test for zero left out: the unsigned variable goes around to a huge *)
(* count, whose exact size does not matter here.                           *)
USB_OTG_BSP_TimerIRQ_Wrap_Wrong ==
  /\ TimerDue
  /\ uif' = FALSE
  /\ BSP_delay' = IF BSP_delay = 0 THEN MAXINT ELSE BSP_delay - 1
  /\ UNCHANGED <<period, cen, pc, owed, cut, boardvars>>

USB_OTG_BSP_TimerIRQ ==
  /\ TimerDue
  /\ uif' = FALSE
  /\ \/ BSP_delay > 0 /\ BSP_delay' = BSP_delay - 1 /\ UNCHANGED cen
     \/ BSP_delay = 0 /\ cen' = FALSE /\ UNCHANGED BSP_delay
  /\ UNCHANGED <<period, pc, owed, cut, boardvars>>

(* Delays the library asks for: of main once the timer is set up, of the   *)
(* interrupt once it is enabled.                                           *)
Call(a) ==
  /\ IF a = "main" THEN stage \in {"host", "run"} ELSE "OTG_FS" \in nvic.on
  /\ \E nTime \in Times : BSP_Delay(a, nTime)
  /\ UNCHANGED boardvars

Proceed(a) ==
  \/ \E unit \in {"usec", "msec"} : BSP_SetTime(a, unit)
  \/ LeaveLoop(a)
  \/ StopTimer(a)

Next ==
  \/ USBH_Init
  \/ \E a \in Actor : Call(a) \/ Proceed(a)
  \/ Update
  \/ USB_OTG_BSP_TimerIRQ

Spec == Init /\ [][Next]_vars

-----------------------------------------------------------------------------
(* BSP_delay keeps to the values asked for: it never goes below zero and   *)
(* around.                                                                 *)
BspTypeOK ==
  /\ \E top \in Times \cup {VbusDelay} : BSP_delay \in 0 .. top
  /\ period \in {0, 72, 72000}
  /\ cen \in BOOLEAN
  /\ uif \in BOOLEAN
  /\ pc \in [Actor -> {"idle", "set", "wait", "stop"}]
  /\ owed \in [Actor -> Nat]
  /\ cut \in BOOLEAN
  /\ stage \in {"start", "bsp", "vbus", "host", "run"}
  /\ clk \subseteq {"GPIOA", "GPIOC", "SYSCFG", "OTG_FS", "TIM2"}
  /\ pins \subseteq 9 .. 12
  /\ vbus \in {"floating", "off", "on"}
  /\ low_for \in 0 .. VbusDelay
  /\ nvic \in [on : SUBSET Irq, subs : {1, 4, 8},
               prio : [Irq -> 0 .. 15]]

(* USB_OTG_BSP_mDelay and ..._uDelay, called outside the interrupt, return *)
(* no earlier than they were asked to.                                     *)
DelayLongEnough == pc["main"] = "stop" => owed["main"] = 0

(* The same of every delay that no reset interrupted, whatever resets came *)
(* before it: they leave the timer as a delay needs it.                    *)
UncutDelayLongEnough == ~cut => DelayLongEnough

(* No delay waits for ever, one that a reset cut into neither: the         *)
(* interrupt leaves the timer off but never leaves a count behind, and the *)
(* timer's priority, written under another priority group than the USB     *)
(* interrupt's, lets it in while that one waits.                           *)
DelayReturns == \A a \in Actor : pc[a] = "wait" ~> pc[a] = "idle"

(* VBUS has been off for the whole time ConfigVBUS wants when the host     *)
(* puts it on: no reset can cut into that delay.                           *)
VbusRests == [][vbus = "off" /\ vbus' = "on" => low_for = VbusDelay]_vars

(* When a port interrupt may come, the core has its pins and clocks, and a *)
(* delay in that interrupt can be ended by the timer's.                    *)
InterruptBacked ==
  "OTG_FS" \in nvic.on => /\ pins = {9, 10, 11, 12}
                          /\ {"OTG_FS", "SYSCFG", "TIM2"} \subseteq clk
                          /\ "TIM2" \in nvic.on
                          /\ Level(nvic.prio["TIM2"]) < Level(nvic.prio["OTG_FS"])
=============================================================================

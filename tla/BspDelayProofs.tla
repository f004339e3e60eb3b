--------------------------- MODULE BspDelayProofs ---------------------------
(* What the no-OS board support keeps for delays of any length, wherever   *)
(* the port's resets come.                                                 *)
EXTENDS BspDelay, TLAPS

(* The interrupt controller as each call of USBH_Init leaves it.           *)
NvicAt(s) ==
  IF s = "start" THEN [on |-> {}, subs |-> 1, prio |-> [i \in Irq |-> 0]]
  ELSE IF s \in {"bsp", "vbus", "host"}
       THEN [on |-> {"TIM2"}, subs |-> 4, prio |-> [i \in Irq |-> IF i = "TIM2" THEN 1 ELSE 0]]
  ELSE [on |-> Irq, subs |-> 8,
        prio |-> [i \in Irq |-> IF i = "TIM2" THEN 1 ELSE IF i = "OTG_FS" THEN 9 ELSE 10]]

(* How far USBH_Init has come tells what is set up, and who can delay.     *)
StageInv ==
  /\ stage \in {"start", "bsp", "vbus", "host", "run"}
  /\ nvic = NvicAt(stage)
  /\ stage = "start" => clk = {} /\ pins = {} /\ ~uif
  /\ stage # "start" => {"GPIOA", "SYSCFG", "OTG_FS", "TIM2"} \subseteq clk /\ pins = {9, 10, 11, 12}
  /\ clk \subseteq {"GPIOA", "GPIOC", "SYSCFG", "OTG_FS", "TIM2"}
  /\ pc \in [Actor -> {"idle", "set", "wait", "stop"}]
  /\ pc["isr"] # "idle" => stage = "run"
  /\ pc["main"] # "idle" => stage \in {"vbus", "host", "run"}

(* Outside of delays the timer is off and nothing is pending.  While main  *)
(* waits undisturbed, the count is at least the periods still to come and, *)
(* when an update is pending, one more: the one that is already over.      *)
Pending == IF uif THEN 1 ELSE 0

DelayInv ==
  /\ BSP_delay \in Nat
  /\ period \in {0, 72, 72000}
  /\ owed \in [Actor -> Nat]
  /\ ~cen => ~uif
  /\ pc["isr"] = "idle" /\ pc["main"] \in {"idle", "set"} => ~cen
  /\ pc["main"] \in {"set", "wait"} /\ ~cut => pc["isr"] = "idle"
  /\ pc["main"] = "set" /\ ~cut => owed["main"] = BSP_delay
  /\ pc["main"] = "wait" /\ ~cut => owed["main"] = 0 \/ owed["main"] + Pending <= BSP_delay
  /\ pc["main"] = "stop" /\ ~cut => owed["main"] = 0

(* VBUS goes off with the delay of ConfigVBUS, which nothing can cut into: *)
(* the periods it has been off and those still owed make up the delay.     *)
VbusInv ==
  /\ vbus = CASE stage \in {"start", "bsp"} -> "floating"
              [] stage = "vbus" -> "off"
              [] OTHER -> "on"
  /\ low_for \in Nat /\ low_for <= VbusDelay
  /\ stage = "vbus" => /\ ~cut
                       /\ low_for + owed["main"] >= VbusDelay
                       /\ pc["main"] = "idle" => low_for = VbusDelay

BspInv == StageInv /\ DelayInv /\ VbusInv

(* Two facts that need none of these: flags are flags, and the count comes *)
(* from a delay asked for.                                                 *)
FlagsOK == cen \in BOOLEAN /\ uif \in BOOLEAN /\ cut \in BOOLEAN
CountOK == \E top \in Times \cup {VbusDelay} : BSP_delay \in 0 .. top

-----------------------------------------------------------------------------
LEMMA BspInvInit == Init => BspInv
<1> SUFFICES ASSUME Init PROVE BspInv
  OBVIOUS
<1> USE TimesAssumed DEF Init, Actor, Irq
<1>1. StageInv
  BY DEF StageInv, NvicAt
<1>2. DelayInv
  BY DEF DelayInv, Pending
<1>3. VbusInv
  BY DEF VbusInv
<1> QED
  BY <1>1, <1>2, <1>3 DEF BspInv

(* The timer's interrupt is never held back: it is enabled before anything *)
(* delays, and of a higher level than the OTG_FS one.                      *)
LEMMA TimerNeverHeldBack == StageInv => (TimerDue <=> uif)
BY DEF StageInv, NvicAt, TimerDue, HeldBack, Level, Irq, Actor

(* One lemma for each thread of control: main in USBH_Init, a delay        *)
(* called, a delay going on, and the timer.                                *)
LEMMA InitCallKeeps == BspInv /\ USBH_Init => BspInv'
<1> SUFFICES ASSUME BspInv, USBH_Init PROVE BspInv'
  OBVIOUS
<1> USE TimesAssumed DEF MainAt, Runs, Actor, Irq, delayvars, BspInv
<1>1. CASE USB_OTG_BSP_Init
  <2>1. nvic' = NvicAt("bsp")
    BY <1>1 DEF USB_OTG_BSP_Init, USB_OTG_BSP_TimeInit, StageInv, NvicAt, NVIC_Init
  <2>2. StageInv'
    BY <1>1, <2>1 DEF USB_OTG_BSP_Init, USB_OTG_BSP_TimeInit, StageInv
  <2>3. DelayInv' /\ VbusInv'
    BY <1>1 DEF USB_OTG_BSP_Init, USB_OTG_BSP_TimeInit, StageInv, DelayInv, VbusInv, Pending
  <2> QED
    BY <2>2, <2>3
<1>2. CASE USB_OTG_BSP_ConfigVBUS
  <2> USE DEF USB_OTG_BSP_ConfigVBUS, BSP_Delay, At, USB_OTG_BSP_DriveVBUS
  <2>1. StageInv'
    BY <1>2 DEF StageInv, NvicAt
  <2>2. DelayInv'
    BY <1>2 DEF StageInv, DelayInv, Pending
  <2>3. VbusInv'
    BY <1>2 DEF StageInv, DelayInv, VbusInv
  <2> QED
    BY <2>1, <2>2, <2>3
<1>3. CASE HostDrivesVbus
  <2> USE DEF HostDrivesVbus, USB_OTG_BSP_DriveVBUS
  <2>1. StageInv'
    BY <1>3 DEF StageInv, NvicAt
  <2>2. DelayInv' /\ VbusInv'
    BY <1>3 DEF StageInv, DelayInv, VbusInv, Pending
  <2> QED
    BY <2>1, <2>2
<1>4. CASE USB_OTG_BSP_EnableInterrupt
  <2>1. nvic' = NvicAt("run")
    BY <1>4 DEF USB_OTG_BSP_EnableInterrupt, StageInv, NvicAt, NVIC_Init
  <2>2. StageInv'
    BY <1>4, <2>1 DEF USB_OTG_BSP_EnableInterrupt, StageInv
  <2>3. DelayInv' /\ VbusInv'
    BY <1>4 DEF USB_OTG_BSP_EnableInterrupt, StageInv, DelayInv, VbusInv, Pending
  <2> QED
    BY <2>2, <2>3
<1> QED
  BY <1>1, <1>2, <1>3, <1>4 DEF USBH_Init

LEMMA CallKeeps == ASSUME NEW a \in Actor, BspInv, Call(a) PROVE BspInv'
<1> USE DEF Call, BSP_Delay, At, boardvars, BspInv, Actor
<1>1. PICK nTime \in Times : BSP_Delay(a, nTime)
  BY DEF Call
<1>2. nTime \in Nat /\ VbusDelay \in Nat
  BY TimesAssumed
<1>3. stage \in {"host", "run"} /\ (a = "isr" => stage = "run")
  BY DEF StageInv, NvicAt
<1>4. StageInv'
  BY <1>1, <1>2, <1>3 DEF StageInv, NvicAt
<1>5. DelayInv'
  <2>1. CASE a = "main"
    BY <1>1, <1>2, <1>3, <2>1 DEF StageInv, DelayInv, Pending, Runs
  <2>2. CASE a = "isr"
    <3>1. ~cut' => ~cut /\ pc["main"] \notin {"set", "wait"}
      BY <1>1, <2>2, Zenon
    <3>2. pc'["main"] = pc["main"] /\ pc'["isr"] = "set" /\ ~uif'
      BY <1>1, <1>3, <2>2, TimerNeverHeldBack DEF StageInv, Runs
    <3> QED
      BY <1>1, <1>2, <2>2, <3>1, <3>2 DEF DelayInv, Pending
  <2> QED
    BY <2>1, <2>2
<1>6. VbusInv'
  BY <1>1, <1>2, <1>3 DEF VbusInv
<1> QED
  BY <1>4, <1>5, <1>6

LEMMA ProceedKeeps == ASSUME NEW a \in Actor, BspInv, Proceed(a) PROVE BspInv'
<1> USE TimesAssumed DEF At, Runs, boardvars, BspInv, Actor
<1>1. ASSUME NEW unit \in {"usec", "msec"}, BSP_SetTime(a, unit)
      PROVE  BspInv'
  <2> USE <1>1 DEF BSP_SetTime
  <2>1. StageInv' /\ cen'
    BY DEF StageInv, NvicAt
  <2>2. period' \in {72, 72000}
    OBVIOUS
  <2>3. DelayInv'
    BY <2>1, <2>2 DEF StageInv, DelayInv, Pending
  <2>4. VbusInv'
    BY DEF VbusInv, StageInv
  <2> QED
    BY <2>1, <2>3, <2>4
<1>2. CASE LeaveLoop(a)
  <2> USE <1>2 DEF LeaveLoop
  <2>1. StageInv'
    BY DEF StageInv, NvicAt
  <2>2. DelayInv'
    BY DEF StageInv, DelayInv, Pending
  <2>3. VbusInv'
    BY DEF VbusInv, StageInv
  <2> QED
    BY <2>1, <2>2, <2>3
<1>3. CASE StopTimer(a)
  <2> USE <1>3 DEF StopTimer
  <2>1. StageInv' /\ ~uif
    BY TimerNeverHeldBack DEF StageInv, NvicAt
  <2>2. DelayInv'
    BY <2>1 DEF StageInv, DelayInv, Pending
  <2>3. VbusInv'
    BY DEF VbusInv, StageInv, DelayInv
  <2> QED
    BY <2>1, <2>2, <2>3
<1> QED
  BY <1>1, <1>2, <1>3 DEF Proceed

LEMMA TimerKeeps == BspInv /\ (Update \/ USB_OTG_BSP_TimerIRQ) => BspInv'
<1> SUFFICES ASSUME BspInv, Update \/ USB_OTG_BSP_TimerIRQ PROVE BspInv'
  OBVIOUS
<1> USE TimesAssumed DEF boardvars, BspInv, Actor
<1>1. CASE Update
  <2> USE <1>1 DEF Update
  <2>1. stage # "start"
    BY DEF StageInv, DelayInv
  <2>2. StageInv'
    BY <2>1 DEF StageInv, NvicAt
  <2>3. owed' \in [Actor -> Nat]
    BY DEF DelayInv
  <2>4. DelayInv'
    BY <2>3 DEF StageInv, DelayInv, Pending
  <2>5. VbusInv'
    BY DEF VbusInv, StageInv, DelayInv
  <2> QED
    BY <2>2, <2>4, <2>5
<1>2. CASE USB_OTG_BSP_TimerIRQ
  <2> USE <1>2 DEF USB_OTG_BSP_TimerIRQ
  <2>1. uif
    BY TimerNeverHeldBack
  <2>2. StageInv'
    BY DEF StageInv, NvicAt
  <2>3. DelayInv'
    BY <2>1 DEF StageInv, DelayInv, Pending
  <2>4. VbusInv'
    BY DEF VbusInv
  <2> QED
    BY <2>2, <2>3, <2>4
<1> QED
  BY <1>1, <1>2

LEMMA BspInvStep == BspInv /\ [Next]_vars => BspInv'
<1> SUFFICES ASSUME BspInv, [Next]_vars PROVE BspInv'
  OBVIOUS
<1>1. CASE UNCHANGED vars
  BY <1>1 DEF vars, delayvars, boardvars, BspInv, StageInv, DelayInv, VbusInv, NvicAt, Pending
<1> QED
  BY <1>1, InitCallKeeps, CallKeeps, ProceedKeeps, TimerKeeps DEF Next

LEMMA FlagsAlways == Spec => []FlagsOK
<1>1. Init => FlagsOK
  BY DEF Init, FlagsOK
<1>2. ASSUME FlagsOK, [Next]_vars PROVE FlagsOK'
  <2> USE <1>2 DEF FlagsOK
  <2>1. CASE USBH_Init
    BY <2>1, Zenon DEF USBH_Init, USB_OTG_BSP_Init, USB_OTG_BSP_TimeInit, USB_OTG_BSP_ConfigVBUS, BSP_Delay, HostDrivesVbus,
                       USB_OTG_BSP_EnableInterrupt, delayvars
  <2>2. ASSUME NEW a \in Actor, NEW nTime \in Times, BSP_Delay(a, nTime) PROVE FlagsOK'
    <3>1. cut' \in BOOLEAN
      BY <2>2, Zenon DEF BSP_Delay
    <3> QED
      BY <2>2, <3>1 DEF BSP_Delay
  <2>3. ASSUME NEW a \in Actor, NEW unit \in {"usec", "msec"}, BSP_SetTime(a, unit) PROVE FlagsOK'
    <3>1. cen' = ("TIM2" \in clk) /\ uif' = FALSE /\ cut' = cut
      BY <2>3, Zenon DEF BSP_SetTime
    <3>2. cen' \in BOOLEAN
      BY <3>1, SMT
    <3> QED
      BY <3>1, <3>2
  <2>4. ASSUME NEW a \in Actor, LeaveLoop(a) \/ StopTimer(a) PROVE FlagsOK'
    BY <2>4, Zenon DEF LeaveLoop, StopTimer
  <2>5. CASE Update \/ USB_OTG_BSP_TimerIRQ
    BY <2>5, Zenon DEF Update, USB_OTG_BSP_TimerIRQ
  <2>6. CASE UNCHANGED vars
    BY <2>6 DEF vars, delayvars
  <2> QED
    BY <2>1, <2>2, <2>3, <2>4, <2>5, <2>6 DEF Next, Call, Proceed
<1> QED
  BY <1>1, <1>2, PTL DEF Spec

LEMMA CountAlways == Spec => []CountOK
<1>1. Init => CountOK
  BY TimesAssumed DEF Init, CountOK
<1>2. ASSUME CountOK, [Next]_vars PROVE CountOK'
  <2>1. PICK top \in Times \cup {VbusDelay} : BSP_delay \in 0 .. top
    BY <1>2 DEF CountOK
  <2>2. \/ BSP_delay' \in Times \cup {VbusDelay}
        \/ BSP_delay' = BSP_delay
        \/ BSP_delay > 0 /\ BSP_delay' = BSP_delay - 1
    <3>1. CASE USBH_Init
      BY <3>1 DEF USBH_Init, USB_OTG_BSP_Init, USB_OTG_BSP_TimeInit, USB_OTG_BSP_ConfigVBUS, BSP_Delay, HostDrivesVbus,
                  USB_OTG_BSP_EnableInterrupt, delayvars
    <3>2. ASSUME NEW a \in Actor, Call(a) PROVE BSP_delay' \in Times
      BY <3>2 DEF Call, BSP_Delay
    <3>3. ASSUME NEW a \in Actor, Proceed(a) PROVE BSP_delay' = BSP_delay
      BY <3>3 DEF Proceed, BSP_SetTime, LeaveLoop, StopTimer
    <3>4. CASE Update \/ USB_OTG_BSP_TimerIRQ
      BY <3>4 DEF Update, USB_OTG_BSP_TimerIRQ
    <3>5. CASE UNCHANGED vars
      BY <3>5 DEF vars, delayvars
    <3> QED
      BY <1>2, <3>1, <3>2, <3>3, <3>4, <3>5 DEF Next
  <2>3. CASE BSP_delay' \in Times \cup {VbusDelay}
    <3>1. BSP_delay' \in 0 .. BSP_delay'
      BY <2>3, TimesAssumed
    <3> QED
      BY <2>3, <3>1 DEF CountOK
  <2>4. CASE BSP_delay' = BSP_delay \/ (BSP_delay > 0 /\ BSP_delay' = BSP_delay - 1)
    <3>1. BSP_delay' \in 0 .. top
      BY <2>1, <2>4, TimesAssumed
    <3> QED
      BY <3>1 DEF CountOK
  <2> QED
    BY <2>2, <2>3, <2>4
<1> QED
  BY <1>1, <1>2, PTL DEF Spec

LEMMA BspInvAlways == Spec => []BspInv
BY BspInvInit, BspInvStep, PTL DEF Spec

-----------------------------------------------------------------------------
(* USB_OTG_BSP_mDelay and ..._uDelay never return early when no reset      *)
(* interrupts them, whatever the delay and whatever resets came before.    *)
THEOREM DelaysLongEnough == Spec => []UncutDelayLongEnough
<1>1. BspInv => UncutDelayLongEnough
  BY DEF BspInv, DelayInv, UncutDelayLongEnough, DelayLongEnough
<1> QED
  BY <1>1, BspInvAlways, PTL

(* The interrupt of TIM2 never takes BSP_delay below zero and around, and  *)
(* every register keeps to the values the code writes.                     *)
THEOREM BspTypeCorrect == Spec => []BspTypeOK
<1>1. ASSUME BspInv, FlagsOK, CountOK PROVE BspTypeOK
  <2> USE <1>1 DEF BspInv
  <2>1. pins \subseteq 9 .. 12
    BY DEF StageInv
  <2>2. nvic \in [on : SUBSET Irq, subs : {1, 4, 8}, prio : [Irq -> 0 .. 15]]
    BY DEF StageInv, NvicAt, Irq
  <2>3. vbus \in {"floating", "off", "on"} /\ low_for \in 0 .. VbusDelay
    BY TimesAssumed DEF VbusInv, StageInv
  <2> QED
    BY <1>1, <2>1, <2>2, <2>3 DEF StageInv, DelayInv, FlagsOK, CountOK, BspTypeOK
<1> QED
  BY <1>1, BspInvAlways, FlagsAlways, CountAlways, PTL

(* When the port's interrupt is enabled, all it needs is there: pins and   *)
(* clocks of the core, and a timer that can interrupt it.                  *)
THEOREM InterruptAlwaysBacked == Spec => []InterruptBacked
<1>1. BspInv => InterruptBacked
  BY DEF BspInv, StageInv, NvicAt, Irq, InterruptBacked, Level
<1> QED
  BY <1>1, BspInvAlways, PTL

(* The host puts VBUS on only when it has been off for as long as          *)
(* ConfigVBUS wants, whatever time that is.                                *)
THEOREM VbusAlwaysRests == Spec => VbusRests
<1>1. BspInv /\ [Next]_vars => [vbus = "off" /\ vbus' = "on" => low_for = VbusDelay]_vars
  <2> SUFFICES ASSUME BspInv, Next, vbus = "off", vbus' = "on"
               PROVE  low_for = VbusDelay
    OBVIOUS
  <2>1. USBH_Init
    BY DEF Next, Call, Proceed, BSP_SetTime, LeaveLoop, StopTimer, Update, USB_OTG_BSP_TimerIRQ, boardvars
  <2>2. HostDrivesVbus
    BY <2>1 DEF USBH_Init, USB_OTG_BSP_Init, USB_OTG_BSP_TimeInit, USB_OTG_BSP_ConfigVBUS, USB_OTG_BSP_DriveVBUS,
                USB_OTG_BSP_EnableInterrupt
  <2> QED
    BY <2>2 DEF HostDrivesVbus, MainAt, BspInv, VbusInv
<1> QED
  BY <1>1, BspInvAlways, PTL DEF Spec, VbusRests

-----------------------------------------------------------------------------
(* Why a delay returns, as far as it does not take fairness to say it.     *)

(* a is in the loop of BSP_Delay and not stopped by an interrupt.          *)
Waits(a) == pc[a] = "wait" /\ (a = "main" => pc["isr"] = "idle")

(* A count that is left has a timer that runs: what a reset leaves behind  *)
(* in main's delay is a count of zero.                                     *)
CountInv ==
  /\ \A a \in Actor : Waits(a) => cen \/ BSP_delay = 0
  /\ pc["isr"] = "stop" => BSP_delay = 0

(* A call of USBH_Init finds no delay going on.                            *)
LEMMA NoDelayInInit ==
  ASSUME USBH_Init PROVE pc["main"] = "idle" /\ pc["isr"] = "idle"
BY DEF USBH_Init, USB_OTG_BSP_Init, USB_OTG_BSP_ConfigVBUS, HostDrivesVbus,
   USB_OTG_BSP_EnableInterrupt, MainAt, Runs

LEMMA CountInvStep ==
  ASSUME BspInv, CountInv, [Next]_vars PROVE CountInv'
<1>1. pc \in [Actor -> {"idle", "set", "wait", "stop"}]
  BY DEF BspInv, StageInv
<1>2. CASE USBH_Init
  <2>1. pc'["isr"] = "idle" /\ pc'["main"] \in {"idle", "set"}
    BY <1>1, <1>2, NoDelayInInit DEF USBH_Init, USB_OTG_BSP_Init, USB_OTG_BSP_ConfigVBUS, BSP_Delay, At,
       HostDrivesVbus, USB_OTG_BSP_EnableInterrupt, delayvars, Actor
  <2> QED
    BY <2>1 DEF CountInv, Waits, Actor
<1>3. ASSUME NEW a \in Actor, Call(a) PROVE CountInv'
  <2>1. pc' = [pc EXCEPT ![a] = "set"] /\ (a = "main" => pc["isr"] = "idle")
    BY <1>3 DEF Call, BSP_Delay, At, Runs
  <2>2. \A b \in Actor : ~Waits(b)'
    BY <1>1, <2>1 DEF Waits, Actor
  <2> QED
    BY <1>1, <2>1, <2>2 DEF CountInv, Actor
<1>4. ASSUME NEW a \in Actor, NEW unit \in {"usec", "msec"}, BSP_SetTime(a, unit) PROVE CountInv'
  <2>1. pc' = [pc EXCEPT ![a] = "wait"] /\ (a = "main" => pc["isr"] = "idle")
    BY <1>4 DEF BSP_SetTime, At, Runs
  <2>2. cen'
    <3>1. "TIM2" \in clk
      BY <1>4 DEF BSP_SetTime, At, BspInv, StageInv, Actor
    <3> QED
      BY <1>4, <3>1 DEF BSP_SetTime
  <2>3. pc'["isr"] # "stop" \/ pc["isr"] = "stop"
    BY <1>1, <2>1 DEF Actor
  <2>4. BSP_delay' = BSP_delay
    BY <1>4 DEF BSP_SetTime
  <2> QED
    BY <2>2, <2>3, <2>4 DEF CountInv
<1>5. ASSUME NEW a \in Actor, LeaveLoop(a) PROVE CountInv'
  BY <1>5 DEF LeaveLoop, CountInv
<1>6. ASSUME NEW a \in Actor, StopTimer(a) PROVE CountInv'
  <2>1. /\ pc' = [pc EXCEPT ![a] = "idle"] /\ (a = "main" => pc["isr"] = "idle")
        /\ pc[a] = "stop" /\ BSP_delay' = BSP_delay
    BY <1>6 DEF StopTimer, At, Runs
  <2>2. CASE a = "isr"
    BY <1>1, <2>1, <2>2 DEF CountInv, Actor
  <2>3. CASE a = "main"
    BY <1>1, <2>1, <2>3 DEF CountInv, Waits, Actor
  <2> QED
    BY <2>2, <2>3 DEF Actor
<1>7. CASE Update \/ USB_OTG_BSP_TimerIRQ
  BY <1>7 DEF Update, USB_OTG_BSP_TimerIRQ, CountInv, Waits, BspInv, DelayInv
<1>8. CASE UNCHANGED vars
  BY <1>8 DEF vars, delayvars, CountInv, Waits
<1> QED
  BY <1>2, <1>3, <1>4, <1>5, <1>6, <1>7, <1>8 DEF Next, Proceed

(* A delay that waits, cut by a reset or not, has count zero or a timer    *)
(* that runs, and nothing holds that timer's interrupt back.               *)
NeverStuck ==
  \A a \in Actor : Waits(a) => (BSP_delay > 0 => cen) /\ (uif => TimerDue)

(* Which leaves to fairness only that the timer counts and interrupts.     *)
THEOREM DelaysNeverStuck == Spec => []NeverStuck
<1>1. Init => CountInv
  BY DEF Init, CountInv, Waits, Actor
<1>2. BspInv /\ CountInv /\ [Next]_vars => CountInv'
  BY CountInvStep
<1>3. BspInv /\ CountInv => NeverStuck
  BY TimerNeverHeldBack DEF BspInv, DelayInv, CountInv, NeverStuck
<1> QED
  BY <1>1, <1>2, <1>3, BspInvAlways, PTL DEF Spec

(* Each interrupt of the timer takes one from the count of the delay that  *)
(* waits, and only a reset that begins puts the count up.                  *)
THEOREM DelaysCountDown ==
  Spec => [][\A a \in Actor : Waits(a) /\ BSP_delay > 0 =>
               /\ USB_OTG_BSP_TimerIRQ => BSP_delay' = BSP_delay - 1
               /\ BSP_delay' > BSP_delay => Call("isr")]_vars
<1> DEFINE Down == \A a \in Actor : Waits(a) /\ BSP_delay > 0 =>
                     /\ USB_OTG_BSP_TimerIRQ => BSP_delay' = BSP_delay - 1
                     /\ BSP_delay' > BSP_delay => Call("isr")
<1>1. ASSUME BspInv, Next PROVE Down
  <2> SUFFICES ASSUME NEW a \in Actor, Waits(a), BSP_delay > 0
               PROVE  /\ USB_OTG_BSP_TimerIRQ => BSP_delay' = BSP_delay - 1
                      /\ BSP_delay' > BSP_delay => Call("isr")
    OBVIOUS
  <2> USE DEF BspInv, DelayInv, Waits, Actor
  <2>1. USB_OTG_BSP_TimerIRQ => BSP_delay' = BSP_delay - 1
    BY DEF USB_OTG_BSP_TimerIRQ
  <2>2. ~USBH_Init
    BY NoDelayInInit
  <2>3. ~Call("main")
    BY DEF Call, BSP_Delay, At, Runs, StageInv
  <2>4. \A b \in Actor : Proceed(b) => BSP_delay' = BSP_delay
    BY DEF Proceed, BSP_SetTime, LeaveLoop, StopTimer
  <2>5. Update => BSP_delay' = BSP_delay
    BY DEF Update
  <2> QED
    BY <1>1, <2>1, <2>2, <2>3, <2>4, <2>5 DEF Next
<1> HIDE DEF Down
<1>2. Spec => [][Down]_vars
  BY <1>1, BspInvAlways, PTL DEF Spec
<1> QED
  BY <1>2 DEF Down
=============================================================================

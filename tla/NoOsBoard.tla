----------------------------- MODULE NoOsBoard ------------------------------
(***************************************************************************)
(* The no-OS build on its board, from reset: the clocks are set up before  *)
(* main runs (ClockSetup), main starts SysTick (os/none/hal_bt_os.c) and   *)
(* calls USBH_Init, which sets up the USB board support (BspDelay), and    *)
(* then main, the OTG_FS interrupt, the delay timer and SysTick share the  *)
(* core (os/none/stm32f4xx_it.c).                                          *)
(***************************************************************************)
EXTENDS ClockSetup, BspDelay

VARIABLES
  reload,     (* SysTick: core clocks from one tick to the next, 0 when off *)
  tick_prio,  (* its priority register                                      *)
  tick_due,   (* its interrupt is pending                                   *)
  tick_handler

tickvars == <<reload, tick_prio, tick_due, tick_handler>>
allvars == <<clockvars, vars, tickvars>>

BoardInit ==
  /\ ClockInit
  /\ Init
  /\ reload = 0
  /\ tick_prio = 0
  /\ tick_due = FALSE
  /\ tick_handler = "dummy_tick_handler"

TICK_PERIOD_IN_MS == 10

-----------------------------------------------------------------------------
(* From the variable SystemCoreClock, which nobody keeps up to date.  No   *)
(* part of the model: a plausible mistake, kept to show that a property    *)
(* would notice.                                                           *)
my_usb_bsp_init_Wrong ==
  /\ ck_pc = "done" /\ reload = 0
  /\ reload' = (SystemCoreClock * TICK_PERIOD_IN_MS) \div 1000
  /\ tick_prio' = 15
  /\ UNCHANGED <<clockvars, vars, tick_due, tick_handler>>

(* The driver library computes the clock from the registers and from what  *)
(* it is told of the crystal; the bus divisor of HCLK is 1 throughout.     *)
RCC_GetClocksFreq ==
  LET pllsource == IF reg.pll.src = "HSE" THEN HSE_VALUE ELSE HSI_VALUE
      pllvco == (pllsource \div reg.pll.m) * reg.pll.n
  IN  IF sws = "PLL" THEN pllvco \div (2 * (reg.pll.p + 1)) ELSE HSI_VALUE

(* SysTick_Config gives the tick the lowest priority.  The product is      *)
(* below 2^32 on either clock.                                             *)
my_usb_bsp_init ==
  /\ ck_pc = "done" /\ reload = 0
  /\ reload' = (RCC_GetClocksFreq * TICK_PERIOD_IN_MS) \div 1000
  /\ tick_prio' = 15
  /\ UNCHANGED <<clockvars, vars, tick_due, tick_handler>>

hal_tick_set_handler(handler) ==
  tick_handler' = IF handler = "none" THEN "dummy_tick_handler" ELSE handler

(* BTstack takes the tick; main sets up the stack before USB.              *)
run_loop_init ==
  /\ reload # 0 /\ tick_handler = "dummy_tick_handler"
  /\ hal_tick_set_handler("embedded_tick_handler")
  /\ UNCHANGED <<clockvars, vars, reload, tick_prio, tick_due>>

Alone == UNCHANGED <<vars, tickvars>>

StartUp == (SystemInit \/ SetSysClock) /\ Alone
CrystalHardware == CrystalStarts /\ Alone
PllHardware == (PllLocks \/ SwitchFollows) /\ Alone

(* SysTick is of the OTG_FS interrupt's level: neither interrupts the      *)
(* other, and when both are due OTG_FS, of the higher sub-priority, may be *)
(* served first.                                                           *)
TickDue == tick_due /\ ~TimerDue /\ ~HeldBack(tick_prio)

BspStep(step) ==
  /\ tick_handler # "dummy_tick_handler"
  /\ step
  /\ UNCHANGED <<clockvars, tickvars>>

MainStep(step) == ~TickDue /\ BspStep(step)

TIM2_Counts == BspStep(Update)
TIM2_IRQHandler == BspStep(USB_OTG_BSP_TimerIRQ)
OTG_FS_IRQHandler == BspStep(Call("isr"))

(* A second tick before the first is served is lost.                       *)
TickElapses ==
  /\ reload # 0
  /\ tick_due' = TRUE
  /\ UNCHANGED <<clockvars, vars, reload, tick_prio, tick_handler>>

(* Calls tick_handler, which BTstack counts by.                            *)
SysTick_Handler ==
  /\ TickDue
  /\ tick_due' = FALSE
  /\ UNCHANGED <<clockvars, vars, reload, tick_prio, tick_handler>>

BoardNext ==
  \/ StartUp \/ CrystalHardware \/ PllHardware
  \/ my_usb_bsp_init \/ run_loop_init
  \/ MainStep(USBH_Init) \/ MainStep(Call("main")) \/ MainStep(Proceed("main"))
  \/ OTG_FS_IRQHandler \/ BspStep(Proceed("isr"))
  \/ TIM2_Counts \/ TIM2_IRQHandler
  \/ TickElapses \/ SysTick_Handler

BoardSpec == BoardInit /\ [][BoardNext]_allvars

(* The code goes on, the PLLs lock and the timer counts; the crystal may   *)
(* fail.  Interrupts return and leave main and a tick their turn, however  *)
(* often the port is reset: a port event takes longer than a handler.      *)
BoardFairness ==
  /\ WF_allvars(StartUp) /\ WF_allvars(PllHardware) /\ WF_allvars(my_usb_bsp_init)
  /\ WF_allvars(run_loop_init)
  /\ SF_allvars(MainStep(USBH_Init)) /\ SF_allvars(MainStep(Proceed("main")))
  /\ SF_allvars(BspStep(Proceed("isr")))
  /\ WF_allvars(TIM2_Counts) /\ WF_allvars(TIM2_IRQHandler) /\ SF_allvars(SysTick_Handler)

BoardFairSpec == BoardSpec /\ BoardFairness

-----------------------------------------------------------------------------
(* The tick comes every 10 ms whatever clock the set-up ended with, its    *)
(* reload value fits the 24 bits of the counter, and BTstack counts by it  *)
(* before the first call of USBH_Init.                                     *)
TickIsTrue ==
  /\ reload # 0 => reload * 100 = Hclk /\ reload <= 16777216
  /\ stage # "start" => reload # 0 /\ tick_handler = "embedded_tick_handler"

(* A tick that is due is served: the USB interrupt, which holds it back,   *)
(* returns, because the delay timer interrupts it.                         *)
TicksServed == tick_due ~> ~tick_due

(* From reset the board comes to run, whether its crystal starts or not.   *)
BoardRuns == <>(stage = "run")

(* The unit of a delay is no shorter than its name says: a period of TIM2  *)
(* lasts a microsecond or a millisecond.                                   *)
UnitLongEnough == cen => period * (IF period < 1000 THEN 1000000 ELSE 1000) >= TimerClock
=============================================================================

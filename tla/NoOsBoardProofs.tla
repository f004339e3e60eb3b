-------------------------- MODULE NoOsBoardProofs ---------------------------
(* The whole board keeps what its parts keep, and the tick is true, for    *)
(* every time-out and delay.                                               *)
EXTENDS NoOsBoard, BspDelayProofs, ClockSetupProofs

(* Each step of the board is a step of one part at most.                   *)
LEMMA BoardStepClock == [BoardNext]_allvars => [ClockNext]_clockvars
<1> USE DEF BspStep, MainStep, Alone
<1>1. ASSUME StartUp \/ CrystalHardware \/ PllHardware PROVE ClockNext
  BY <1>1 DEF StartUp, CrystalHardware, PllHardware, ClockNext
<1>2. ASSUME BoardNext, ~(StartUp \/ CrystalHardware \/ PllHardware) PROVE UNCHANGED clockvars
  BY <1>2 DEF BoardNext, my_usb_bsp_init, run_loop_init, OTG_FS_IRQHandler, TIM2_Counts, TIM2_IRQHandler,
              TickElapses, SysTick_Handler
<1> QED
  BY <1>1, <1>2 DEF allvars

LEMMA BoardStepBsp == [BoardNext]_allvars => [Next]_vars
<1> USE DEF BspStep, MainStep
<1>1. ASSUME \/ MainStep(USBH_Init) \/ MainStep(Call("main")) \/ MainStep(Proceed("main"))
             \/ OTG_FS_IRQHandler \/ BspStep(Proceed("isr")) \/ TIM2_Counts \/ TIM2_IRQHandler
      PROVE  Next
  <2>1. "main" \in Actor /\ "isr" \in Actor
    BY DEF Actor
  <2> QED
    BY <1>1, <2>1 DEF Next, OTG_FS_IRQHandler, TIM2_Counts, TIM2_IRQHandler
<1>2. ASSUME \/ StartUp \/ CrystalHardware \/ PllHardware \/ my_usb_bsp_init
             \/ run_loop_init \/ TickElapses \/ SysTick_Handler
      PROVE  UNCHANGED vars
  BY <1>2 DEF StartUp, CrystalHardware, PllHardware, Alone, my_usb_bsp_init, run_loop_init, TickElapses,
              SysTick_Handler
<1> QED
  BY <1>1, <1>2 DEF BoardNext, allvars

(* Seen alone, the clock set-up of the board is the one of ClockSetup: its *)
(* limits hold whatever the rest of the program does.                      *)
THEOREM BoardSetsClocks == BoardSpec => ClockSpec
<1>1. BoardInit => ClockInit
  BY DEF BoardInit
<1> QED
  BY <1>1, BoardStepClock, PTL DEF BoardSpec, ClockSpec

(* Seen alone, the board support package of the board is the one of        *)
(* BspDelay: SysTick and the clocks disturb no delay.                      *)
THEOREM BoardDelays == BoardSpec => Spec
<1>1. BoardInit => Init
  BY DEF BoardInit
<1> QED
  BY <1>1, BoardStepBsp, PTL DEF BoardSpec, Spec

-----------------------------------------------------------------------------
(* Nothing moves the core's clock once SystemInit has returned.            *)
LEMMA ClockRests ==
  ASSUME ClockInv, [ClockNext]_clockvars, ck_pc = "done"
  PROVE  ck_pc' = "done" /\ reg' = reg /\ sws' = sws
<1>1. sws = reg.sw
  BY RegFields DEF ClockInv, Progress, Fields
<1> QED
  BY <1>1 DEF ClockNext, clockvars, SystemInit, SetSysClock, EnableHse, WaitHse, TestHse, SetBuses,
              ConfigurePll, EnablePll, WaitPll, SetFlash, SelectPll, WaitSws, StartI2s, WaitI2s,
              CkAt, CkWrite, CkWait, CrystalStarts, PllLocks, SwitchFollows

(* What the driver library computes is the clock the core runs on.         *)
LEMMA ComputedIsTrue == ASSUME ClockInv, ck_pc = "done" PROVE RCC_GetClocksFreq = Hclk
<1>1. sws = "HSI" \/ (sws = "PLL" /\ reg.pll = PllMain)
  BY RegFields DEF ClockInv, Progress, Fields
<1>2. CASE sws = "HSI"
  BY <1>2, HclkOnHsi DEF RCC_GetClocksFreq, HSI_VALUE
<1>3. CASE sws = "PLL" /\ reg.pll = PllMain
  BY <1>3, HclkOnPll DEF RCC_GetClocksFreq, PllMain, HSE_VALUE
<1> QED
  BY <1>1, <1>2, <1>3

TickInv == reload # 0 => ck_pc = "done" /\ reload = (Hclk * 10) \div 1000

(* The order of main: the tick, its handler, then USB.                     *)
MainOrder ==
  \/ tick_handler = "dummy_tick_handler" /\ stage = "start"
  \/ tick_handler = "embedded_tick_handler" /\ reload # 0

LEMMA MainOrderStep == MainOrder /\ [BoardNext]_allvars => MainOrder'
<1> SUFFICES ASSUME MainOrder, [BoardNext]_allvars PROVE MainOrder'
  OBVIOUS
<1>1. CASE run_loop_init
  BY <1>1 DEF run_loop_init, hal_tick_set_handler, MainOrder
<1>2. CASE my_usb_bsp_init
  BY <1>2 DEF my_usb_bsp_init, MainOrder, vars, boardvars
<1>3. ASSUME NEW ACTION step, BspStep(step) PROVE MainOrder'
  BY <1>3 DEF BspStep, tickvars, MainOrder
<1>4. CASE StartUp \/ CrystalHardware \/ PllHardware
  BY <1>4 DEF StartUp, CrystalHardware, PllHardware, Alone, tickvars, vars, boardvars, MainOrder
<1>5. CASE TickElapses \/ SysTick_Handler
  BY <1>5 DEF TickElapses, SysTick_Handler, vars, boardvars, MainOrder
<1>6. CASE UNCHANGED allvars
  BY <1>6 DEF allvars, tickvars, vars, boardvars, MainOrder
<1> QED
  BY <1>1, <1>2, <1>3, <1>4, <1>5, <1>6
  DEF BoardNext, MainStep, OTG_FS_IRQHandler, TIM2_Counts, TIM2_IRQHandler

LEMMA TickInvStep == ClockInv /\ TickInv /\ [BoardNext]_allvars => TickInv'
<1> SUFFICES ASSUME ClockInv, TickInv, [BoardNext]_allvars PROVE TickInv'
  OBVIOUS
<1>1. reload' = reload \/ my_usb_bsp_init
  BY DEF BoardNext, StartUp, CrystalHardware, PllHardware, Alone, run_loop_init, MainStep, BspStep,
         OTG_FS_IRQHandler, TIM2_Counts, TIM2_IRQHandler, TickElapses, SysTick_Handler, tickvars, allvars
<1>2. CASE my_usb_bsp_init
  <2>1. Hclk' = Hclk /\ ck_pc' = ck_pc
    BY <1>2 DEF my_usb_bsp_init, clockvars, Hclk, SourceClock, Vco, VcoIn
  <2>2. RCC_GetClocksFreq = Hclk
    BY <1>2, ComputedIsTrue DEF my_usb_bsp_init
  <2> QED
    BY <1>2, <2>1, <2>2 DEF my_usb_bsp_init, TickInv, TICK_PERIOD_IN_MS
<1>3. CASE reload' = reload /\ reload # 0
  <2>1. ck_pc' = "done" /\ reg' = reg /\ sws' = sws
    BY <1>3, BoardStepClock, ClockRests DEF TickInv
  <2>2. Hclk' = Hclk
    BY <2>1 DEF Hclk, SourceClock, Vco, VcoIn
  <2> QED
    BY <1>3, <2>1, <2>2 DEF TickInv
<1> QED
  BY <1>1, <1>2, <1>3 DEF TickInv

(* SysTick comes every 10 ms of the clock the set-up really ended with.    *)
THEOREM TickAlwaysTrue == BoardSpec => []TickIsTrue
<1>1. BoardSpec => []ClockInv
  BY BoardSetsClocks, ClockInvAlways
<1>2. BoardInit => TickInv
  BY DEF BoardInit, TickInv
<1>3. BoardInit => MainOrder
  BY DEF BoardInit, Init, MainOrder
<1>4. ASSUME ClockInv, TickInv, MainOrder PROVE TickIsTrue
  <2>1. Hclk = 16000000 \/ Hclk = 168000000
    <3>1. sws = "HSI" \/ (sws = "PLL" /\ reg.pll = PllMain)
      BY <1>4, RegFields DEF ClockInv, Progress, Fields
    <3> QED
      BY <3>1, HclkOnHsi, HclkOnPll
  <2> QED
    BY <1>4, <2>1, SMT DEF TickInv, MainOrder, TickIsTrue
<1> QED
  BY <1>1, <1>2, <1>3, <1>4, TickInvStep, MainOrderStep, PTL DEF BoardSpec
=============================================================================

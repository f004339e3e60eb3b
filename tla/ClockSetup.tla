----------------------------- MODULE ClockSetup -----------------------------
(***************************************************************************)
(* clones/system_stm32f4xx.c: from reset to the clock main runs on.        *)
(* SystemInit gives the crystal (HSE) a limited number of looks to become  *)
(* ready.  If it does, the core moves from the internal oscillator (HSI)   *)
(* to the PLL behind the crystal; if not, it stays where it is.  The I2S   *)
(* PLL is started in both cases.                                           *)
(*                                                                         *)
(* reg holds what the code writes, by what the fields of the registers     *)
(* select; the hardware sets the ready flags and follows the switch in its *)
(* own time.  Clocks are in Hz.                                            *)
(***************************************************************************)
EXTENDS Integers

CONSTANT HSE_STARTUP_TIMEOUT  (* looks at HSERDY before HSE is given up    *)

ASSUME TimeoutAssumed == HSE_STARTUP_TIMEOUT \in Nat \ {0}

VARIABLES
  ck_pc,            (* where SystemInit and SetSysClock are                *)
  StartUpCounter,
  reg,              (* on: oscillators and PLLs switched on (RCC->CR)      *)
                    (* sw, hpre, ppre1, ppre2: RCC->CFGR                   *)
                    (* pll, i2s: RCC->PLLCFGR, RCC->PLLI2SCFGR             *)
                    (* vos: PWR->CR.VOS      latency: FLASH->ACR           *)
  ready,            (* RCC->CR: those of reg.on whose ready flag is set    *)
  sws               (* RCC->CFGR.SWS: the system clock in use              *)

clockvars == <<ck_pc, StartUpCounter, reg, ready, sws>>

HSI_VALUE == 16000000
CRYSTAL == 8000000      (* the board's crystal                             *)

(* The crystal of another board.  No part of the model, like every         *)
(* definition whose name ends in _Wrong: a plausible mistake, kept to show *)
(* that a property would notice.                                           *)
HSE_VALUE_Wrong == 10000000

(* What the driver library is told of the crystal: stm32f4xx_conf.h takes  *)
(* the place of its default.                                               *)
HSE_VALUE == 8000000

(* The variable's first value; nothing calls SystemCoreClockUpdate, which  *)
(* would change it.                                                        *)
SystemCoreClock == 168000000

PllReset == [src |-> "HSI", m |-> 16, n |-> 192, p |-> 0, q |-> 4]
PllMain == [src |-> "HSE", m |-> 8, n |-> 336, p |-> 0, q |-> 7]
PllI2s == [n |-> 258, r |-> 3]

(* What conf/chibios/mcuconf.h has ChibiOS set up, field by field of reg;  *)
(* its PLLP is the divisor, not the register's code for it.                *)
McuConf == [vos |-> TRUE, sw |-> "PLL", hpre |-> 0, ppre1 |-> 4, ppre2 |-> 2,
            pll |-> [src |-> "HSE", m |-> 8, n |-> 336, p |-> (2 \div 2) - 1, q |-> 7]]

(* Scale 1 is taken to be off at reset: the code does not rely on it.      *)
RegReset ==
  [on |-> {"HSI"}, sw |-> "HSI", hpre |-> 0, ppre1 |-> 1, ppre2 |-> 1, pll |-> PllReset,
   i2s |-> [n |-> 192, r |-> 2], vos |-> FALSE, latency |-> 0]

ClockInit ==
  /\ ck_pc = "reset"
  /\ StartUpCounter = 0
  /\ reg = RegReset
  /\ ready = {"HSI"}
  /\ sws = "HSI"

-----------------------------------------------------------------------------
(* The hardware's clocks, from the registers.                              *)
SourceClock(s) == IF s = "HSE" THEN CRYSTAL ELSE HSI_VALUE
VcoIn == SourceClock(reg.pll.src) \div reg.pll.m
Vco == VcoIn * reg.pll.n
Hclk == IF sws = "PLL" THEN Vco \div (2 + 2 * reg.pll.p) ELSE SourceClock(sws)
Pclk1 == Hclk \div reg.ppre1
Pclk2 == Hclk \div reg.ppre2
OtgFsClock == Vco \div reg.pll.q

(* The timers of APB1 run at twice its clock unless it is undivided.       *)
TimerClock == IF reg.ppre1 = 1 THEN Pclk1 ELSE 2 * Pclk1

-----------------------------------------------------------------------------
CkAt(from, to) == ck_pc = from /\ ck_pc' = to

CkWrite(from, to, newreg) ==
  /\ CkAt(from, to)
  /\ reg' = newreg
  /\ UNCHANGED <<StartUpCounter, ready, sws>>

CkWait(from, to, until) ==
  /\ CkAt(from, to)
  /\ until
  /\ UNCHANGED <<StartUpCounter, reg, ready, sws>>

(* Its register writes are one action: all of them only switch off what no *)
(* clock in use depends on, or restore reset values.                       *)
SystemInit ==
  /\ CkAt("reset", "hseOn")
  /\ reg' = [reg EXCEPT !.on = (reg.on \cup {"HSI"}) \ {"HSE", "PLL"}, !.sw = "HSI",
                        !.hpre = 0, !.ppre1 = 1, !.ppre2 = 1, !.pll = PllReset]
  /\ ready' = ready \ {"HSE", "PLL"}
  /\ UNCHANGED <<StartUpCounter, sws>>

EnableHse == CkWrite("hseOn", "hseWait", [reg EXCEPT !.on = reg.on \cup {"HSE"}])

(* The time-out left out of the loop.                                      *)
WaitHse_Wrong ==
  /\ CkAt("hseWait", "hseTest")
  /\ "HSE" \in ready
  /\ UNCHANGED <<StartUpCounter, reg, ready, sws>>

(* The counter tested before it is stepped: one look too many.             *)
WaitHse_Once_Wrong ==
  /\ ck_pc = "hseWait"
  /\ StartUpCounter' = StartUpCounter + 1
  /\ ck_pc' = IF "HSE" \in ready \/ StartUpCounter = HSE_STARTUP_TIMEOUT THEN "hseTest" ELSE "hseWait"
  /\ UNCHANGED <<reg, ready, sws>>

(* One pass of the loop.                                                   *)
WaitHse ==
  /\ ck_pc = "hseWait"
  /\ StartUpCounter' = StartUpCounter + 1
  /\ ck_pc' = IF "HSE" \in ready \/ StartUpCounter' = HSE_STARTUP_TIMEOUT THEN "hseTest" ELSE "hseWait"
  /\ UNCHANGED <<reg, ready, sws>>

(* The flag is read again: the crystal may have started since the last     *)
(* look, whatever ended the loop.                                          *)
TestHse == CkWait("hseTest", IF "HSE" \in ready THEN "buses" ELSE "i2s", TRUE)

(* The divisor of APB1 forgotten.                                          *)
SetBuses_Wrong == CkWrite("buses", "pll", [reg EXCEPT !.vos = TRUE, !.ppre2 = 2])

(* The PLL switched on before it is set up.                                *)
SetBuses_Early_Wrong ==
  CkWrite("buses", "pll", [reg EXCEPT !.vos = TRUE, !.ppre2 = 2, !.ppre1 = 4, !.on = reg.on \cup {"PLL"}])

(* Four writes, in one action since the core is still on HSI, which is     *)
(* within every limit with and without them.                               *)
SetBuses == CkWrite("buses", "pll", [reg EXCEPT !.vos = TRUE, !.hpre = 0, !.ppre2 = 2, !.ppre1 = 4])

ConfigurePll == CkWrite("pll", "pllOn", [reg EXCEPT !.pll = PllMain])
EnablePll == CkWrite("pllOn", "pllWait", [reg EXCEPT !.on = reg.on \cup {"PLL"}])
WaitPll == CkWait("pllWait", "flash", "PLL" \in ready)
SetFlash == CkWrite("flash", "select", [reg EXCEPT !.latency = 5])
SelectPll == CkWrite("select", "swsWait", [reg EXCEPT !.sw = "PLL"])

(* The switch not waited for.                                              *)
WaitSws_Wrong == CkWait("swsWait", "i2s", TRUE)
WaitSws == CkWait("swsWait", "i2s", sws = "PLL")

StartI2s == CkWrite("i2s", "i2sWait", [reg EXCEPT !.i2s = PllI2s, !.on = reg.on \cup {"PLLI2S"}])
WaitI2s == CkWait("i2sWait", "done", "PLLI2S" \in ready)

SetSysClock ==
  \/ EnableHse \/ WaitHse \/ TestHse
  \/ SetBuses \/ ConfigurePll \/ EnablePll \/ WaitPll \/ SetFlash \/ SelectPll \/ WaitSws
  \/ StartI2s \/ WaitI2s

-----------------------------------------------------------------------------
(* The crystal has started: at any time, or never.  A PLL whose source     *)
(* runs has locked.                                                        *)
CrystalStarts ==
  /\ "HSE" \in reg.on \ ready
  /\ ready' = ready \cup {"HSE"}
  /\ UNCHANGED <<ck_pc, StartUpCounter, reg, sws>>

PllLocks ==
  /\ reg.pll.src \in ready
  /\ \E pll \in {"PLL", "PLLI2S"} \cap (reg.on \ ready) : ready' = ready \cup {pll}
  /\ UNCHANGED <<ck_pc, StartUpCounter, reg, sws>>

SwitchFollows ==
  /\ sws # reg.sw
  /\ reg.sw \in ready
  /\ sws' = reg.sw
  /\ UNCHANGED <<ck_pc, StartUpCounter, reg, ready>>

ClockNext == SystemInit \/ SetSysClock \/ CrystalStarts \/ PllLocks \/ SwitchFollows

ClockSpec == ClockInit /\ [][ClockNext]_clockvars

-----------------------------------------------------------------------------
ClockTypeOK ==
  /\ ck_pc \in {"reset", "hseOn", "hseWait", "hseTest", "buses", "pll", "pllOn",
                "pllWait", "flash", "select", "swsWait", "i2s", "i2sWait", "done"}
  /\ StartUpCounter \in 0 .. HSE_STARTUP_TIMEOUT
  /\ reg \in [on : SUBSET {"HSI", "HSE", "PLL", "PLLI2S"}, sw : {"HSI", "PLL"}, hpre : {0},
              ppre1 : {1, 4}, ppre2 : {1, 2}, pll : {PllReset, PllMain},
              i2s : {RegReset.i2s, PllI2s}, vos : BOOLEAN, latency : {0, 5}]
  /\ ready \subseteq reg.on
  /\ sws \in {"HSI", "PLL"}

(* The core never runs faster than flash, regulator and buses bear, at no  *)
(* point between two of SetSysClock's register writes: 30 MHz for each     *)
(* wait state and one more, 144 MHz below scale 1, 42 and 84 MHz on the    *)
(* two buses.                                                              *)
WithinLimits ==
  /\ Hclk <= 30000000 * (reg.latency + 1)
  /\ reg.vos \/ Hclk <= 144000000
  /\ Pclk1 <= 42000000
  /\ Pclk2 <= 84000000

(* The main PLL never runs before it is set up (the hardware would drop    *)
(* the write), and the core is on it only while it is locked on a running  *)
(* crystal.  The I2S PLL too is fed the 1 to 2 MHz it needs, also after    *)
(* the crystal failed.                                                     *)
PllSound ==
  /\ "PLL" \in reg.on => reg.pll = PllMain
  /\ sws = "PLL" => {"PLL", "HSE"} \subseteq ready
  /\ reg.on \cap {"PLL", "PLLI2S"} # {} => 1000000 <= VcoIn /\ VcoIn <= 2000000

(* Main never starts on a clock half chosen: when SystemInit returns, the  *)
(* core is on the PLL at the speed SystemCoreClock claims, USB has its       *)
(* 48 MHz and the clocks are the ChibiOS build's too, or the crystal was   *)
(* not there in time and all is as at reset but for the I2S PLL.           *)
SetUpWhole ==
  ck_pc = "done" => \/ /\ sws = "PLL" /\ Hclk = SystemCoreClock /\ OtgFsClock = 48000000
                       /\ \A field \in DOMAIN McuConf : reg[field] = McuConf[field]
                    \/ sws = "HSI" /\ reg = [RegReset EXCEPT !.on = @ \cup {"HSE", "PLLI2S"}, !.i2s = PllI2s]
=============================================================================

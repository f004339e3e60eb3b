-------------------------- MODULE ClockSetupProofs --------------------------
(* The clock set-up is sound however many looks the crystal is given,      *)
(* whenever it starts and whenever the PLLs lock.                          *)
EXTENDS ClockSetup, TLAPS

(* The registers after each write of SetSysClock.                          *)
RegHse == [RegReset EXCEPT !.on = {"HSI", "HSE"}]
RegBus == [RegHse EXCEPT !.vos = TRUE, !.hpre = 0, !.ppre2 = 2, !.ppre1 = 4]
RegPll == [RegBus EXCEPT !.pll = PllMain]
RegOn == [RegPll EXCEPT !.on = {"HSI", "HSE", "PLL"}]
RegFlash == [RegOn EXCEPT !.latency = 5]
RegSel == [RegFlash EXCEPT !.sw = "PLL"]
WithI2s(r) == [r EXCEPT !.i2s = PllI2s, !.on = r.on \cup {"PLLI2S"}]

Progress ==
  \/ ck_pc \in {"reset", "hseOn"} /\ reg = RegReset
  \/ ck_pc \in {"hseWait", "hseTest", "buses"} /\ reg = RegHse
  \/ ck_pc = "pll" /\ reg = RegBus
  \/ ck_pc = "pllOn" /\ reg = RegPll
  \/ ck_pc \in {"pllWait", "flash"} /\ reg = RegOn
  \/ ck_pc = "select" /\ reg = RegFlash
  \/ ck_pc = "swsWait" /\ reg = RegSel
  \/ ck_pc = "i2s" /\ (reg = RegHse \/ (reg = RegSel /\ sws = "PLL"))
  \/ ck_pc \in {"i2sWait", "done"} /\ (reg = WithI2s(RegHse) \/ (reg = WithI2s(RegSel) /\ sws = "PLL"))

(* Where the code is tells the registers, and what it has waited for has   *)
(* come and stays.                                                         *)
ClockInv ==
  /\ Progress
  /\ StartUpCounter \in Nat /\ StartUpCounter <= HSE_STARTUP_TIMEOUT
  /\ ck_pc \in {"reset", "hseOn"} => StartUpCounter = 0
  /\ ck_pc = "hseWait" => StartUpCounter < HSE_STARTUP_TIMEOUT
  /\ ready \subseteq reg.on /\ "HSI" \in ready
  /\ "PLL" \in ready => "HSE" \in ready
  /\ ck_pc \in {"buses", "pll", "pllOn", "pllWait", "flash", "select", "swsWait"} => "HSE" \in ready
  /\ ck_pc \in {"flash", "select", "swsWait"} => "PLL" \in ready
  /\ sws \in {"HSI", reg.sw}
  /\ reg.sw = "PLL" => "PLL" \in ready

(* The fields of the registers at each point, read off once.               *)
Fields(r, on, sw, pll) == r.on = on /\ r.sw = sw /\ r.pll = pll
Divided(r) == r.vos = TRUE /\ r.ppre1 = 4 /\ r.ppre2 = 2

LEMMA RegFields ==
  /\ Fields(RegReset, {"HSI"}, "HSI", PllReset)
  /\ Fields(RegHse, {"HSI", "HSE"}, "HSI", PllReset)
  /\ Fields(RegBus, {"HSI", "HSE"}, "HSI", PllReset)
  /\ Fields(RegPll, {"HSI", "HSE"}, "HSI", PllMain)
  /\ Fields(RegOn, {"HSI", "HSE", "PLL"}, "HSI", PllMain)
  /\ Fields(RegFlash, {"HSI", "HSE", "PLL"}, "HSI", PllMain)
  /\ Fields(RegSel, {"HSI", "HSE", "PLL"}, "PLL", PllMain)
  /\ Fields(WithI2s(RegHse), {"HSI", "HSE", "PLLI2S"}, "HSI", PllReset)
  /\ Fields(WithI2s(RegSel), {"HSI", "HSE", "PLL", "PLLI2S"}, "PLL", PllMain)
  /\ RegSel.latency = 5 /\ Divided(RegSel)
  /\ WithI2s(RegSel).latency = 5 /\ Divided(WithI2s(RegSel))
  /\ \A r \in {RegReset, RegHse, RegBus, RegPll, RegOn, RegFlash, WithI2s(RegHse)} :
       r.latency \in {0, 5} /\ r.ppre1 \in {1, 4} /\ r.ppre2 \in {1, 2}
<1> DEFINE Plain(r) == r.latency = 0 /\ r.ppre1 = 1 /\ r.ppre2 = 1
<1> USE DEF Fields, Divided
<1>1. Fields(RegReset, {"HSI"}, "HSI", PllReset) /\ Plain(RegReset)
  BY DEF RegReset
<1>2. Fields(RegHse, {"HSI", "HSE"}, "HSI", PllReset) /\ Plain(RegHse)
  BY <1>1 DEF RegHse, RegReset
<1>3. Fields(RegBus, {"HSI", "HSE"}, "HSI", PllReset) /\ Divided(RegBus) /\ RegBus.latency = 0
  BY <1>2 DEF RegBus, RegHse, RegReset
<1>4. Fields(RegPll, {"HSI", "HSE"}, "HSI", PllMain) /\ Divided(RegPll) /\ RegPll.latency = 0
  BY <1>3 DEF RegPll, RegBus, RegHse, RegReset
<1>5. Fields(RegOn, {"HSI", "HSE", "PLL"}, "HSI", PllMain) /\ Divided(RegOn) /\ RegOn.latency = 0
  BY <1>4 DEF RegOn, RegPll, RegBus, RegHse, RegReset
<1>6. Fields(RegFlash, {"HSI", "HSE", "PLL"}, "HSI", PllMain) /\ Divided(RegFlash) /\ RegFlash.latency = 5
  BY <1>5 DEF RegFlash, RegOn, RegPll, RegBus, RegHse, RegReset
<1>7. Fields(RegSel, {"HSI", "HSE", "PLL"}, "PLL", PllMain) /\ Divided(RegSel) /\ RegSel.latency = 5
  BY <1>6 DEF RegSel, RegFlash, RegOn, RegPll, RegBus, RegHse, RegReset
<1>8. Fields(WithI2s(RegHse), {"HSI", "HSE", "PLLI2S"}, "HSI", PllReset) /\ Plain(WithI2s(RegHse))
  BY <1>2 DEF WithI2s, RegHse, RegReset
<1>9. /\ Fields(WithI2s(RegSel), {"HSI", "HSE", "PLL", "PLLI2S"}, "PLL", PllMain)
      /\ Divided(WithI2s(RegSel)) /\ WithI2s(RegSel).latency = 5
  BY <1>7 DEF WithI2s, RegSel, RegFlash, RegOn, RegPll, RegBus, RegHse, RegReset
<1> QED
  BY <1>1, <1>2, <1>3, <1>4, <1>5, <1>6, <1>7, <1>8, <1>9

LEMMA ClockInvInit == ClockInit => ClockInv
BY TimeoutAssumed, RegFields DEF ClockInit, ClockInv, Progress, Fields

LEMMA ClockInvStep == ClockInv /\ [ClockNext]_clockvars => ClockInv'
<1> SUFFICES ASSUME ClockInv, [ClockNext]_clockvars
             PROVE  ClockInv'
  OBVIOUS
<1> USE TimeoutAssumed, RegFields DEF ClockInv, Progress, CkAt, Fields
<1>1. CASE SystemInit
  <2>1. reg = RegReset
    BY <1>1 DEF SystemInit
  <2>2. (reg.on \cup {"HSI"}) \ {"HSE", "PLL"} = reg.on
    BY <2>1
  <2>3. reg' = RegReset
    BY <1>1, <2>1, <2>2 DEF SystemInit, RegReset
  <2> QED
    BY <1>1, <2>1, <2>3 DEF SystemInit
<1>2. CASE EnableHse
  <2>1. reg' = RegHse
    BY <1>2 DEF EnableHse, CkWrite, RegHse
  <2> QED
    BY <1>2, <2>1 DEF EnableHse, CkWrite
<1>3. CASE WaitHse
  BY <1>3 DEF WaitHse
<1>4. CASE TestHse
  BY <1>4 DEF TestHse, CkWait
<1>5. CASE SetBuses
  <2>1. reg' = RegBus
    BY <1>5 DEF SetBuses, CkWrite, RegBus
  <2> QED
    BY <1>5, <2>1 DEF SetBuses, CkWrite
<1>6. CASE ConfigurePll
  <2>1. reg' = RegPll
    BY <1>6 DEF ConfigurePll, CkWrite, RegPll
  <2> QED
    BY <1>6, <2>1 DEF ConfigurePll, CkWrite
<1>7. CASE EnablePll
  <2>1. reg' = RegOn
    BY <1>7 DEF EnablePll, CkWrite, RegOn
  <2> QED
    BY <1>7, <2>1 DEF EnablePll, CkWrite
<1>8. CASE WaitPll
  BY <1>8 DEF WaitPll, CkWait
<1>9. CASE SetFlash
  <2>1. reg' = RegFlash
    BY <1>9 DEF SetFlash, CkWrite, RegFlash
  <2> QED
    BY <1>9, <2>1 DEF SetFlash, CkWrite
<1>10. CASE SelectPll
  <2>1. reg' = RegSel
    BY <1>10 DEF SelectPll, CkWrite, RegSel
  <2> QED
    BY <1>10, <2>1 DEF SelectPll, CkWrite
<1>11. CASE WaitSws
  BY <1>11 DEF WaitSws, CkWait
<1>12. CASE StartI2s
  <2>1. reg' = WithI2s(reg)
    BY <1>12 DEF StartI2s, CkWrite, WithI2s
  <2>2. reg \in {RegHse, RegSel}
    BY <1>12 DEF StartI2s, CkWrite
  <2> QED
    BY <1>12, <2>1, <2>2 DEF StartI2s, CkWrite
<1>13. CASE WaitI2s
  BY <1>13 DEF WaitI2s, CkWait
<1>14. CASE CrystalStarts
  BY <1>14 DEF CrystalStarts
<1>15. CASE PllLocks
  BY <1>15 DEF PllLocks, PllReset, PllMain
<1>16. CASE SwitchFollows
  BY <1>16 DEF SwitchFollows
<1>17. CASE UNCHANGED clockvars
  BY <1>17 DEF clockvars
<1> QED
  BY <1>1, <1>2, <1>3, <1>4, <1>5, <1>6, <1>7, <1>8, <1>9, <1>10, <1>11, <1>12, <1>13,
     <1>14, <1>15, <1>16, <1>17 DEF ClockNext, SetSysClock

LEMMA ClockInvAlways == ClockSpec => []ClockInv
BY ClockInvInit, ClockInvStep, PTL DEF ClockSpec

-----------------------------------------------------------------------------
(* The frequencies of the two clocks the core ever runs on.                *)
LEMMA HclkOnHsi == sws = "HSI" => Hclk = 16000000
BY DEF Hclk, SourceClock, HSI_VALUE

LEMMA MainVco == reg.pll = PllMain => VcoIn = 1000000 /\ Vco = 336000000
<1>1. reg.pll = PllMain => VcoIn = 1000000
  BY DEF VcoIn, SourceClock, PllMain, CRYSTAL
<1> QED
  BY <1>1 DEF Vco, PllMain

LEMMA HclkOnPll == sws = "PLL" /\ reg.pll = PllMain => Hclk = 168000000
BY MainVco DEF Hclk, PllMain

RegType ==
  [on : SUBSET {"HSI", "HSE", "PLL", "PLLI2S"}, sw : {"HSI", "PLL"}, hpre : {0},
   ppre1 : {1, 4}, ppre2 : {1, 2}, pll : {PllReset, PllMain},
   i2s : {RegReset.i2s, PllI2s}, vos : BOOLEAN, latency : {0, 5}]

LEMMA RegsTyped ==
  {RegReset, RegHse, RegBus, RegPll, RegOn, RegFlash, RegSel, WithI2s(RegHse), WithI2s(RegSel)} \subseteq RegType
<1>1. RegReset \in RegType
  BY DEF RegReset, RegType
<1>2. RegHse \in RegType
  BY <1>1 DEF RegHse, RegType
<1>3. RegBus \in RegType
  BY <1>2 DEF RegBus, RegType
<1>4. RegPll \in RegType
  BY <1>3 DEF RegPll, RegType
<1>5. RegOn \in RegType
  BY <1>4 DEF RegOn, RegType
<1>6. RegFlash \in RegType
  BY <1>5 DEF RegFlash, RegType
<1>7. RegSel \in RegType
  BY <1>6 DEF RegSel, RegType
<1>8. \A r \in RegType : WithI2s(r) \in RegType
  BY DEF WithI2s, RegType
<1> QED
  BY <1>1, <1>2, <1>3, <1>4, <1>5, <1>6, <1>7, <1>8

(* Every register keeps to the values the code writes, and the loop counts *)
(* no further than the time-out.                                           *)
THEOREM ClockTypeCorrect == ClockSpec => []ClockTypeOK
<1>1. ASSUME ClockInv PROVE ClockTypeOK
  <2> USE <1>1 DEF ClockInv
  <2>1. ck_pc \in {"reset", "hseOn", "hseWait", "hseTest", "buses", "pll", "pllOn",
                   "pllWait", "flash", "select", "swsWait", "i2s", "i2sWait", "done"}
    BY DEF Progress
  <2>2. reg \in RegType
    BY RegsTyped DEF Progress
  <2>3. StartUpCounter \in 0 .. HSE_STARTUP_TIMEOUT
    BY TimeoutAssumed
  <2>4. sws \in {"HSI", "PLL"}
    BY <2>2 DEF RegType
  <2> QED
    BY <2>1, <2>2, <2>3, <2>4 DEF RegType, ClockTypeOK
<1> QED
  BY <1>1, ClockInvAlways, PTL

(* The core never outruns its flash, regulator or buses.                   *)
THEOREM ClockWithinLimits == ClockSpec => []WithinLimits
<1>1. ASSUME ClockInv PROVE WithinLimits
  <2> USE <1>1, RegFields DEF ClockInv, Progress, Fields, Divided
  <2>1. CASE sws = "HSI"
    <3>1. Hclk = 16000000 /\ reg.latency \in {0, 5} /\ reg.ppre1 \in {1, 4} /\ reg.ppre2 \in {1, 2}
      BY <2>1, HclkOnHsi
    <3> QED
      BY <3>1 DEF WithinLimits, Pclk1, Pclk2
  <2>2. CASE sws = "PLL"
    <3>1. reg \in {RegSel, WithI2s(RegSel)}
      BY <2>2
    <3>2. reg.latency = 5 /\ reg.vos = TRUE /\ reg.ppre1 = 4 /\ reg.ppre2 = 2
      BY <3>1
    <3>3. Hclk = 168000000
      BY <2>2, <3>1, HclkOnPll
    <3> QED
      BY <3>2, <3>3 DEF WithinLimits, Pclk1, Pclk2
  <2>3. sws \in {"HSI", "PLL"}
    OBVIOUS
  <2> QED
    BY <2>1, <2>2, <2>3
<1> QED
  BY <1>1, ClockInvAlways, PTL

LEMMA VcoInSound == reg.pll \in {PllReset, PllMain} => VcoIn = 1000000
<1>1. reg.pll = PllReset => VcoIn = 1000000
  BY SMT DEF VcoIn, SourceClock, PllReset, HSI_VALUE
<1> QED
  BY <1>1, MainVco, SMT

(* No PLL is switched on before it is set up or outside its input range,   *)
(* and the core is on the PLL only while it is locked on the crystal.      *)
THEOREM PllAlwaysSound == ClockSpec => []PllSound
<1>1. ASSUME ClockInv
      PROVE  /\ reg.pll \in {PllReset, PllMain}
             /\ "PLL" \in reg.on => reg.pll = PllMain
             /\ sws = "PLL" => {"PLL", "HSE"} \subseteq ready
  BY <1>1, RegFields DEF ClockInv, Progress, Fields
<1>2. ClockInv => PllSound
  BY <1>1, VcoInSound, SMT DEF PllSound
<1> QED
  BY <1>2, ClockInvAlways, PTL

(* main starts with the clocks whole: 168 MHz and 48 MHz for USB, or all   *)
(* as at reset, never in between, however the crystal's start races the    *)
(* time-out.                                                               *)
THEOREM ClockSetUpWhole == ClockSpec => []SetUpWhole
<1>1. ASSUME ClockInv, ck_pc = "done"
      PROVE  \/ sws = "HSI" /\ reg = WithI2s(RegHse)
             \/ sws = "PLL" /\ reg = WithI2s(RegSel) /\ reg.pll = PllMain
  BY <1>1, RegFields DEF ClockInv, Progress, Fields
<1>2. WithI2s(RegHse) = [RegReset EXCEPT !.on = RegReset.on \cup {"HSE", "PLLI2S"}, !.i2s = PllI2s]
  <2>1. RegHse.on \cup {"PLLI2S"} = RegReset.on \cup {"HSE", "PLLI2S"}
    BY RegFields DEF Fields
  <2> QED
    BY <2>1 DEF WithI2s, RegHse, RegReset
<1>3. sws = "PLL" /\ reg.pll = PllMain => Hclk = SystemCoreClock /\ OtgFsClock = 48000000
  BY HclkOnPll, MainVco, SMT DEF SystemCoreClock, OtgFsClock, PllMain
<1>4. \A field \in DOMAIN McuConf : WithI2s(RegSel)[field] = McuConf[field]
  <2>1. PllMain = [src |-> "HSE", m |-> 8, n |-> 336, p |-> (2 \div 2) - 1, q |-> 7]
    BY DEF PllMain
  <2>2. WithI2s(RegSel).hpre = 0
    BY DEF WithI2s, RegSel, RegFlash, RegOn, RegPll, RegBus, RegHse, RegReset
  <2> QED
    <3>1. DOMAIN McuConf = {"vos", "sw", "hpre", "ppre1", "ppre2", "pll"}
      BY DEF McuConf
    <3>2. /\ McuConf["vos"] = TRUE /\ McuConf["sw"] = "PLL" /\ McuConf["hpre"] = 0
          /\ McuConf["ppre1"] = 4 /\ McuConf["ppre2"] = 2 /\ McuConf["pll"] = PllMain
      BY <2>1 DEF McuConf
    <3>3. LET r == WithI2s(RegSel)
          IN  /\ r["vos"] = TRUE /\ r["sw"] = "PLL" /\ r["hpre"] = 0
              /\ r["ppre1"] = 4 /\ r["ppre2"] = 2 /\ r["pll"] = PllMain
      BY <2>2, RegFields DEF Fields, Divided
    <3> QED
      BY <3>1, <3>2, <3>3, Zenon
<1>5. ClockInv => SetUpWhole
  BY <1>1, <1>2, <1>3, <1>4, SMT DEF SetUpWhole
<1> QED
  BY <1>5, ClockInvAlways, PTL

-----------------------------------------------------------------------------
(* What the hardware still does by itself: lock a PLL, follow the switch.  *)
Locks(pll) == pll \in ready \/ (pll \in reg.on /\ reg.pll.src \in ready)
Follows == sws = "PLL" \/ (reg.sw = "PLL" /\ "PLL" \in ready)

(* Each loop of SetSysClock can end.  The loop for the crystal has looks   *)
(* left; the PLL, switched on and waited for without a time-out, has a     *)
(* crystal that runs; the I2S PLL has a source that runs, HSE or HSI, also *)
(* when the crystal was given up.                                          *)
LoopsCanEnd ==
  /\ ck_pc = "hseWait" => StartUpCounter < HSE_STARTUP_TIMEOUT
  /\ ck_pc = "pllWait" => Locks("PLL")
  /\ ck_pc = "swsWait" => Follows
  /\ ck_pc = "i2sWait" => Locks("PLLI2S")

(* SetSysClock never waits for hardware that cannot come, whether the      *)
(* crystal starts or not.                                                  *)
THEOREM SetUpNeverStuck == ClockSpec => []LoopsCanEnd
<1>1. ASSUME ClockInv, ck_pc = "pllWait" PROVE Locks("PLL")
  <2>1. reg = RegOn /\ "HSE" \in ready
    BY <1>1 DEF ClockInv, Progress
  <2>2. "PLL" \in reg.on /\ reg.pll.src = "HSE"
    BY <2>1, RegFields DEF Fields, PllMain
  <2> QED
    BY <2>1, <2>2 DEF Locks
<1>2. ASSUME ClockInv, ck_pc = "swsWait" PROVE Follows
  <2>1. reg = RegSel /\ "PLL" \in ready
    BY <1>2 DEF ClockInv, Progress
  <2> QED
    BY <2>1, RegFields DEF Fields, Follows
<1>3. ASSUME ClockInv, ck_pc = "i2sWait" PROVE Locks("PLLI2S")
  <2>1. CASE reg = WithI2s(RegHse)
    <3>1. "PLLI2S" \in reg.on /\ reg.pll.src = "HSI"
      BY <2>1, RegFields DEF Fields, PllReset
    <3> QED
      BY <1>3, <3>1 DEF Locks, ClockInv
  <2>2. CASE reg = WithI2s(RegSel)
    <3>1. "PLLI2S" \in reg.on /\ reg.pll.src = "HSE" /\ reg.sw = "PLL"
      BY <2>2, RegFields DEF Fields, PllMain
    <3> QED
      BY <1>3, <3>1 DEF Locks, ClockInv
  <2> QED
    BY <1>3, <2>1, <2>2 DEF ClockInv, Progress
<1>4. ClockInv => LoopsCanEnd
  BY <1>1, <1>2, <1>3 DEF LoopsCanEnd, ClockInv
<1> QED
  BY <1>4, ClockInvAlways, PTL
=============================================================================

---------------------------- MODULE PollTimingProofs ----------------------------
(* The event endpoint is polled in time although the frame number wraps,   *)
(* for every FRNUM_PERIOD and every lateness up to half of it.             *)
EXTENDS UubtStackProofs

FN == 0 .. FRNUM_PERIOD - 1

(* Frames from y to x, as the frame counter counts them.                   *)
Age(x, y) == (x - y) % FRNUM_PERIOD

(* The deadline of a poll lies 2 frames after its arming, at any lateness. *)
TmoInv ==
  /\ evt_state \in {1, 2} => evt_tmo = (2 + armed) % FRNUM_PERIOD
  /\ pc = "evt_rx" => evt_state = 1

(* The driver knows the frame number but for lag frames.  Once a poll has  *)
(* looked at the deadline, and left the endpoint armed, the arming is at   *)
(* most 1 frame old in that poll.                                          *)
PollInv ==
  /\ TmoInv
  /\ frame = (cur_fn + lag) % FRNUM_PERIOD
  /\ evt_state \in {1, 2} =>
       Age(cur_fn, armed) <= (IF pc = "evt_go" THEN MaxLag + 1 ELSE 1)

-----------------------------------------------------------------------------
(* Arithmetic of a counter that wraps.                                     *)
LEMMA AgeIs ==
  ASSUME NEW x \in FN, NEW y \in FN
  PROVE  Age(x, y) = IF x >= y THEN x - y ELSE x - y + FRNUM_PERIOD
BY HostLibAssumed DEF HostLibAssumption, FN, Age

LEMMA ForwardIs ==
  ASSUME NEW x \in FN, NEW d \in Nat, d < FRNUM_PERIOD
  PROVE  /\ (x + d) % FRNUM_PERIOD = IF x + d < FRNUM_PERIOD THEN x + d ELSE x + d - FRNUM_PERIOD
         /\ (x + d) % FRNUM_PERIOD \in FN
BY HostLibAssumed DEF HostLibAssumption, FN

(* Later by d frames: older by d at most.                                  *)
LEMMA AgeGrows ==
  ASSUME NEW x \in FN, NEW y \in FN, NEW d \in Nat, d < FRNUM_PERIOD
  PROVE  Age((x + d) % FRNUM_PERIOD, y) <= Age(x, y) + d
<1> DEFINE z == (x + d) % FRNUM_PERIOD
<1>1. z = (IF x + d < FRNUM_PERIOD THEN x + d ELSE x + d - FRNUM_PERIOD) /\ z \in FN
  BY ForwardIs
<1> HIDE DEF z
<1>2. Age(z, y) = IF z >= y THEN z - y ELSE z - y + FRNUM_PERIOD
  BY <1>1, AgeIs
<1>3. Age(x, y) = IF x >= y THEN x - y ELSE x - y + FRNUM_PERIOD
  BY AgeIs
<1>4. Age(z, y) <= Age(x, y) + d
  BY <1>1, <1>2, <1>3, HostLibAssumed DEF HostLibAssumption, FN
<1> QED
  BY <1>4 DEF z

(* fn_diff is the age of the deadline.                                     *)
LEMMA DiffIs ==
  ASSUME cur_fn \in FN, evt_tmo \in FN
  PROVE  fn_diff = IF cur_fn >= evt_tmo THEN cur_fn - evt_tmo ELSE cur_fn - evt_tmo + FRNUM_PERIOD
<1> DEFINE e == cur_fn - evt_tmo
<1>1. e \in Int /\ FRNUM_PERIOD + cur_fn - evt_tmo = e + FRNUM_PERIOD
  BY HostLibAssumed DEF HostLibAssumption, FN
<1>2. e > -FRNUM_PERIOD /\ e < FRNUM_PERIOD
  BY HostLibAssumed DEF HostLibAssumption, FN
<1> HIDE DEF e
<1>3. (e + FRNUM_PERIOD) % FRNUM_PERIOD = e % FRNUM_PERIOD
  BY <1>1, <1>2, HostLibAssumed DEF HostLibAssumption
<1>4. fn_diff = Age(cur_fn, evt_tmo)
  BY <1>1, <1>3 DEF fn_diff, Age, e
<1> QED
  BY <1>4, AgeIs

(* The driver's test: of the ages a poll may find, those of 2 frames and   *)
(* more have expired.                                                      *)
LEMMA ExpiredFromTwo ==
  ASSUME TypeOK, 2 * MaxLag <= FRNUM_PERIOD, evt_tmo = (2 + armed) % FRNUM_PERIOD,
         Age(cur_fn, armed) <= MaxLag + 1, ~Expired
  PROVE  Age(cur_fn, armed) <= 1
<1>1. cur_fn \in FN /\ armed \in FN /\ MaxLag \in Nat
  BY HostLibAssumed DEF HostLibAssumption, TypeOK, CoreTypeOK, FN
<1>2. evt_tmo = IF armed + 2 < FRNUM_PERIOD THEN armed + 2 ELSE armed + 2 - FRNUM_PERIOD
  <2>1. armed + 2 = 2 + armed
    BY <1>1 DEF FN
  <2> QED
    BY <1>1, <2>1, ForwardIs, HostLibAssumed DEF HostLibAssumption
<1>3. Age(cur_fn, armed) = IF cur_fn >= armed THEN cur_fn - armed ELSE cur_fn - armed + FRNUM_PERIOD
  BY <1>1, AgeIs
<1>4. evt_tmo \in FN
  BY <1>1, <1>2, HostLibAssumed DEF HostLibAssumption, FN
<1>6. fn_diff = IF cur_fn >= evt_tmo THEN cur_fn - evt_tmo ELSE cur_fn - evt_tmo + FRNUM_PERIOD
  BY <1>1, <1>4, DiffIs
<1>7. fn_diff >= FRNUM_PERIOD \div 2
  BY <1>1, <1>4, <1>6, HostLibAssumed DEF HostLibAssumption, Expired, FN
<1> QED
  BY <1>1, <1>2, <1>3, <1>6, <1>7, HostLibAssumed DEF HostLibAssumption, FN

-----------------------------------------------------------------------------
(* Nothing armed.                                                          *)
LEMMA PollInvInit == Init => PollInv
<1>1. (0 + 0) % FRNUM_PERIOD = 0
  BY HostLibAssumed DEF HostLibAssumption
<1> QED
  BY <1>1 DEF Init, HostLibInit, CoreInit, PollInv, TmoInv

timing == <<frame, lag, cur_fn, armed, evt_tmo>>

(* What a step may do to the poll's timing: nothing, unless it is one of   *)
(* usb_bt_evt_process or a frame passes.                                   *)
LEMMA TimingSteps ==
  ASSUME [Next]_vars
  PROVE  \/ FrameTick /\ UNCHANGED corevars
         \/ EvtSample
         \/ EvtArm
         \/ UNCHANGED timing /\ pc = "evt_go" /\ ~Expired /\ pc' = "evt_rx" /\ evt_state = 1 /\ evt_state' = 1
         \/ UNCHANGED timing /\ pc = "evt_go" /\ ~Expired /\ pc' = "aclo" /\ evt_state' \in {0, evt_state}
         \/ UNCHANGED timing /\ pc = "evt_rx" /\ pc' = "aclo" /\ evt_state' = 2
         \/ /\ UNCHANGED timing
            /\ pc' # "evt_rx" /\ (pc' = "evt_go" => pc = "evt_go")
            /\ (pc = "evt_go" => pc' = "evt_go") /\ evt_state' \in {0, evt_state}
         \/ UNCHANGED timing /\ pc' = "aclo" /\ evt_state' = 0
         \/ UNCHANGED timing /\ pc' = pc /\ evt_state' = evt_state
<1> USE DEF timing, vars, libvars, portvars, ctlvars, corevars, txvars, evtvars
<1>1. CASE PowerOn
  BY <1>1 DEF PowerOn, ClassRequest
<1>2. CASE PowerOff
  BY <1>2 DEF PowerOff, InterfaceDeInit
<1>3. CASE CmdNotify
  BY <1>3 DEF CmdNotify, CmdSent, CmdRequest, cmdframe
<1>4. CASE CmdReturn
  BY <1>4 DEF CmdReturn, CmdEndReturn, cmdframe
<1>5. CASE AcloNotify
  BY <1>5 DEF AcloNotify, AcloSent, acloframe
<1>6. CASE AcloReturn
  BY <1>6 DEF AcloReturn, AcloEndReturn, acloframe
<1>7. CASE InterfaceInit
  BY <1>7 DEF InterfaceInit
<1>8. CASE StMachine
  BY <1>8 DEF StMachine
<1>9. CASE CmdIdle
  BY <1>9 DEF CmdIdle, cmdframe
<1>10. CASE CmdFail
  BY <1>10 DEF CmdFail, CmdRequest, cmdframe
<1>11. CASE CmdAgain
  BY <1>11 DEF CmdAgain, CmdRequest, cmdframe
<1>12. CASE EvtSample \/ EvtArm
  BY <1>12
<1>13. CASE EvtTimeout
  BY <1>13 DEF EvtTimeout, evtframe
<1>14. CASE EvtReceived
  BY <1>14 DEF EvtReceived, evtframe
<1>15. CASE EvtRxReturn
  BY <1>15 DEF EvtRxReturn, evtframe
<1>16. CASE EvtStall
  BY <1>16 DEF EvtStall, evtframe
<1>17. CASE EvtWait
  BY <1>17 DEF EvtWait, evtframe
<1>18. CASE AcloIdle
  BY <1>18 DEF AcloIdle, acloframe
<1>19. CASE AcloSend
  BY <1>19 DEF AcloSend, acloframe
<1>20. CASE AcloStall
  BY <1>20 DEF AcloStall, acloframe
<1>21. CASE AcliArm
  BY <1>21 DEF AcliArm, acliframe
<1>22. CASE AcliReceived
  BY <1>22 DEF AcliReceived, acliframe
<1>23. CASE AcliRxReturn
  BY <1>23 DEF AcliRxReturn, acliframe
<1>24. CASE AcliStall
  BY <1>24 DEF AcliStall, acliframe
<1>25. CASE AcliWait
  BY <1>25 DEF AcliWait, acliframe
<1>26. CASE ProcessStep
  BY <1>26 DEF ProcessStep, Enumerate, HandleControl
<1>27. CASE StackStep
  BY <1>27 DEF StackStep, HciSend, hal_ub_tx_packet
<1>28. CASE IsrStep
  BY <1>28 DEF IsrStep, Plug, Unplug, UrbAnswer, Refused
<1>29. CASE UNCHANGED vars
  BY <1>29
<1> QED
  BY <1>1, <1>2, <1>3, <1>4, <1>5, <1>6, <1>7, <1>8, <1>9, <1>10, <1>11, <1>12, <1>13,
     <1>14, <1>15, <1>16, <1>17, <1>18, <1>19, <1>20, <1>21, <1>22, <1>23, <1>24, <1>25,
     <1>26, <1>27, <1>28, <1>29
  DEF Next, MainStep, PollStep, Receive

(* One step of any kind.                                                   *)
LEMMA PollInvStep ==
  ASSUME 2 * MaxLag <= FRNUM_PERIOD
  PROVE  TypeOK /\ PollInv /\ [Next]_vars => PollInv'
<1> SUFFICES ASSUME TypeOK, PollInv, [Next]_vars PROVE PollInv'
  OBVIOUS
<1>1. /\ frame \in FN /\ cur_fn \in FN /\ armed \in FN /\ lag \in Nat /\ lag <= MaxLag
      /\ MaxLag \in Nat /\ FRNUM_PERIOD \in Nat /\ MaxLag + 1 < FRNUM_PERIOD
      /\ lag < FRNUM_PERIOD
  BY HostLibAssumed DEF HostLibAssumption, TypeOK, HostLibTypeOK, CoreTypeOK, FN
<1>2. CASE FrameTick /\ UNCHANGED corevars
  <2>1. UNCHANGED <<cur_fn, evt_state, evt_tmo, armed, pc>>
    BY <1>2 DEF corevars, evtvars
  <2>2. frame' = (cur_fn + lag') % FRNUM_PERIOD
    <3>1. lag < MaxLag /\ lag' = lag + 1 /\ frame' = (frame + 1) % FRNUM_PERIOD
      BY <1>2 DEF FrameTick
    <3>2. frame = IF cur_fn + lag < FRNUM_PERIOD THEN cur_fn + lag ELSE cur_fn + lag - FRNUM_PERIOD
      BY <1>1, ForwardIs DEF PollInv, TmoInv
    <3>3. frame' = IF frame + 1 < FRNUM_PERIOD THEN frame + 1 ELSE frame + 1 - FRNUM_PERIOD
      BY <1>1, <3>1, ForwardIs
    <3>4. lag' \in Nat /\ lag' < FRNUM_PERIOD
      BY <1>1, <3>1
    <3>5. (cur_fn + lag') % FRNUM_PERIOD =
            IF cur_fn + lag' < FRNUM_PERIOD THEN cur_fn + lag' ELSE cur_fn + lag' - FRNUM_PERIOD
      BY <1>1, <3>4, ForwardIs
    <3> QED
      BY <1>1, <3>1, <3>2, <3>3, <3>5 DEF FN
  <2> QED
    BY <2>1, <2>2 DEF PollInv, TmoInv, Age
<1>3. CASE EvtSample
  <2>1. cur_fn' = frame /\ frame' = frame /\ lag' = 0 /\ pc' = "evt_go" /\ pc = "evt"
        /\ UNCHANGED <<evt_state, evt_tmo, armed>>
    BY <1>3 DEF EvtSample, evtframe
  <2>2. frame' = (cur_fn' + lag') % FRNUM_PERIOD
    <3>1. frame + 0 = frame /\ frame % FRNUM_PERIOD = frame
      BY <1>1 DEF FN
    <3> QED
      BY <2>1, <3>1
  <2>3. ASSUME evt_state \in {1, 2} PROVE Age(cur_fn, armed)' <= MaxLag + 1
    <3>1. Age(frame, armed) <= Age(cur_fn, armed) + lag
      BY <1>1, AgeGrows DEF PollInv, TmoInv
    <3>2. Age(cur_fn, armed) <= 1
      BY <2>1, <2>3 DEF PollInv, TmoInv
    <3>3. Age(cur_fn, armed) \in Int /\ Age(frame, armed) \in Int
      BY <1>1, AgeIs DEF FN
    <3> QED
      BY <1>1, <2>1, <3>1, <3>2, <3>3 DEF Age
  <2> QED
    BY <2>1, <2>2, <2>3 DEF PollInv, TmoInv
<1>4. CASE EvtArm
  <2>1. /\ armed' = cur_fn /\ evt_tmo' = (2 + cur_fn) % FRNUM_PERIOD /\ pc' = "aclo"
        /\ UNCHANGED <<cur_fn, frame, lag>>
    BY <1>4 DEF EvtArm, evtframe
  <2>2. Age(cur_fn, armed)' = 0
    <3>1. Age(cur_fn, cur_fn) = 0
      BY <1>1, AgeIs DEF FN
    <3> QED
      BY <2>1, <3>1 DEF Age
  <2> QED
    BY <2>1, <2>2 DEF PollInv, TmoInv
<1>5. ASSUME UNCHANGED timing, pc = "evt_go", ~Expired, pc' # "evt_go",
             evt_state' \in {0, evt_state}, pc' = "evt_rx" => evt_state' = 1
      PROVE  PollInv'
  <2>1. ASSUME evt_state \in {1, 2} PROVE Age(cur_fn, armed) <= 1
    BY <1>5, <2>1, ExpiredFromTwo DEF PollInv, TmoInv
  <2> QED
    BY <1>5, <2>1 DEF PollInv, TmoInv, timing, Age
<1>6. ASSUME UNCHANGED timing, pc = "evt_rx", pc' = "aclo" PROVE PollInv'
  BY <1>6 DEF PollInv, TmoInv, timing, Age
<1>7. ASSUME UNCHANGED timing, evt_state' \in {0, evt_state}, pc' # "evt_rx",
             pc' = "evt_go" <=> pc = "evt_go"
      PROVE  PollInv'
  BY <1>7 DEF PollInv, TmoInv, timing, Age
<1>8. ASSUME UNCHANGED timing, pc' = "aclo", evt_state' = 0 PROVE PollInv'
  BY <1>8 DEF PollInv, TmoInv, timing, Age
<1>9. ASSUME UNCHANGED timing, pc' = pc, evt_state' = evt_state PROVE PollInv'
  BY <1>9 DEF PollInv, TmoInv, timing, Age
<1> QED
  BY TimingSteps, <1>2, <1>3, <1>4, <1>5, <1>6, <1>7, <1>8, <1>9

(* However late the polls come, up to half the counter's period, the event *)
(* endpoint is armed again within 2 * MaxLag + 1 frames: the test of       *)
(* evt_tmo never takes a deadline that has passed for one to come.         *)
THEOREM AlwaysPolledInTime ==
  ASSUME 2 * MaxLag <= FRNUM_PERIOD
  PROVE  Spec => []PollPeriod
<1>1. TypeOK /\ PollInv => PollPeriod
  <2> SUFFICES ASSUME TypeOK, PollInv, evt_state \in {1, 2} PROVE EvtAge <= 2 * MaxLag + 1
    BY DEF PollPeriod
  <2>1. /\ frame \in FN /\ cur_fn \in FN /\ armed \in FN /\ lag \in Nat /\ lag <= MaxLag
        /\ MaxLag \in Nat /\ FRNUM_PERIOD \in Nat /\ MaxLag < FRNUM_PERIOD
    BY HostLibAssumed DEF HostLibAssumption, TypeOK, HostLibTypeOK, CoreTypeOK, FN
  <2>2. Age(frame, armed) <= Age(cur_fn, armed) + lag
    BY <2>1, AgeGrows DEF PollInv, TmoInv
  <2>3. Age(cur_fn, armed) <= MaxLag + 1 /\ Age(cur_fn, armed) \in Int /\ Age(frame, armed) \in Int
    <3>1. Age(cur_fn, armed) \in Int /\ Age(frame, armed) \in Int
      BY <2>1, AgeIs DEF FN
    <3>2. Age(cur_fn, armed) <= 1 \/ Age(cur_fn, armed) <= MaxLag + 1
      BY DEF PollInv, TmoInv
    <3> QED
      BY <2>1, <3>1, <3>2
  <2> QED
    BY <2>1, <2>2, <2>3 DEF EvtAge, Age
<1> QED
  BY <1>1, PollInvInit, PollInvStep, TypeCorrect, PTL DEF Spec

-----------------------------------------------------------------------------
(* Arrived packets.  What is fresh lies in the buffer of a channel that is *)
(* done and whose endpoint waits for it; the stack, when it is on, is the  *)
(* one that rx_handler gives packets to.                                   *)
FreshInv ==
  /\ gState \in {"HOST_IDLE", "HOST_USR_INPUT", "HOST_CLASS_REQUEST"} => fresh = {}
  /\ \A ep \in fresh : urb[ep] = "DONE"
  /\ urb["ACLI"] = "ACTIVE" \/ "ACLI" \in fresh => acli_state = 1
  /\ pc = "acli_rx" => "ACLI" \notin fresh
  /\ pc = "evt_rx" => "EVT" \notin fresh
  /\ evt_state = 2 => urb["EVT"] # "ACTIVE"
  /\ packet_handler = "hci"
  /\ hci_on => RxReachesStack

(* Nothing has arrived.                                                    *)
LEMMA FreshInvInit == Init => FreshInv
BY DEF Init, HostLibInit, CoreInit, HciInit, h2_register_packet_handler, FreshInv, EP

(* FreshInv in a step, with any dongle.                                    *)
LEMMA FreshInvStep ==
  ASSUME TypeOK, BufferInv, FreshInv, [Next]_vars
  PROVE  FreshInv'
<1> USE DEF TypeOK, HostLibTypeOK, CoreTypeOK, HciTypeOK, GState, EP, BufferInv, RxBufferHeld,
        FreshInv, RxReachesStack, vars, libvars, portvars, ctlvars, corevars, txvars, evtvars,
        hcivars, handlers
<1>1. CASE PowerOn
  BY <1>1 DEF PowerOn, ClassRequest, h2_open, hal_ub_reg_tx_end, hal_ub_reg_rx_packet
<1>2. CASE PowerOff
  BY <1>2 DEF PowerOff, InterfaceDeInit, HostDeInit, FreeChannels, h2_close
<1>3. CASE CmdNotify
  BY <1>3, CtlReqCases DEF CmdNotify, CmdSent, CmdRequest, cmdframe,
     h2_tx_end_notify, CtlStarts, CtlWaits, CtlEnds
<1>4. CASE CmdReturn
  BY <1>4 DEF CmdReturn, CmdEndReturn, cmdframe, h2_tx_end_return
<1>5. CASE AcloNotify
  BY <1>5 DEF AcloNotify, AcloSent, acloframe, h2_tx_end_notify
<1>6. CASE AcloReturn
  BY <1>6 DEF AcloReturn, AcloEndReturn, acloframe, h2_tx_end_return
<1>7. CASE InterfaceInit /\ UNCHANGED hcivars
  BY <1>7 DEF InterfaceInit
<1>8. CASE StMachine /\ UNCHANGED hcivars
  BY <1>8 DEF StMachine
<1>9. CASE CmdIdle /\ UNCHANGED hcivars
  BY <1>9 DEF CmdIdle, cmdframe
<1>10. CASE CmdFail /\ UNCHANGED hcivars
  BY <1>10, CtlReqCases DEF CmdFail, CmdRequest, cmdframe, CtlStarts, CtlWaits, CtlEnds
<1>11. CASE CmdAgain /\ UNCHANGED hcivars
  BY <1>11, CtlReqCases DEF CmdAgain, CmdRequest, cmdframe, CtlStarts, CtlWaits, CtlEnds
<1>12. CASE EvtSample /\ UNCHANGED hcivars
  BY <1>12 DEF EvtSample, evtframe
<1>13. CASE EvtArm /\ UNCHANGED hcivars
  BY <1>13 DEF EvtArm, Submit, evtframe
<1>14. CASE EvtTimeout /\ UNCHANGED hcivars
  BY <1>14 DEF EvtTimeout, evtframe
<1>15. CASE EvtReceived /\ UNCHANGED hcivars
  BY <1>15 DEF EvtReceived, evtframe
<1>16. CASE EvtRxReturn /\ UNCHANGED hcivars
  BY <1>16 DEF EvtRxReturn, evtframe
<1>17. CASE EvtStall /\ UNCHANGED hcivars
  BY <1>17, CtlReqCases DEF EvtStall, ClrFeature, evtframe, CtlStarts, CtlWaits, CtlEnds
<1>18. CASE EvtWait /\ UNCHANGED hcivars
  BY <1>18 DEF EvtWait, evtframe
<1>19. CASE AcloIdle /\ UNCHANGED hcivars
  BY <1>19 DEF AcloIdle, acloframe
<1>20. CASE AcloSend /\ UNCHANGED hcivars
  BY <1>20 DEF AcloSend, Submit, acloframe
<1>21. CASE AcloStall /\ UNCHANGED hcivars
  BY <1>21, CtlReqCases DEF AcloStall, ClrFeature, acloframe, CtlStarts, CtlWaits, CtlEnds
<1>22. CASE AcliArm /\ UNCHANGED hcivars
  BY <1>22 DEF AcliArm, Submit, acliframe
<1>23. CASE AcliReceived /\ UNCHANGED hcivars
  BY <1>23 DEF AcliReceived, acliframe
<1>24. CASE AcliRxReturn /\ UNCHANGED hcivars
  BY <1>24 DEF AcliRxReturn, acliframe
<1>25. CASE AcliStall /\ UNCHANGED hcivars
  BY <1>25, CtlReqCases DEF AcliStall, ClrFeature, acliframe, CtlStarts, CtlWaits, CtlEnds
<1>26. CASE AcliWait /\ UNCHANGED hcivars
  BY <1>26 DEF AcliWait, acliframe
<1>27. CASE pc = "loop" /\ Enumerate /\ UNCHANGED <<corevars, hcivars>>
  BY <1>27 DEF Enumerate
<1>28. ASSUME NEW outcome \in CtlOutcomes, pc = "loop",
             HandleControl(outcome), UNCHANGED <<corevars, hcivars>>
      PROVE  FreshInv'
  BY <1>28 DEF HandleControl
<1>29. ASSUME NEW type \in DOMAIN PacketSizes, NEW size \in PacketSizes[type],
             HciSend(type, size)
      PROVE  FreshInv'
  BY <1>29 DEF HciSend, h2_send_packet, hal_ub_tx_packet
<1>30. CASE (Plug \/ Unplug \/ FrameTick) /\ UNCHANGED <<corevars, hcivars>>
  BY <1>30 DEF Plug, Unplug, FrameTick
<1>31. ASSUME NEW ep \in EP, NEW outcome \in UrbOutcomes[ep],
             UrbAnswer(ep, outcome), UNCHANGED <<corevars, hcivars>>
      PROVE  FreshInv'
  BY <1>31 DEF UrbAnswer, Refused
<1>32. CASE UNCHANGED vars
  BY <1>32
<1> QED
  BY <1>1, <1>2, <1>3, <1>4, <1>5, <1>6, <1>7, <1>8, <1>9, <1>10, <1>11,
     <1>12, <1>13, <1>14, <1>15, <1>16, <1>17, <1>18, <1>19, <1>20, <1>21,
     <1>22, <1>23, <1>24, <1>25, <1>26, <1>27, <1>28, <1>29, <1>30, <1>31, <1>32
  DEF Next, MainStep, StackStep, IsrStep, PollStep, Receive, ProcessStep

(* The driver's test: in the first two frames nothing has expired.         *)
LEMMA NotExpiredBeforeTwo ==
  ASSUME TypeOK, evt_tmo = (2 + armed) % FRNUM_PERIOD, Age(cur_fn, armed) <= 1
  PROVE  ~Expired
<1>1. cur_fn \in FN /\ armed \in FN
  BY DEF TypeOK, CoreTypeOK, FN
<1>2. evt_tmo = IF armed + 2 < FRNUM_PERIOD THEN armed + 2 ELSE armed + 2 - FRNUM_PERIOD
  <2>1. armed + 2 = 2 + armed
    BY <1>1 DEF FN
  <2> QED
    BY <1>1, <2>1, ForwardIs, HostLibAssumed DEF HostLibAssumption
<1>3. Age(cur_fn, armed) = IF cur_fn >= armed THEN cur_fn - armed ELSE cur_fn - armed + FRNUM_PERIOD
  BY <1>1, AgeIs
<1>4. evt_tmo \in FN
  BY <1>1, <1>2, HostLibAssumed DEF HostLibAssumption, FN
<1>5. fn_diff = IF cur_fn >= evt_tmo THEN cur_fn - evt_tmo ELSE cur_fn - evt_tmo + FRNUM_PERIOD
  BY <1>1, <1>4, DiffIs
<1> QED
  BY <1>1, <1>2, <1>3, <1>5, HostLibAssumed DEF HostLibAssumption, Expired, FN

(* TmoInv in a step: the deadline moves with the arming only.              *)
LEMMA TmoInvStep ==
  ASSUME TmoInv, [Next]_vars
  PROVE  TmoInv'
<1>1. CASE FrameTick /\ UNCHANGED corevars
  BY <1>1 DEF corevars, evtvars, TmoInv
<1>2. CASE EvtSample
  BY <1>2 DEF EvtSample, TmoInv
<1>3. CASE EvtArm
  BY <1>3 DEF EvtArm, TmoInv
<1>4. ASSUME UNCHANGED timing, evt_state' \in {0, evt_state}, pc' = "evt_rx" => evt_state' = 1
      PROVE  TmoInv'
  BY <1>4 DEF timing, TmoInv
<1>5. ASSUME UNCHANGED timing, pc = "evt_rx", pc' = "aclo", evt_state' = 2 PROVE TmoInv'
  BY <1>5 DEF timing, TmoInv
<1>6. ASSUME UNCHANGED timing, pc' = pc, evt_state' = evt_state PROVE TmoInv'
  BY <1>6 DEF timing, TmoInv
<1> QED
  BY TimingSteps, <1>1, <1>2, <1>3, <1>4, <1>5, <1>6

(* The steps that take the event endpoint from state 1 to state 0.         *)
LEMMA OnlyTheseGiveUp ==
  ASSUME [Next]_vars, evt_state = 1, evt_state' = 0
  PROVE  EvtTimeout \/ EvtStall \/ InterfaceInit
<1> USE DEF vars, libvars, portvars, ctlvars, corevars, txvars, evtvars
<1>1. CASE MainStep
  <2>1. CASE PowerOn \/ PowerOff
    BY <2>1 DEF PowerOn, ClassRequest, PowerOff, InterfaceDeInit
  <2>2. CASE CmdNotify \/ CmdReturn
    BY <2>2 DEF CmdNotify, CmdSent, CmdRequest, CmdReturn, CmdEndReturn, cmdframe
  <2>3. CASE AcloNotify \/ AcloReturn
    BY <2>3 DEF AcloNotify, AcloSent, AcloReturn, AcloEndReturn, acloframe
  <2>4. CASE CmdIdle \/ CmdFail \/ CmdAgain
    BY <2>4 DEF CmdIdle, CmdFail, CmdAgain, CmdRequest, cmdframe
  <2>5. CASE EvtSample \/ EvtArm \/ EvtWait \/ EvtReceived \/ EvtRxReturn
    BY <2>5 DEF EvtSample, EvtArm, EvtWait, EvtReceived, EvtRxReturn
  <2>6. CASE AcloIdle \/ AcloSend \/ AcloStall
    BY <2>6 DEF AcloIdle, AcloSend, AcloStall, acloframe
  <2>7. CASE AcliArm \/ AcliStall \/ AcliWait \/ AcliReceived \/ AcliRxReturn
    BY <2>7 DEF AcliArm, AcliStall, AcliWait, AcliReceived, AcliRxReturn, acliframe
  <2>8. CASE EvtTimeout \/ EvtStall \/ InterfaceInit
    BY <2>8
  <2>9. CASE StMachine \/ ProcessStep
    BY <2>9 DEF StMachine, ProcessStep
  <2> QED
    BY <1>1, <2>1, <2>2, <2>3, <2>4, <2>5, <2>6, <2>7, <2>8, <2>9
    DEF MainStep, PollStep, Receive
<1>2. CASE StackStep
  BY <1>2 DEF StackStep, HciSend, hal_ub_tx_packet
<1>3. CASE IsrStep
  BY <1>3 DEF IsrStep
<1> QED
  BY <1>1, <1>2, <1>3 DEF Next

(* The poll of the event endpoint is given up, with something to lose, by  *)
(* a time-out only, and the time-out is not early.                         *)
LEMMA GivesUpLate ==
  ASSUME TypeOK, BufferInv, FreshInv, TmoInv, [Next]_vars, GivesUp
  PROVE  Late
<1>1. EvtTimeout
  <2>1. ~EvtStall
    BY DEF EvtStall, GivesUp, FreshInv
  <2>2. ~InterfaceInit
    BY DEF InterfaceInit, GivesUp, FreshInv, BufferInv, EP
  <2> QED
    BY <2>1, <2>2, OnlyTheseGiveUp DEF GivesUp
<1>2. Expired /\ evt_tmo = (2 + armed) % FRNUM_PERIOD
  BY <1>1 DEF EvtTimeout, TmoInv
<1>3. ~(Age(cur_fn, armed) <= 1)
  BY <1>2, NotExpiredBeforeTwo
<1>4. Age(cur_fn, armed) \in Int
  <2>1. FRNUM_PERIOD \in Nat /\ cur_fn \in FN /\ armed \in FN
    BY HostLibAssumed DEF HostLibAssumption, TypeOK, CoreTypeOK, FN
  <2> QED
    BY <2>1, AgeIs DEF FN
<1> QED
  BY <1>3, <1>4 DEF Late, Age

(* The steps that take a packet from its buffer.                           *)
LEMMA OnlyTheseTake ==
  ASSUME TypeOK, BufferInv, FreshInv, [Next]_vars, NEW ep \in fresh, ep \notin fresh'
  PROVE  \/ (EvtArm /\ ep = "EVT") \/ (AcliArm /\ ep = "ACLI")
         \/ (EvtReceived /\ ep = "EVT") \/ (AcliReceived /\ ep = "ACLI")
         \/ PowerOff
<1> USE DEF vars, libvars, portvars, ctlvars, corevars, txvars, evtvars
<1>1. CASE MainStep
  <2>1. CASE PowerOn
    BY <2>1 DEF PowerOn, ClassRequest
  <2>2. CASE CmdNotify \/ CmdReturn
    BY <2>2 DEF CmdNotify, CmdSent, CmdRequest, CmdReturn, CmdEndReturn, cmdframe
  <2>3. CASE AcloNotify \/ AcloReturn
    BY <2>3 DEF AcloNotify, AcloSent, AcloReturn, AcloEndReturn, acloframe
  <2>4. CASE CmdIdle \/ CmdFail \/ CmdAgain
    BY <2>4 DEF CmdIdle, CmdFail, CmdAgain, CmdRequest, cmdframe
  <2>5. CASE EvtSample \/ EvtTimeout \/ EvtStall \/ EvtWait \/ EvtRxReturn
    BY <2>5 DEF EvtSample, EvtTimeout, EvtStall, EvtWait, EvtRxReturn, evtframe
  <2>6. CASE AcloIdle \/ AcloSend \/ AcloStall
    BY <2>6 DEF AcloIdle, AcloSend, Submit, AcloStall, acloframe, FreshInv, TypeOK, HostLibTypeOK
  <2>7. CASE AcliStall \/ AcliWait \/ AcliRxReturn
    BY <2>7 DEF AcliStall, AcliWait, AcliRxReturn, acliframe
  <2>8. CASE EvtArm \/ AcliArm
    BY <2>8 DEF EvtArm, AcliArm, Submit
  <2>9. CASE EvtReceived \/ AcliReceived
    BY <2>9 DEF EvtReceived, AcliReceived
  <2>10. CASE InterfaceInit \/ StMachine
    BY <2>10 DEF InterfaceInit, StMachine, BufferInv, FreshInv
  <2>11. CASE ProcessStep
    BY <2>11 DEF ProcessStep, Enumerate, HandleControl
  <2> QED
    BY <1>1, <2>1, <2>2, <2>3, <2>4, <2>5, <2>6, <2>7, <2>8, <2>9, <2>10, <2>11
    DEF MainStep, PollStep, Receive
<1>2. CASE StackStep
  BY <1>2 DEF StackStep, HciSend, hal_ub_tx_packet
<1>3. CASE IsrStep
  BY <1>3 DEF IsrStep, Plug, Unplug, FrameTick, UrbAnswer, Refused
<1> QED
  BY <1>1, <1>2, <1>3 DEF Next

(* Whatever the dongle does and however late the polls come, a packet that *)
(* has arrived reaches the stack, unless the class is closed or it is an   *)
(* event whose poll the driver gave up; and a poll is given up only when   *)
(* it is looked at 2 frames after the arming or later.                     *)
THEOREM OnlyLateIsLost == Spec => OnlyLateLost
<1> DEFINE Lost(ep) == ep \in fresh /\ ep \notin fresh'
           Kept(ep) == \/ HandedUp(ep) /\ RxReachesStack
                       \/ gState' = "HOST_IDLE"
                       \/ ep = "EVT" /\ evt_state = 0
           Inv == TypeOK /\ BufferInv /\ FreshInv /\ TmoInv
           Allowed == (GivesUp => Late) /\ \A ep \in {"EVT", "ACLI"} : Lost(ep) => Kept(ep)
<1>1. Inv /\ [Next]_vars => Allowed
  <2> SUFFICES ASSUME Inv, [Next]_vars, NEW ep \in {"EVT", "ACLI"}, Lost(ep) PROVE Kept(ep)
    BY GivesUpLate
  <2>1. CASE EvtArm /\ ep = "EVT"
    BY <2>1 DEF EvtArm
  <2>2. CASE AcliArm /\ ep = "ACLI"
    BY <2>2 DEF AcliArm, FreshInv
  <2>3. CASE EvtReceived /\ ep = "EVT"
    BY <2>3 DEF EvtReceived, HandedUp, RxPc, BufferInv, FreshInv
  <2>4. CASE AcliReceived /\ ep = "ACLI"
    BY <2>4 DEF AcliReceived, HandedUp, RxPc, BufferInv, FreshInv
  <2>5. CASE PowerOff
    BY <2>5 DEF PowerOff, InterfaceDeInit, HostDeInit
  <2> QED
    BY OnlyTheseTake, <2>1, <2>2, <2>3, <2>4, <2>5
<1>2. Inv /\ [Next]_vars => FreshInv' /\ TmoInv'
  BY FreshInvStep, TmoInvStep
<1>3. Init => TmoInv
  BY DEF Init, CoreInit, TmoInv
<1>4. (Inv /\ [Next]_vars => Allowed) => (Inv /\ [Next]_vars => [Allowed]_vars)
  OBVIOUS
<1> QED
  BY <1>1, <1>2, <1>3, <1>4, FreshInvInit, TypeCorrect, BufferAlways, PTL
  DEF Spec, OnlyLateLost
=============================================================================

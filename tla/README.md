# Uubt: TLA+ models, checks and proofs

Uubt (byly/uubt) runs the BTstack Bluetooth stack on an STM32F4DISCOVERY board
with a USB Bluetooth dongle behind ST's USB host library. The repository's own
code is the layer between the two, the board glue for two builds (no OS,
ChibiOS), a firmware loader for one dongle, and a demo. This directory holds the
TLA+ modules that model that code, the TLC configurations that check them, and
the proofs that TLAPS checks.

## 1. The system

From reset, `SystemInit` sets up the clocks and `main` takes over. One thread then
does all the work. `main` (src/src/main.c) sets up BTstack and the
host library and enters BTstack's run loop, in which `USBH_Process` is a data
source polled over and over. `USBH_Process` calls the class driver's four
callbacks; the driver calls the HCI transport, which calls BTstack, which may
call the transport and the driver again from inside the callback. The OTG_FS
interrupt changes what the driver polls (URB states, the frame number, the port)
between any two steps; in the no-OS build it may also reset the port, delay
included; in the ChibiOS build it hands the reset to a thread.

| component | state | operations | what makes it correct |
|---|---|---|---|
| class driver, `usbh_bt_core.c` | `BT_State`: busy flag and state of commands and ACL-out, state of events and ACL-in, event deadline, channels; the transport's two callbacks | `hal_ub_tx_packet`, `hal_ub_reg_*`, `InterfaceInit`, `InterfaceDeInit`, `ClassRequest`, `StMachine` = four polls | one packet at a time is held until it is out and reported; nothing received is lost but to a late poll, nor delivered twice; buffers are not touched while in use; after a detach all is at rest |
| HCI transport, `hci_transport_uubt.c` | `tx_busy`, `packet_handler` | `send_packet`, `can_send_packet_now`, `open`, `close`, `register_packet_handler`, the two callbacks | `tx_busy` agrees with the driver's flags; it becomes free again |
| firmware loader, `INCLUDE_FIRMWARE` part of `StMachine` | `loading_fw`, `fw_offset`, local `n` | download command, chunk loop | every byte once, in order; it ends |
| clock set-up, `clones/system_stm32f4xx.c` | registers of RCC, PWR, FLASH | `SystemInit`, `SetSysClock` (nothing calls `SystemCoreClockUpdate`) | nothing is run too fast at any point; it ends on one clock or the other, whole |
| USB board support, `clones/usb_bsp.c` | `BSP_delay`, TIM2, pins, clocks, VBUS, NVIC | `Init`, `ConfigVBUS`, `DriveVBUS`, `EnableInterrupt`, `mDelay`, `uDelay`, timer interrupt | no delay is short, every delay ends; the USB interrupt finds what it needs; VBUS rests before it is driven |
| no-OS glue, `os/none` | SysTick, `tick_handler` | `my_usb_bsp_init`, `hal_tick_set_handler`, interrupt handlers, `USB_OTG_ResetPort_I` | the tick is true; it is served whatever the port does |
| ChibiOS glue, `os/chibios` | `usb_reset_tp`, virtual timer, `tick_handler`, pins, clocks, VBUS | reset thread, hand-over, tick, `Init`, `ConfigVBUS`, `EnableInterrupt` | a reset asked for is done; the timer is re-armed; VBUS rests |
| library callbacks, `dummy/usbh_usr.c` | none | a delay of 500 ms after enumeration, the rest empty | |
| demo, `main.c` | `rfcomm_channel_id`, counter, heartbeat timer | `packet_handler`, `heartbeat_handler` | numbers go to the open channel; requests of the dongle are answered |
| newlib stubs, `clones/newlib_stubs.c` | `heap_end` | `_sbrk`, called by nothing here; the rest are constants | |
| configuration: `conf/`, `dummy/` | none | | the two builds agree on their clocks |

The hard behaviours are listed one by one, at their lines, under "hazards" in
PROJECT.json: two records of one fact (`tx_busy` and the busy flags) cleared in
different places; a control pipe with several users and no owner; callbacks that
run with flags still set; a deadline that is compared modulo the frame number
and looked at before the URB; unplugging at any point; loops that never return
to the library.

## 2. Modules

| module | models | kind |
|---|---|---|
| `HostLib` | the part of ST's host library the driver uses (external) | library state, one operator per call, one action per interrupt |
| `UsbhBtCore` | `usbh_bt_core.c`, normal mode | one action per step of each poll, per callback |
| `HciTransport` | `hci_transport_uubt.c` and the registration of its callbacks | one action per entry point |
| `UubtStack` | the three together, and BTstack as an environment | composition, properties, fairness |
| `HciPort` | what the transport promises to BTstack | abstract specification: a slot for one packet, and the two faults a bad dongle can cause |
| `UubtStackProofs` | theorems about `UubtStack`, among them the refinement | proofs |
| `PollTimingProofs` | the event poll's timing: arithmetic of a wrapping counter | proofs |
| `FwLoad`, `FwLoadProofs` | the firmware loader | one action per step of the loop; proofs |
| `ClockSetup`, `ClockSetupProofs` | `system_stm32f4xx.c`, and the hardware that answers it | one action per register write or wait; proofs |
| `BspDelay`, `BspDelayProofs` | `clones/usb_bsp.c`: board set-up and TIM2 delays, used by main and by the interrupt | model, proofs |
| `NoOsBoard`, `NoOsBoardProofs` | `os/none`, the clock set-up and the board support together, from reset | composition, fairness, proofs |
| `ResetThread`, `ResetThreadProofs` | `os/chibios`: main, `usb_reset_thread`, the interrupt that hands over a reset, the system tick, the board | model, proofs |
| `SppCounter`, `SppCounterProofs` | the demo | one action per event and timer; proofs |
| `MCUubtStack`, `MCFwLoad`, `MCNoOsBoard`, `MCResetThread`, `MCSppCounter` | | values of the constants for TLC |

### How the state corresponds to the code

* `pc` is the main thread's place in a pass of `USBH_BT_StMachine`. A step ends
  where the code reads something an interrupt writes and where it calls the
  transport, so interrupts fall between any two such reads and BTstack runs
  inside callbacks (`cmd_end`, `evt_rx`, `aclo_end`, `acli_rx`). `cur_fn` is the
  local that is read at the start of `usb_bt_evt_process` and used later.
* `cmd_busy`, `cmd_state`, `evt_state`, `evt_tmo`, `aclo_busy`, `aclo_state`,
  `acli_state` are the fields of `BT_State`, with the code's 0, 1, 2.
* `hcn` is the set of endpoints whose `..._hcn` field is not 0.
* `gState`, `RequestState`, `ControlState`, `setup`, `ControlBuff` are the fields
  of `USBH_HOST` a control request goes through. `setup` records whose request
  the setup packet describes and `ControlBuff` whose buffer it uses; the
  library itself keeps no owner.
* `urb` is the URB state of each endpoint's channel.
* `wire`, `fresh`, `armed`, `taken`, `chunk`, `owed`, `cut`, `asked`, `served` and
  `low_for` (the time VBUS has been off) are history variables: no guard of the
  modelled code reads them.
* `tx_end_handler`, `rx_handler` and `packet_handler` hold the callback or its
  dummy; a report that meets a dummy reaches nobody.
* In `ClockSetup`, `reg` holds what the code writes, by what the fields select and
  not by their bits; `ready` and `sws` are what the hardware shows of it, each in
  its own time. The clocks in Hz are computed from `reg` and `sws`.
* In `BspDelay`, `nvic.prio` holds priority registers as words, written under the
  priority group of the moment and read under the one of the day, since the code
  changes the group in between (usb_bsp.c:346 and :251).
* `FwLoad` keeps the local `n` from one pass of the loop to the next, which is
  what the build's `-O0` does; in C each pass has an `n` of its own, and what an
  optimised build finds there is undefined.
* Packets are "COMMAND" and "ACL"; their sizes are kept, since the driver's
  length checks depend on them, and their contents are not.
* A definition with `_Wrong` in its name is not part of a model. It is a
  plausible mistake in the definition after it, and PROJECT.json names, for every
  property of a passing run, one such mistake with which TLC finds the property
  violated.

`UubtStack` conjoins the driver's action with the transport's where the code
calls across: `CmdNotify` is the driver's `CmdSent` and the first half of
`h2_tx_end_cb`, `CmdReturn` the second half and the driver's clearing of its
flags; `PowerOn` is `ClassRequest` and `h2_open`; `PowerOff` is
`InterfaceDeInit` and `h2_close`. `HciPort` sees of all this one slot: queued,
on the wire, announced, free again. Its constants `MayStick` and `MayMisreport`
say whether a command may get stuck in the slot or be announced too early;
`UubtStack` gives them by what the dongle may do (`CtlMayFail`, `InMayHalt`), so
that the refinement says which fault of the dongle causes which fault of the
port, and that there is no other. `NoOsBoard` runs the clock set-up to its end,
starts SysTick, lets BTstack's run loop take it, and only then lets main call
`USBH_Init`; from there main, the OTG_FS interrupt, TIM2's and SysTick's share the
core by their priorities.

### What is assumed of the external parts

* BTstack sends a packet only when `can_send_packet_now` allows it, only between
  power on and power off, and opens the transport at each power on. It may send
  at any moment it runs, callbacks included.
* A control request is started by the first call of `USBH_CtlReq` and reported by
  a later one; `USBH_Process` carries the transfer and nothing else until it
  ends. (stm32f4discovery_fw.diff shows `RequestState`.) A re-plugged dongle is
  noticed only after the class was closed.
* A bulk IN channel that is NAKed is started again by the library's interrupt
  (stm32f4discovery_fw.diff:103-108). The interrupt endpoint is not, which is why
  the driver polls it again. A NAKed OUT is left to software
  (stm32f4discovery_fw.diff:18-26): the URB shows `URB_NOTREADY`, the class driver
  has to send again, and `usb_bt_aclo_process` does not (usbh_bt_core.c:322).
* `RCC_GetClocksFreq` computes the clock from the registers and `HSE_VALUE`, as
  `NoOsBoard` writes it out.
* An interrupt that is due and not held back by one of its own or a higher level is
  served before what it interrupts goes on. `SysTick_Config` gives SysTick the
  lowest level, which under the group the USB interrupt is given its priority in is
  that interrupt's own: neither interrupts the other.
* `USBH_Init` calls `USB_OTG_BSP_Init`, `USB_OTG_BSP_ConfigVBUS`, drives VBUS and
  calls `USB_OTG_BSP_EnableInterrupt`, in this order.
* The crystal may start at any moment or never. A PLL whose source runs locks;
  the system clock follows its switch once the new source is ready. The
  regulator's scale 1 is taken to be off at reset, which is the worse case.
* ChibiOS keeps a thread running until it waits or, when another of its priority
  is ready, until its quantum of `CH_TIME_QUANTUM` ticks is used up at the end of
  an interrupt. `ResetThread` models this (`running`, `preempt`, `Wait`,
  `Reschedule`). Assumed beyond it: the reset thread, alone on the processor while
  `ConfigVBUS` sleeps, comes to its loop before that sleep is over.
* RFCOMM gives the demo at most one channel at a time
  (`MAX_NO_RFCOMM_CHANNELS` in config.h).

## 3. What is checked

### Passing runs

| run | question | bounds |
|---|---|---|
| `stack_safe` | `TypeOK`, `TxAccounted`, `EventAfterSent`, `ImplementsPort` (the port without a fault) with a dongle that halts no IN endpoint and fails no control transfer; ACL-out may halt, be refused (NAK) or fail, commands may be refused | frame period 6, polls at most 1 frame late, smallest and largest packets |
| `stack_any` | `InFlightHeld`, `RxBufferHeld`, `DetachedQuiet`, `PollPeriod`, `OnlyLateLost`, `NothingTwice`, `ImplementsPort` (the port with its faults) with a dongle that answers in any way the driver tells apart | frame period 8, polls up to 2 frames late, which is late enough to lose an event; 9.9 million states |
| `stack_live` | `TxEnds`, `EvtRearmed` | frame period 6, polls at most 1 frame late, packets of one size; ACL-out may halt, be refused or fail, commands may be refused or fail |
| `fw_load` | `FwTypeOK`, `FirmwareInOrder`, `FirmwareComplete`, `LoadEnds` | an image of two full chunks and a short one; each chunk may be taken, halted, refused or failed |
| `board` | the no-OS build from reset: `ClockTypeOK`, `WithinLimits`, `PllSound`, `SetUpWhole` of the clocks; `BspTypeOK`, `UncutDelayLongEnough`, `InterruptBacked`, `VbusRests`, `DelayReturns` of the board support; `TickIsTrue`, `TicksServed` of the tick; `BoardRuns` | 4 looks at the crystal, delays of 0, 1 and 3 periods, 2 for `ConfigVBUS`; real clock frequencies |
| `reset_thread` | the ChibiOS build: `RtTypeOK`, `ReadyOnlySuspended`, `DroppedOnlyInReset`, `PortBacked`, `VbusRests`, `AcceptedIsDone` | the code's sleeps in system ticks of 10 ms: 20 in `ConfigVBUS`, 20 and 1 in a reset, 50 after an enumeration |
| `spp_one` | `SppTypeOK`, `OpenIsCounted`, `Served` | two channel ids, one channel at a time |

Why these bounds are enough. The driver tells frame numbers apart only through
`(cur_fn - evt_tmo) % FRNUM_PERIOD < FRNUM_PERIOD / 2`. A period of 6 or 8 with
lags of 1 or 2 shows all the cases: deadline to come, just passed, passed by the
largest lag, and every one of them across the wrap; 0x4000 only adds frames in
which nothing happens, and the theorems of section 4 are for every period. The
driver keeps at most one packet per direction and endpoint, so no second one can
add a case. Three chunks of firmware give a first, a middle and a last one, the
last one short; an image of whole chunks ends in the same step. The constant
`MaxLag` bounds how many frames pass between two event polls; the dongle may answer
at any time or never. `stack_any` gives no endpoint that receives an error for an
answer: the driver does with it what it does with no answer at all, or, on the event
endpoint, with a NAK. Four looks at the crystal give a first, a last and two in
between, at each of which it may have started or not; the real time-out adds looks
of the second kind. Delays of 0, 1 and 3 give one that ends with no period, with the
first and with a later one; a nested delay may be shorter or longer than the one it
cuts into.

`OnlyLateLost` says what a late poll may cost. The time-out of state 1 comes before
the look at the URB (usbh_bt_core.c:265), so an event that is there when its poll is
given up is overwritten by the next. Nothing in the code bounds how late a poll
comes (printing, a control transfer and the 500 ms after an enumeration all lie
between two), so this does happen, and `stack_any` has it happen. The property is
that it is the only way to lose a packet: the driver gives a poll up by a look that
reads the frame number 2 frames or more after the arming and by no other, however
the number wraps; and a packet that is handed up reaches the stack and no dummy.
Nothing in the repository promises more, so the loss is stated here and not as a
finding.

`SentMeansOnWire`, that a packet reported as sent was taken by the dongle, is
what `HciPort`'s `Announce` says: a passing run checks it in `ImplementsPort`, and
by its own name it is what `stack_swallow` finds violated and what a theorem
states of dongles that halt no IN endpoint. A halted ACL-out does not break it: its
clear request is out only while an ACL packet holds the transport, so that no
command can take its end.

`EventAfterSent` is why BTstack may send a command from the handler of a
command's answer: commands are polled before events, and while a control transfer
is out nothing is polled. There is no such order for ACL.

`TxEnds` names one end besides the free transport and the stack switched off:
`Wedged`, a transport that keeps a packet nobody will report. There are three ways
into it: a command given up (`cmd-fail`), and an ACL packet that failed or was
refused (NAK), both of which `usb_bt_aclo_process` takes for "not yet". The run
has them all, and `WedgedTillPowerOff` proves that only the end of the stack mends
them. `LoadEnds` has the loader's counterpart, `Spins`.

The delay properties count TIM2 periods: `UncutDelayLongEnough` and `VbusRests` say
that as many periods pass as were asked for. On the PLL's clock one of them lasts
0.857 ms and not 1 ms, which is what `delay_ms` finds.

`SetUpWhole` has two endings. When the crystal does not start, the core stays on
16 MHz, `SetSysClock` says nothing (its `else` is empty, system_stm32f4xx.c:419)
and the variable `SystemCoreClock` claims 168 MHz. `TickIsTrue` holds in both,
because `my_usb_bsp_init` asks `RCC_GetClocksFreq`, which reads the registers and
`HSE_VALUE`; with the value of another board's crystal in its place, or with
`SystemCoreClock`, TLC finds the tick wrong; USB, which needs 48 MHz, does not
work then, and no part of the code notices.

### Runs that show a disagreement

| run | what happens |
|---|---|
| `stack_cmd_fail` | a control transfer that fails frees the driver (`cmd-fail`) and tells nobody: `tx_busy` stays set and the transport refuses every packet |
| `stack_swallow` | the event endpoint is halted, `USBH_ClrFeature` has its request out, a command is queued, and the next `USBH_CtlReq` returns the clear request's success to the command: BTstack is told that a command was sent which never was |
| `delay_cut` | a reset in the OTG_FS interrupt delays, leaves `BSP_delay` at 0, and the delay of main it cut into ends at once |
| `delay_ms` | the period of a millisecond is 72000 timer clocks, but the clock set-up gives the timer 84 MHz: it lasts 0.857 ms |
| `spp_reply` | the reply to a link-key or PIN request finds the transport busy; `hci_send_cmd`'s result is ignored and the dongle is never answered |

### Fairness

`stack_live` assumes: the run loop keeps calling `USBH_Process` (weak fairness of
the main thread, which never blocks); frames pass (weak); a dongle that stays
ends a control transfer with success if it is asked over and over, and takes an
ACL packet if it is offered over and over (strong). The two strong assumptions
are about the dongle: without them a dongle that halts or refuses commands for
ever keeps the transport busy, which is no fault of the code. They help no packet
that has been refused or has failed: the driver offers it no more. `fw_load` assumes
the same.

`board` assumes that the processor goes on, that PLLs lock and that the timer
counts (weak); nothing is assumed of the crystal, and `BoardRuns` holds without
it. Main, the interrupt that delays and SysTick get their turn if they could run
over and over (strong), since interrupts come in between: a port that asked for
resets without a pause, each of them at the very end of the last, would starve
them on the real board too, and a port event takes longer than a handler. That a
delay inside the interrupt can end at all is not assumed: it follows from the
priorities, and with OTG_FS at the timer's level TLC finds SysTick waiting for ever.

`reset_thread` assumes that system ticks come (weak), and that the reset thread
takes a step if it has the processor over and over (strong: it needs far less
than a quantum between two waits). That it gets the processor is not assumed:
main never waits in its run loop, so it follows from the round robin alone, and
with a `CH_TIME_QUANTUM` of 0 TLC finds a request that is never carried out.
`spp_one` assumes that time passes, that the transport and the dongle end what
they were given (weak) and that RFCOMM does not refuse a number on an open channel
for ever (strong).

## 4. What is proved

Every theorem is for all values of the constants that meet the named assumptions
of the module that declares them (`HostLibAssumption`, `PacketSizesAssumed`,
`FwLoadAssumed`, `TimeoutAssumed`, `TimesAssumed`, `DelaysAssumed`,
`SppCounterAssumed`), and of the further ones in its statement.

| module | theorem | statement |
|---|---|---|
| `UubtStackProofs` | `TypeCorrect` | `[]TypeOK` |
| | `SendsAlwaysTaken` | what the transport accepts, the driver accepts: with any dongle |
| | `TxAlwaysAccounted` | `[]TxAccounted`, if control transfers do not fail |
| | `OnlyFailureWedges`, `WedgedTillPowerOff` | what happens to it if they do: only a command given up parts the two records, and nothing but power off mends it; an ACL packet that fails or is refused wedges the transport in the same way |
| | `SentAlwaysOnWire`, `EventsAfterSent` | `[]SentMeansOnWire`, `[]EventAfterSent`, if no IN endpoint is halted |
| | `TxBuffersHeld`, `RxBuffersHeld`, `DetachedIsQuiet`, `NeverTwice` | `[]InFlightHeld`, `[]RxBufferHeld`, `[]DetachedQuiet`, `NothingTwice`, with any dongle |
| | `PortImplemented` | `ImplementsPort`, with any dongle |
| | `RequestsNeverOrphaned` | a control request that is out is being carried or has its answer ready, with any dongle |
| | `AlwaysHeldOrWedged` | a packet the transport holds is with the driver in a state that goes on, or the transport is `Wedged`: with any dongle |
| `PollTimingProofs` | `AlwaysPolledInTime` | `[]PollPeriod`, if `2 * MaxLag <= FRNUM_PERIOD` |
| | `OnlyLateIsLost` | `OnlyLateLost`, for every lateness |
| `FwLoadProofs` | `FwTypeCorrect`, `FirmwareAlwaysInOrder`, `FirmwareAlwaysComplete` | `[]FwTypeOK`, `[]FirmwareInOrder`, `[]FirmwareComplete`, images of any size |
| | `LoadGetsNearer`, `SpinNeverEnds` | the offset moves forward by whole chunks the dongle has taken; a chunk that halted, failed or was refused keeps the loop for ever |
| `ClockSetupProofs` | `ClockTypeCorrect`, `ClockWithinLimits`, `PllAlwaysSound`, `ClockSetUpWhole` | `[]ClockTypeOK`, `[]WithinLimits`, `[]PllSound`, `[]SetUpWhole`, any time-out |
| | `SetUpNeverStuck` | each loop of `SetSysClock` waits for hardware that can still come |
| `BspDelayProofs` | `BspTypeCorrect`, `DelaysLongEnough`, `InterruptAlwaysBacked`, `VbusAlwaysRests` | `[]BspTypeOK`, `[]UncutDelayLongEnough`, `[]InterruptBacked`, `VbusRests`, delays of any length |
| | `DelaysNeverStuck`, `DelaysCountDown` | a delay that waits has count zero or a timer that runs and may interrupt; its count goes down with each interrupt, and up only when a reset begins |
| `NoOsBoardProofs` | `BoardSetsClocks`, `BoardDelays` | the board is a clock set-up and a board support package as those modules specify them |
| | `TickAlwaysTrue` | `[]TickIsTrue` |
| `ResetThreadProofs` | `RtTypeCorrect`, `ReadiedOnlySuspended`, `DropsOnlyInReset`, `PortAlwaysBacked`, `VbusAlwaysRests` | `[]RtTypeOK`, `[]ReadyOnlySuspended`, `[]DroppedOnlyInReset`, `[]PortBacked`, `VbusRests`, sleeps of any length |
| | `NobodyStarves` | the turn of a thread that waits comes nearer with every tick |
| | `AcceptedAlwaysDue`, `AcceptedGetsNearer` | an accepted reset begins within its delay and two quanta, not counting the reset thread's own ticks; the ticks that remain get fewer |
| `SppCounterProofs` | `SppTypeCorrect`, `OpenAlwaysCounted` | `[]SppTypeOK`, `[]OpenIsCounted`, any channel ids, one channel |
| | `OnlyBusyLosesReplies` | a reply is lost only if it is sent into a busy transport |

The conditions are necessary: `stack_cmd_fail` and `stack_swallow` are what
happens without them. `OnlyFailureWedges`
and `OnlyBusyLosesReplies` say the converse of `stack_cmd_fail` and `spp_reply`:
the step that run ends in is the only one that breaks the property.

The argument. Few of the properties are inductive as they stand. Each invariance
proof has one step per action; the strengthenings are these.

* `TxHeldInv` holds with any dongle: the driver never holds more than `tx_busy`
  counts, the stack is on exactly while the class runs, both flags are clear when
  it is switched on, a callback for a packet runs only with that packet's flag
  set, an ACL packet that is done is on the wire, and the transport's callback is
  registered while the stack is on. The packet sizes matter here: a packet refused
  for its size would leave `tx_busy` set with no flag behind it. That `tx_busy`
  counts no more than the driver holds is then lost in one step, `CmdFail`, which
  needs a control transfer that failed (`CtlNeverFails`).
* `PipeInv` adds to `SentMeansOnWire` that any request that is out is the
  command's own: its setup packet and buffer are still the command's, and it has
  reached the dongle when it is complete. Only the clear request of an IN endpoint
  can come between; the one of ACL-out has the transport to itself. Lemmas give
  the three ways `USBH_CtlReq` can act, so that no proof expands it.
* `EventInv` says that a command which the dongle has taken and which still
  counts as busy is found complete by the next pass: it is seen only at `loop`,
  `cmd` and `cmd_end`.
* `BufferInv` gives each busy channel and each running control transfer the
  driver state that owns its buffer, and each waiting IN endpoint whose transfer
  is done an arrived packet; the three properties of buffers, and that nothing
  is handed up twice, follow.
* `PortImplemented` maps the stack to `HciPort`: the packet is read off the flags,
  its phase off `pc` and `wire`. `PortStep` shows, action by action, that each
  step is a step of the port or leaves it as it is, with `TxHeldInv` for the
  packet, and either `PipeInv` for the phase (a packet is announced only from the
  wire) or the port's own fault: `CmdFail` is `Stick`, and a command announced
  before its time is `Misreport`, which `InMayHalt` allows.
* `WaitsInv`: a control request that is out is being carried or has its answer
  ready, and an ACL packet that is out is not in an idle channel. With `TxHeldInv`
  it gives `HeldOrWedged`: of all the states a held packet can be in, the ones with
  nobody left to move it are those of `Wedged`.
* `PollInv` ties the frame number, the driver's copy of it and the deadline to
  the frame of the arming, and bounds the age of that arming: by `MaxLag + 1` when
  a poll looks, by 1 once it has looked and not re-armed. The lemmas before it are
  the arithmetic of a counter that wraps: what an age is, how it grows, and that
  the driver's modular test tells 2 frames and more from fewer as long as ages
  stay below half the period.
* `TmoInv`, a part of it, says that a poll of the endpoint that is out has its
  deadline 2 frames after its arming, so that the modular test that gives it up
  (`GivesUpLate`) is a test of its age; `OnlyTheseGiveUp` names the steps that leave
  state 1 at all. `FreshInv` adds which packets have arrived and are not handed up,
  and that the callbacks are registered while the stack is on.
* `FwInv` counts: what the dongle has is `fw_offset`, plus `n` once the chunk that
  is out is done. `Append` lemmas carry "in order" over one more chunk.
  `ControlInv` adds that no control request is out in the chunk loop but the one
  that would clear a halt, which nobody carries.
* `ClockInv` says, for each point of the set-up, what is written so far, and that
  the PLL is ready only behind a ready crystal. From it all registers, and so all
  clocks, are known at each point, and the four properties are arithmetic.
* `BspInv`: `StageInv` gives what each call of `USBH_Init` has set up; `DelayInv` that
  outside of delays the timer is off with nothing pending, and that while main
  waits undisturbed the count is at least the periods still owed, and one more
  when an update is pending; `VbusInv` that the time VBUS has been off and the
  time still owed make up the delay. `CountInv`: whoever waits has a count of zero
  or a timer that runs, because a reset leaves its loop with a count of zero.
* The board is shown to be an instance of `ClockSetup` and of `BspDelay`, whose
  theorems then hold of it. `TickInv` says that SysTick's reload value was computed
  from the clock the core now has: the clocks do not change once main runs.
  `ComputedIsTrue` shows that what `RCC_GetClocksFreq` computes is that clock on
  either source. `MainOrder` gives the order of main's calls.
* `RtInv`: `SchedInv` (the processor is with a ready thread if there is one),
  `ThreadInv` (who sleeps, who has been given what), `HandoverInv` and `BoardInv`.
  `Turn` counts the ticks after which a thread has the processor at the latest,
  `Remaining` those after which an accepted reset begins; that both go down with
  the ticks is the round robin of `Reschedule`, case by case. `DroppedOnlyInReset`
  rests on the order of start-up: the thread is created at main's own priority,
  and only because main sleeps in `ConfigVBUS` before it enables the interrupt is
  the thread sure to have reached its loop when the first request comes.
  `HandoverInv` says so: while the thread has not suspended for the first time,
  main is before that sleep or in it.
* `ChannelInv`: with memory for one channel at most one id is in use, and the open
  one is `rfcomm_channel_id`.

### Only model-checked

* Liveness (`TxEnds`, `EvtRearmed`, `LoadEnds`, `DelayReturns`, `TicksServed`,
  `BoardRuns`, `AcceptedIsDone`, `Served`): fairness and ENABLED are out of the
  prover's reach. The part of the argument that is safety is proved for all
  constants: that what is waited for can still come (`RequestsNeverOrphaned`,
  `AlwaysHeldOrWedged`, `DelaysNeverStuck`, `SetUpNeverStuck`), that it comes nearer
  (`LoadGetsNearer`, `DelaysCountDown`, `NobodyStarves`, `AcceptedAlwaysDue`,
  `AcceptedGetsNearer`), and why the exceptions the properties make are needed
  (`WedgedTillPowerOff`, `SpinNeverEnds`).
* That the five disagreements are real: they are counterexamples.

No module has a RECURSIVE operator, and no theorem needs an induction over data.

## 5. What is not modelled

* BTstack and ST's library beyond what section 2 assumes of them.
* Contents and formats of packets, printing, packet dumps, LEDs, shared memory.
* Code that is compiled out of this board's builds: the OTG_HS and ULPI branches
  and the busy-wait delays of `clones/usb_bsp.c`, the external memory of
  `system_stm32f4xx.c`, the USARTs of `newlib_stubs.c`, and what `chconf.h` and
  `halconf.h` switch off.
* `newlib_stubs.c`. `_sbrk` refuses every request, since `__get_MSP`
  (newlib_stubs.c:12) returns 0 and not the stack pointer, and nothing in the
  repository calls malloc; the other stubs return constants; `_exit` loops for ever
  and nothing calls it.
* `SystemCoreClockUpdate`: nothing calls it.
* `USB_OTG_BSP_uDelay` of the ChibiOS build: a loop that touches nothing.
* Between `GPIO_Init` and the write that follows it the pin of the VBUS switch is
  an output at its reset level, which enables the switch for some cycles; the
  models let `ConfigVBUS` set it off at once.
* The over-current interrupt (EXTI9_5) is enabled and has no handler; its line is
  never configured, so it never fires and the models give it no step.
* What `USB_OTG_ResetPort` does to the port's register when main and the ChibiOS
  thread are both in it: its code is not in the repository.
* A power cycle of the stack in `SppCounter`: what BTstack tells the demo about
  its channels then is not visible in the repository.
* A nested reset may itself be one period short, if main's timer comes to its end
  between the store to `BSP_delay` and `BSP_SetTime`. `BspDelay` has this
  behaviour; no property is stated about the interrupt's own delay.
* How a sleep of one tick in ChibiOS may end almost at once: the only such sleep is
  in the library's port reset.

## 6. Plan

Done: driver, transport and library with their abstract port; the loader; both
board glues from reset; the demo; a proof of every invariant and action property
that a passing run checks, of the refinement, and of the safety part of the
liveness arguments. What is left is small:

1. `SppCounter` over the real transport: the demo's commands in `UubtStack` in place
   of an environment. What it could add is bounded by what is known of BTstack's
   own queueing, which is not in the repository.
2. Properties of the interrupt's own delay, once the library's port reset, which
   calls it, is known.

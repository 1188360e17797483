# Formal models of the EtherCAT servo node

This directory holds TLA+ models of the repository's own code: the firmware of
an EtherCAT slave (an ESP32-S3 behind an AX58100 ESC) and the Raspberry Pi
master that drives it. TLC checks the models on small instances, and TLAPS
proves their safety properties for every value of the constants.

## The system

```
 Pi master (SOEM)  --frames-->  AX58100 ESC  <--SPI--  ESP32-S3 firmware --> axis
 master/src/*.c                 registers,             firmware/src, /soes
                                process data           SYNC0, SINT (interrupts)
```

| Component | State it keeps | Operations | Hard behaviour |
|---|---|---|---|
| Legacy slave `ecat_slave.c` | copy of SM2/SM3, `cur_state`, `last_angle`, `angle_applied` | `ecat_slave_init`, `ecat_slave_poll` | each poll is a series of SPI transactions, and the master may act between any two; SPI writes fail unnoticed; restarts |
| SYNC0 pacing `sync0.c` | semaphore, edge count, `locked`, `last_edge_ms` | edge interrupt, `sync0_pace`, `sync0_notify` | interrupt against timeout, coalesced edges, lock and unlock by time, counter width |
| Stepper axis `stepper.c`, `step_math.h` | last commanded steps, interval, limit | init, `set_angle`, `actual_angle`, two CoE setters | controller calls fail, limits change during a move, rounding |
| Servo axis `servo.c` | last angle written | `set_angle`, `actual_angle` | reports the command as the position |
| Firmware `main.c` | which actuator, which stack | bring-up, loop, callbacks | a failed actuator runs the bus without motion |
| SPI transport `ax58100.c` | none | `esc_read`, `esc_write` | termination byte of a read, errors |
| SOES glue `soes_app.c`, `esc_hw.c` | `last_applied`, object 0x8000, watchdog edge | output and input callbacks, SDO hooks, loop | woken by two signals, watchdog counted in iterations |
| SINT `esc_irq.c` | semaphore, mask, `armed` | interrupt, re-arm | level-triggered line, masked by its handler |
| Master bus driver `ecat.c` | expected counter, DC phase and integral | open, to OP, cycle, request state, close | shutdown ladder, retries, phase loop |
| Master commands `main.c`, `angle.c` | loop counters | `run_loop`, `run_move`, sweep | park and arrival, deadlines |
| Tools and scripts | files | EEPROM write, ESI conversion, verification | backup and restore |

The master and the slave share the ESC's registers and its process data. The
two stacks call the actuator through callbacks. The interrupts only give
semaphores, and the loop waits for them. CoE writes reach `stepper.c` through
the SOES hooks.

What makes each part correct:

* slave: the axis moves only in OP and only on a validated configuration, each
  spell of OP delivers its first target, no target is repeated, each request is
  answered, the image tells the truth;
* pacing: a running clock is followed, a stopped one is noticed in bounded
  time, no backlog, no flapping, no lock on a glitch;
* axis: what the driver believes is what the controller does, targets stay in
  the limit, the reported angle is the nearest to the position;
* master: a command ends, and leaves the bus in INIT and quiet; the way down
  never drives a slave into a refusal or starves one in OP; arrival means
  arrival; the cycle settles at a fixed phase of the bus clock.

## Modules

| Module | What it is |
|---|---|
| `AlGate` | the abstract promise about motion: a gate that opens only from SAFEOP and through which each target passes once |
| `EcatSlave` | the legacy slave with the ESC's registers, the master, the axis, faults and restarts |
| `EcatSlaveMC` | its instances for TLC |
| `EcatSlaveProofs` | its theorems |
| `Sync0` | interrupt, semaphore, loop and time, for both loops (`soes`) |
| `Sync0Proofs` | its theorems |
| `StepMath` | the two conversions of `step_math.h` |
| `Stepper` | `stepper.c` on the motion controller |
| `StepperMC` | its instance at the shipped resolution |
| `StepMathProofs` | lemmas on division, and what the two conversions return |
| `SoesApp` | the SOES glue over the stepper axis: callbacks, dictionary, image |
| `SoesAppMC` | its instances |
| `AxisProofs` | the theorems of `Stepper` and of `SoesApp` |
| `EscIrq` | the SINT line, its handler and the loop it wakes |
| `EscIrqProofs` | its theorems |
| `EcMaster` | the master's bus driver `ecat.c` and the bus under it, as a library |
| `Commands` | `main.c` on `EcMaster`: one process from start to exit |
| `CommandsProofs` | its theorems |
| `RunMove` | `run_move` on the slave's image and an axis |
| `RunMoveProofs` | its theorems |
| `DcLoop` | the DC phase loop of `ecat.c` |
| `MasterMath` | the master's pure functions and the servo's pulse |
| `ArithmeticMC` | `StepMath`, `MasterMath` and `DcLoop` against their definitions |
| `ArithmeticProofs` | its theorems |

`Commands` extends `EcMaster`, `SoesApp` extends `Stepper`, which extends
`StepMath`; `ArithmeticMC` extends the three arithmetic modules.

### EcatSlave and the code

`pc` is the SPI transaction `ecat_slave_poll` performs next. Each action of
`Poll` is one transaction with the computation that follows it up to the next.

| Action | Code |
|---|---|
| `SlaveInit` | `ecat_slave_init`, which writes INIT to AL Status |
| `ReadControl` | `esc_read8(AL_CONTROL)`, the mask and the switch |
| `ReadSm2`, `ReadSm3` | `enter_safeop`: the copy is overwritten, then checked |
| `RefuseCode`, `RefuseStatus` | the two writes of `refuse_transition` |
| `ReportState` | `report_state` after a granted request |
| `ReadOutputs` | first half of `exchange_process_data`, with `apply_angle` |
| `WriteInputs` | the second half, with `actuator_actual_angle` |
| `Move` | the motion controller advances one degree (external) |
| `Restart` | the ESP32 resets; the ESC keeps its registers |
| `RequestState`, `ProgramSm`, `WriteOutputs`, `MasterRestart` | the master: `ecat_request_state` and SOEM |

A transaction that fails leaves the register or the copy alone and is not
noticed when it is a write: that is what the code does. The 16 bits at ESC
address 0, which a slave reads when its copy of SM2 is empty, are a constant
(`RegisterWord`). Addresses, lengths and angles are small sets: the code treats
an angle only as equal or different, and a length only as right or wrong.
`delivered`, `got` and `strobe` are history: the target the actuator was called
with in this spell of OP, whether this poll has read an output word, and a bit
that flips on each call.

### Sync0 and the code

Time is in milliseconds. `Pace`, `TakeEdge` and `WakeWithoutEdge` are the wait,
`Notify` is `sync0_notify`, `WorkDone` ends the rest of an iteration. `soes` is
the build, chosen at the start: in the SOES loop the wait always has the long
timeout and SINT may end it at any moment. `age` is `k_uptime_get() -
last_edge_ms`, which matters only up to the timeout. The model starts after
`sync0_init` succeeded. `seen`, `quiet`, `fresh` and `steady` are history.

### Stepper and the code

One action for each function of `stepper.c`, with a branch for a controller
call that fails, and `EmitStep` for the controller, which is external: a call to
move restarts its timing source, and it latches the interval when a move starts
(`StartMove`, after stepper.h:103-104). So `ctrl_interval`, what it was given
last, is what the next move will be stepped at, and `move_interval` what the one
in flight is; steps are not timed. The arithmetic is exact:
`angle_to_steps` and `steps_to_angle` are the C expressions, and within the
assumptions on the constants the 32-bit products do not wrap.

### SoesApp, EscIrq and the code

`SoesApp` extends `Stepper`: each of its actions is a callback or hook of
`soes_app.c` together with the call it makes of `stepper.c`. SOES is external
and calls them from one thread, so only the step timer (`Step`) comes between.
A download is one action, the pre hook with its range check and controller
call, SOES's store and the post hook's reading back, with a branch for each way
it can end. `soes_app_run` is the start: `actuator_bring_up` with or without
success and the seeding of the dictionary. `last_applied`, `Axis` and `Inputs`
are the C variables; the read-only entries of 0x8000 are constants, and a
download to them or of the wrong size changes nothing. The sentinel of
`last_applied` is a value a master can send, and it does so in the run. A download
during a move is for the next one: `DictionaryTrue` says that 0x8000 reads back
what the axis and its controller hold, and that each move is stepped at what
0x8000:01 held when it started.

`EscIrq` follows the loop of `soes_app_run` by `pc`: the wait, the read of the
event register in `ESC_read`, the serving by SOES (external: it clears the
events of its copy), the re-arming. `on_irq` may come between any two of them.
The wait ends with SINT's permit, or without it by SYNC0 or the timeout; the
second may happen although a permit was given meanwhile, as `k_poll` reports
what it saw. It starts after `ecat_slv_init`. The ESC's event mask is empty
then, or still what the firmware had written before a restart of the ESP32
alone: soes_app.c:233 says that `ESC_init` resets the chip, but the `ESC_init`
of esc_hw.c:75-81 does nothing, and no reset line is wired. `unread` is
history: interrupts since the loop came to its read.

### EcMaster, Commands and the code

`pc` is the next exchange with the bus that `ecat.c` performs, or where `main.c`
is between two of them.

| Action | Code |
|---|---|
| `Enumerate`, `OpenFails` | `ecat_open` |
| `ConfigMap`, `AwaitSafeop` | `ecat_to_op` up to SAFEOP; the request for it is made by `ec_config_map` |
| `ActivateSync0`, `FreeRun` | SYNC0 switched on, or no DC in the slave or `SERVO_DC=0` |
| `FirstExchange`, `RequestOp`, `OpExchange`, `OpCheck` | the request for OP and its 41 checks |
| `Close`, `ReadState` | `ecat_close` and the first read of `ecat_request_state` |
| `Rung`, `RungExchange`, `RungCheck` | the ladder: skip or write, then up to 50 exchanges and checks |
| `Dispatch`, `Up`, `Down`, `Exit`, `Probe` | `main` |
| `HoldCycle`, `HoldStops` | `run_loop`, for `op`, `set` and `sweep` |
| `Parked`, `Travel` | the two loops of `run_move`, as far as the bus sees them |
| `Sdotest`, `SdoRead`, `SdotestEnds` | `ecat_sdo_during_op` |
| `WdFeed`, `WdSilence`, `WdEnds` | `ecat_watchdog_test` |
| `Signal` | `on_stop_signal`, which only the two loops look at |

Each exchange may be lost (`MaxLost`). The slave is an environment: it answers
the request in AL Control when it likes, by granting or refusing it, or ignores
it while an error stands that the request does not acknowledge; it falls out of
OP when its watchdog has run out, and may fail or restart at any time
(`MaxUpsets`). SOEM is external: a check reads AL Status until it shows the
state or its time is over, a read nobody answers leaves 0, and AL Status is
read with its error bit, as `ecat_request_state` uses it. `silent` is the time
since the last process data, up to the watchdog; the mailbox read of `sdotest`
and the silence of `wdtest` jump it to the end. `stubborn`, `blind`, `wasOp`,
`clocked`, `dropped` and `mute` are history: what the slave and the program did
that a property makes an exception for.

### RunMove and the code

`run_move` from the moment `ecat_to_op` has succeeded: `Parking`, `StartMove`,
`Travel` and `GiveUp` are its loops and what is between them, `Cycle` is
`ecat_cycle` with both images, `Poll` is `exchange_process_data` on the other
side. The ESC's inputs and the axis start as an earlier run has left them, with
an output image of zero already exchanged, as `ecat_to_op` does. The axis is a
stepper that moves by degrees or a servo that is always there.

### DcLoop, MasterMath and the code

`DcCycle` is `ecat_dc_correction` and the sleep it corrects, in nanoseconds;
`bus` is the time the slave stamps on the frame, kept below two cycles, and
`drift` is how much the Pi's cycle is off. C's division and remainder go
towards zero (`CDiv`, `CMod`). `MasterMath` has the pure functions as operators:
times are whole milliseconds, so the sweep's last-bit rounding is not modelled,
and `angle_to_pulse` is 180 times the pulse, a whole number. The two loops of
`cycle_sleep` are recursive functions.

`ArithmeticMC` states what is right of each function by itself: `Nearest`,
`RoundTrip` and `ReportInRange` of the axis's conversions (together
`AxisConversions`), `SweepSmooth`, `PulseAgrees`, `DeadlineRight` and
`BytesRoundTrip` of the master's functions (together `MasterFunctions`).

## Runs

| Run | Asks | Bounds |
|---|---|---|
| `slave` | does the slave keep the gate's promise, and can the master trust what it reads? | one fault: an SPI transaction, a rejected target, a restart, or a wrong length in SM2 or SM3 while it lasts; all requests |
| `slave_live` | is each request answered, a standing target reached and reported? | one SPI fault |
| `sync0` | is the clock followed and given up in time, by either loop, without flapping? | work of 0, 1 and 6 ms, a cycle of 5, a timeout of 13; two glitches |
| `soes_app` | do dictionary, image, belief and controller agree? | 400 steps per revolution, four targets and the sentinel, four limits, one failing call |
| `esc_irq` | is any event lost, slept over, or served too often? | three events, one of them masked; two failing reads |
| `arithmetic` | are the conversions, the sweep, the pulse, the deadline and the SDO bytes right, and does the phase loop lock? | every angle and count of a revolution at eight resolutions, 32 s of sweep at five periods, corrections of -32 to 32 ms; 120 starts of the phase loop |
| `master` | is the bus left in INIT and quiet, a willing slave served, each command ended? | two retries, two lost frames, one upset; the real times of the watchdog |
| `run_move` | is an arrival one, and does an echo show? | a park of 4 cycles, 5 to arrive, a trace of 2; two lost frames, one missed poll |

Why the bounds are enough. The slave compares angles for equality only, so two
targets show each case of its gate. One SPI fault at any of the transactions
shows what a lost transaction does; the code keeps no count of them, and the
proofs cover any number and combination. The work times of `sync0` are shorter
than a poll, between a poll and a cycle, and longer than a cycle; the cycle and
the timeout are half the code's 10 and 25 ms, in the same ratio, which lets both
loops be checked in one run, and the proofs cover the code's own figures. Two
glitches make a lock with one true edge. `QuietCap` is above `StopBound`, the
longest silence a locked loop may not have noticed. The `soes_app` run uses 400
steps per revolution (half steps), where `ImageConverges` holds; `ReportNearest`
is what holds at 200 too, and it is proved for every resolution. In `master`
two retries show a loop that goes round, and one that gives up, with a late
answer before, between and after; the code does the same at each of its 40 and
50. Two lost frames can hit a write and the check that would have shown it. In
`run_move` the park must outlast the lost frames and missed polls
(`RunMoveAssumption`), as 200 cycles do; the trace of two places overflows. The
phases of `arithmetic` are those around the lead, half a cycle from it and the
end of the cycle, with drifts up to 10 ppm and 200 frames lost at first.

The runs of expected violations document where the repository says one thing
and its code does another; for `interval_in_flight` the other is what a second
comment says of the external controller, so one of the two comments is wrong:

| Run | The text | The code |
|---|---|---|
| `lost_report` | README: SAFE-OP refuses to act on commands | a lost AL Status write leaves the master reading SAFEOP while the axis moves |
| `interval_in_flight` | comment on 0x8000: a new step interval takes effect immediately | the controller, as stepper.h describes it, keeps a move in flight at the interval it latched; 0x8000:01 already reads back the new one |
| `sync0_glitch` | comment: one spurious edge is not enough | it is, after the first lock, as the count is not reset |
| `stepper_converges` | comment: actual converges on arrival | not at 200 steps per revolution, the overlay's setting: most degrees lie between two steps |

More limits of the code show in how the properties are stated, and are
listed as hazards: a rejected target is echoed all the same (`EchoIsAccepted` is
for a history without rejections); an acknowledge does not clear the error bit;
a request for SAFEOP made in OP overwrites the copy of SM2 and SM3 first, so that
its refusal leaves the slave in OP with the new one (`SafeOpValidated` is for
SAFEOP);
the signed edge count wraps after 248 days at 100 Hz, and an unlocked loop then
does not lock (`PromptLock` is for a count of at least 3, `ClockFollowed` for a
count that does not wrap); a limit lowered below the shaft hides its position
(`ReportNearest` is for a shaft inside the limit); a target that an old limit
clamped is not sent again when the limit is raised, and a SOES node whose axis
failed to start publishes the command as its position (`ImageConverges` is for
a node with its axis and a target inside a standing limit); a first target of
0xffff is taken for one applied before (`EchoWasSent` leaves the sentinel out). On the master's
side: a walk down whose first read nobody answers does nothing and reports
success (`LeftInInit` excludes it by `blind`); a lost frame between two waits of
50 ms already reaches the watchdog's 100 ms (`FedInOp` is without lost frames);
a SYNC0 switched off by a frame that is lost stays on (`QuietWhenLeft` likewise);
`wdtest` passes although the slave never left OP; and `run_loop` does not notice
a slave that did.

## Fairness

`EcatSlave`: weak fairness of `Poll` (the main loop polls for ever and each SPI
call returns) and of `Move` (the step timer is an interrupt). Nothing is assumed
of the master: the liveness properties have the form "if the master keeps
asking". `Sync0`: weak fairness of the loop's steps, of time, and of the next
edge of a running clock; of time strongly, as SINT may wake the SOES loop any
number of times in a millisecond, and milliseconds pass all the same. `Stepper`: weak fairness of the step timer only.
`SoesApp`: of the step timer and of the input callback, which SOES calls every cycle while the bus
holds SAFEOP or OP. `EscIrq`: of the loop, whose wait ends at its timeout of
25 ms at the latest; none of the interrupt, so events are served without it.
`Commands`: of the program, whose calls of SOEM and the kernel all return; none
of the slave, so commands end whatever it does. `DcLoop` and `ArithmeticMC`: of
the cycle, which `clock_nanosleep` ends.
Deadlock is checked where the system cannot stop (`Sync0`, `EscIrq`); elsewhere a model
with its bounds used up may stop, or a behaviour may end at the last input.

## Proofs

All proofs are of safety. No run's bound is an assumption of any of them: the
numbers of faults, targets, configurations, timeouts and resolutions are
arbitrary.

* `EcatSlaveProofs`. The invariant `IInv` is the type invariant with three
  parts. `PollInv` says what each place in the poll knows: a slave in SAFEOP,
  or about to report it, has a validated copy, and OP is reported only from
  SAFEOP. `SpellInv` says what `angle_applied` stands for: it is set exactly
  when a target was delivered in this spell, and that target is `last_angle`.
  `VisibleInv` relates `cur_state` to AL Status while no fault has happened.
  From them follow the safety properties of the `slave` run, and that each step
  of the slave is a step of `AlGate` or a stutter.
* `Sync0Proofs`. `TimeInv` bounds the silence at each place of the loop by what
  is left of the wait or of the work; without the term for an edge that waits
  in the semaphore while the loop works it is not inductive. `LockInv` says the
  count is at least the edges seen and where the loop must be when enough are
  seen and it is not yet locked.
  `NeverFlaps` rests on `PaceInv`: while the clock runs and no permit waits, the
  age of the last edge and the rest of the cycle are together at most a cycle, so
  a timeout longer than the cycle cannot pass unnoticed. That it is longer is the
  theorem's hypothesis, which the comment at sync0.c:22 asks of the build (25 ms
  against 10).
* `StepMathProofs`. Division lemmas (`DivNat`, `DivUnique`, `MulMono`) give the
  rounding of both conversions (`AngleToSteps`, `AngleInRange`, `ReportClose`);
  `RoundTripExact` is the whole-degree round trip at 360 steps or more.
* `AxisProofs`. The axis properties follow by one lemma for each kind of step.
  A step of the node is a step of `Stepper` or leaves the axis alone, because the
  callbacks are handed over only for an axis that is up (`HandedOver`); so
  `Stepper`'s inductive invariant and its theorems hold of the node
  (`AxisInNode`), and with them the dictionary, the echo and the node's types
  (`NodeTypes`) are shown right. `IntervalReported` is the axis's half of
  `DictionaryIsTrue`: only a new target restarts the controller
  (`OnlySetAngleMoves`, `OnlyOutputsMove`), and at that moment the interval it
  latches is the one reported.
* `EscIrqProofs`. `WakeInv` (a waiting loop has a permit or an enabled
  interrupt) and `UnreadInv` (which interrupts may have come at each place of
  the loop); without the case for the served part `NoStorm` is not inductive.
* `CommandsProofs`. `IInv` has, beside the types, three parts. `WalkInv` says what
  the walk down may rely on. The rung it is on is not above the slave, unless the
  slave was upset; what it has read is INIT only of a slave in INIT, which no
  request that still stands can move; and a request for PREOP or INIT is the
  last one it wrote. Without the part on standing requests neither `LeftInInit`
  nor `NeverClimbs` is inductive, because of a late grant. `SpellInv` follows the
  one spell in OP of a process: SYNC0 and OP are switched on once, a late request
  for OP finds the slave in neither, a slave that has left does not come back,
  and before each check the slave has just been fed; the last is what bounds
  the silence for `FedInOp`, each single wait being shorter than the watchdog.
  `ServedInv` is about a slave nothing is held against (`Willing`). On the way up
  one request stands at a time and the slave is without an error (`Granted`);
  between two rungs `state0` is the slave's state but for a watchdog that trips
  after the first read (`OnRung`); on a rung the slave has arrived or may still
  grant, because a request to a slave in error acknowledges it (`Descending`).
  That last part is why the first read must see the error bit.
* `RunMoveProofs`. `PolledImage` says that the ESC's inputs are those of the last
  poll: an axis that was at its target then still is. `ParkInv` has the park's
  three stages: no poll has followed a frame (`Unheard`), one has (`Heard`), and
  a frame has brought its answer back (`Settled`). Each lost frame and missed
  poll can delay a stage by one cycle, so a park of more than `MaxLate + MaxLost`
  cycles ends `Settled` (`ParkOutlasts`); without that, inputs of an earlier run
  could show the arrival. `ArrivalInv` and `EchoInv` carry it through the travel:
  old inputs that show the target are true, and a servo's change once.
* `ArithmeticProofs`. `FoldShort` bounds the folded remainder of the clock loop
  for a bus time above and below the lead: the fold needs no lower side as long
  as the lead is at most half a cycle. One lemma for each pure function
  (`NearestHolds` to `BytesHold`) gives `ConversionsRight` and `FunctionsRight`.
  The loops of `cycle_sleep` and of the SDO bytes are recursive functions: each
  is shown to have a solution by writing it in closed form (`UpExists`,
  `ShiftedExists`), and what every solution returns follows from the least input
  for which it would return something else (`NatMin`, `UpReturns`). So
  `Deadline` is exact for any number of turns (`DeadlineIsNormal`), where TLC
  sees one. `ReadBack` is about any value in an object of one to
  three bytes. `FunctionsRight` itself is no wider than `MasterFunctions`, for any
  counter, set of periods and set of start values: times in steps of 10 ms,
  corrections in steps of 20 us, pulses up to 1000 degrees, values in multiples
  of 25 in one to three bytes.

The assumptions are the named ASSUMEs of the modules: `SlaveAssumption`,
`Sync0Assumption`, `CapAssumption`, `StepperAssumption`, `SoesAssumption`,
`EscIrqAssumption`, `MasterAssumption`, `TimeAssumption` (no single wait outlasts
the watchdog), `CommandsAssumption`, `RunMoveAssumption` (the park outlasts what
may be lost), `DcAssumption`, `RangesAssumption`. Two say something of the build:
the register word at address 0 is an angle (it is an unsigned 16-bit value, as
every target is), and the steps per revolution fit the 16 bits in which CoE reports them.
`SoesAssumption` is the code's own: the sentinel is above every limit the axis may have.

Each invariant and each action property of the passing runs is proved, and both
refinements (`GateSpec`, `AxisSpec`).

Only proved: the type invariants of `EcatSlave`, `Sync0`, `EscIrq` and `Commands`
(`TypeCorrect`), `NoRearm`, which the runs check through `GateSpec`, and
`IntervalAgrees` and `MovesAtReported`, which they check through `DictionaryTrue`. That
polling resumes when the clock has stopped for good follows from the bound in
`StopNoticed`.

Only model-checked: liveness (`RequestAnswered`, `TargetReached`,
`ClockFollowed`, `ImageConverges`, `EventServed`, `CommandEnds`, `Locks`), which
is out of the prover's reach.

## Not modelled, and plan

In order of importance:

1. `Node`: slave, stepper and master composed, with the real conversions in the
   place of the one-degree axis of `EcatSlave` and `RunMove`, and the slave of
   `EcMaster` shown to be what `EcatSlave` implements.
2. The safety half of the liveness properties as theorems: a bound on the polls
   that answer a request, and on the cycles in which a command ends. SDO bytes
   for objects of up to eight bytes.
3. A PWM call that fails in `servo.c`; `sync0_init` failing.
4. `SpiFrame`: a transfer's frame in `ax58100.c`. `Commission`: EEPROM backup,
   write, verify and restore of `write-eeprom.sh`.

Left out for good: the SOES, SOEM and Zephyr libraries (external; modelled from
their use; the SOES watchdog's counter is one of them), the bring-up diagnostics
of `diag.c` and the register dump, GPIO probe and button watch of `ecat.c`, which
read and print, the constant tables of the object dictionary, parsing of
arguments, log text, devicetree and build files, the offline ESI converter, and
the shell around ssh and west.

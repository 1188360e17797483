----------------------------- MODULE EcatSlave ------------------------------
(***************************************************************************)
(* The legacy EtherCAT slave (firmware/src/ecat_slave.c) with the ESC      *)
(* registers it shares with the master.  ecat_slave_poll is NOT atomic: it *)
(* is a sequence of SPI transactions, and the master, which reaches the    *)
(* same registers from the wire, may act between any two of them.  Every   *)
(* action of the slave below is one SPI transaction with the computation   *)
(* that follows it.  An SPI transaction may fail (ESC reads return < 0,    *)
(* the results of ESC writes are ignored by the code), the actuator may    *)
(* reject a target, and the firmware may restart at any point.             *)
(***************************************************************************)
EXTENDS Integers

CONSTANTS
  MaxAngle,       \* targets are 0..MaxAngle degrees
  OutCfgs,        \* SM2 configurations a master programs
  InCfgs,         \* SM3 configurations a master programs
  Requests,       \* values a master writes to AL Control
  RegisterWord,   \* what the 16 bits at ESC address 0 read as (Type, Revision)
  HasActuator,    \* did actuator_bring_up return a callback?
  MaxSpiFaults,   \* bound: SPI transactions that fail
  MaxApplyFaults, \* bound: targets the actuator rejects
  MaxRestarts     \* bound: restarts of the firmware

AlStates == {"INIT", "PREOP", "SAFEOP", "OP"}
SmCfg == [addr : Nat, len : Nat]
AlRequest == [state : AlStates \cup {"BOOT"}, ack : BOOLEAN]

ASSUME SlaveAssumption ==
  /\ MaxAngle \in Nat
  /\ OutCfgs \subseteq [addr : Nat \ {0}, len : Nat]
  /\ InCfgs \subseteq [addr : Nat \ {0}, len : Nat]
  /\ Requests \subseteq AlRequest
  /\ RegisterWord \in 0 .. MaxAngle
  /\ HasActuator \in BOOLEAN
  /\ MaxSpiFaults \in Nat
  /\ MaxApplyFaults \in Nat
  /\ MaxRestarts \in Nat

VARIABLES
  \* Registers and memory of the ESC, shared with the master.
  al_control,      \* state the master requests, with the error-acknowledge bit
  al_status,       \* state the slave reports, with the error bit
  al_status_code,  \* why the slave refused
  sm2, sm3,        \* SyncManager configuration: process data out, in
  dpram,           \* the output word at each address SM2 may have
  inputs,          \* the input image last written, and where
  \* RAM of the firmware.
  sm_out, sm_in,   \* the slave's copy of sm2 and sm3
  cur_state, last_angle, angle_applied,
  pc,              \* the SPI transaction ecat_slave_poll does next
  req,             \* the request latched by this poll
  reason,          \* the code refuse_transition was called with
  \* The axis.
  motor,           \* target the actuator accepted
  pos,             \* where the shaft is
  strobe,          \* flips on every call of the actuator
  \* History: what this poll and this spell of OP did.
  got,             \* did this poll read an output word?
  delivered,       \* target the actuator was called with in this spell
  \* Faults used so far.
  spiFaults, applyFaults, restarts

escVars == <<al_control, al_status, al_status_code, sm2, sm3, dpram, inputs>>
ramVars == <<sm_out, sm_in, cur_state, last_angle, angle_applied>>
pollVars == <<pc, req, reason, got>>
axisVars == <<motor, pos, strobe, delivered>>
faultVars == <<spiFaults, applyFaults, restarts>>
vars == <<escVars, ramVars, pollVars, axisVars, faultVars>>

Angle == 0 .. MaxAngle
NoTarget == -1
OutAddr == {c.addr : c \in OutCfgs}
NoCfg == [addr |-> 0, len |-> 0]
PDO_OUT_LEN == 2
PDO_IN_LEN == 6
ESC_ALSC_INVALID_OUTPUT_CFG == 29   \* 0x001d
ESC_ALSC_INVALID_INPUT_CFG == 30    \* 0x001e
Codes == {0, ESC_ALSC_INVALID_OUTPUT_CFG, ESC_ALSC_INVALID_INPUT_CFG}

\* The 16 bits at an address: registers at 0, process data elsewhere.
ReadWord(a) == IF a \in OutAddr THEN dpram[a] ELSE RegisterWord

Init ==
  /\ al_control = [state |-> "INIT", ack |-> FALSE]
  /\ al_status = [state |-> "INIT", err |-> FALSE]
  /\ al_status_code = 0
  /\ sm2 = NoCfg /\ sm3 = NoCfg
  /\ dpram = [a \in OutAddr |-> 0]
  /\ inputs = [addr |-> 0, echo |-> 0, actual |-> 0]
  /\ sm_out = NoCfg /\ sm_in = NoCfg
  /\ cur_state = "INIT" /\ last_angle = 0 /\ angle_applied = FALSE
  /\ pc = "boot" /\ req = "INIT" /\ reason = 0 /\ got = FALSE
  /\ motor = 0 /\ pos = 0 /\ strobe = 0 /\ delivered = NoTarget
  /\ spiFaults = 0 /\ applyFaults = 0 /\ restarts = 0

-----------------------------------------------------------------------------
(* SPI transactions *)

SpiOk == UNCHANGED spiFaults
SpiFault == spiFaults < MaxSpiFaults /\ spiFaults' = spiFaults + 1

\* esc_write to AL Status, whose result no caller looks at.
WriteStatus(v) ==
  \/ SpiOk /\ al_status' = v
  \/ SpiFault /\ UNCHANGED al_status

\* Where the poll goes once the state machine part is over, in state s.
Exchange(s) == IF s \in {"SAFEOP", "OP"} THEN "outputs" ELSE "control"

-----------------------------------------------------------------------------
(* ecat_slave_init and ecat_slave_poll *)

\* Mutant: the flag survives a spell outside OP.
KeptApplied(s) == angle_applied

\* angle_applied once state s is reported.
StillApplied(s) == angle_applied /\ s = "OP"

\* report_state(s) with its SPI write; the poll continues at next.
Report(s, next) ==
  /\ WriteStatus([state |-> s, err |-> FALSE])
  /\ cur_state' = s
  /\ angle_applied' = StillApplied(s)
  /\ delivered' = NoTarget
  /\ pc' = next
  /\ UNCHANGED <<al_control, al_status_code, sm2, sm3, dpram, inputs, sm_out,
                 sm_in, last_angle, req, reason, got, motor, pos, strobe,
                 applyFaults, restarts>>

\* ecat_slave_init, once the actuator is up.
SlaveInit == pc = "boot" /\ Report("INIT", "control")

\* Mutants: no case label for PREOP; OP granted to whoever asks.
DispatchNoPreop(r) ==
  IF r \in {cur_state, "PREOP", "BOOT"} THEN Exchange(cur_state)
  ELSE IF r = "SAFEOP" THEN "sm2"
  ELSE IF r = "OP" /\ cur_state # "SAFEOP" THEN "code"
  ELSE "report"
DispatchFreely(r) ==
  IF r \in {cur_state, "BOOT"} THEN Exchange(cur_state)
  ELSE IF r = "SAFEOP" THEN "sm2"
  ELSE "report"

\* Where the transition asked for leads, decided in the same poll: BOOT (the
\* default case) and the present state lead nowhere.
Dispatch(r) ==
  IF r = cur_state \/ r \notin AlStates THEN Exchange(cur_state)
  ELSE IF r = "SAFEOP" THEN "sm2"
  ELSE IF r = "OP" /\ cur_state # "SAFEOP" THEN "code"
  ELSE "report"

\* The poll reads AL Control and masks the acknowledge bit off.
ReadControl ==
  /\ pc = "control"
  /\ \/ /\ SpiOk
        /\ req' = al_control.state
        /\ pc' = Dispatch(al_control.state)
        /\ reason' = ESC_ALSC_INVALID_OUTPUT_CFG
     \/ /\ SpiFault
        /\ UNCHANGED <<req, pc, reason>>
  /\ got' = FALSE
  /\ UNCHANGED <<escVars, ramVars, axisVars, applyFaults, restarts>>

ReportState == pc = "report" /\ Report(req, Exchange(req))

\* enter_safeop: SM2 first; the copy is overwritten before it is checked.
ReadSm2 ==
  /\ pc = "sm2"
  /\ \/ SpiOk /\ sm_out' = sm2 /\ pc' = "sm3"
     \/ SpiFault /\ UNCHANGED sm_out /\ pc' = Exchange(cur_state)
  /\ UNCHANGED <<escVars, sm_in, cur_state, last_angle, angle_applied, req,
                 reason, got, axisVars, applyFaults, restarts>>

\* Mutant: the length of SM3 is not checked.
OutLengthOk(o, i) == o.len = PDO_OUT_LEN

LengthsOk(o, i) == o.len = PDO_OUT_LEN /\ i.len = PDO_IN_LEN

\* enter_safeop: SM3, then the two length checks.
ReadSm3 ==
  /\ pc = "sm3"
  /\ \/ /\ SpiOk
        /\ sm_in' = sm3
        /\ reason' = IF sm_out.len # PDO_OUT_LEN
                     THEN ESC_ALSC_INVALID_OUTPUT_CFG
                     ELSE ESC_ALSC_INVALID_INPUT_CFG
        /\ pc' = IF LengthsOk(sm_out, sm3) THEN "report" ELSE "code"
     \/ /\ SpiFault
        /\ pc' = Exchange(cur_state)
        /\ UNCHANGED <<sm_in, reason>>
  /\ UNCHANGED <<escVars, sm_out, cur_state, last_angle, angle_applied, req,
                 got, axisVars, applyFaults, restarts>>

\* Mutant: the reason is not written.
RefuseSilently ==
  /\ pc = "code"
  /\ pc' = "error"
  /\ UNCHANGED <<escVars, ramVars, req, reason, got, axisVars, faultVars>>

\* refuse_transition: the reason first, then the error bit.
RefuseCode ==
  /\ pc = "code"
  /\ \/ SpiOk /\ al_status_code' = reason
     \/ SpiFault /\ UNCHANGED al_status_code
  /\ pc' = "error"
  /\ UNCHANGED <<al_control, al_status, sm2, sm3, dpram, inputs, ramVars, req,
                 reason, got, axisVars, applyFaults, restarts>>

\* Mutant: the error bit is forgotten.
PlainStatus == [state |-> cur_state, err |-> FALSE]

Refusal == [state |-> cur_state, err |-> TRUE]

RefuseStatus ==
  /\ pc = "error"
  /\ WriteStatus(Refusal)
  /\ pc' = Exchange(cur_state)
  /\ UNCHANGED <<al_control, al_status_code, sm2, sm3, dpram, inputs, ramVars,
                 req, reason, got, axisVars, applyFaults, restarts>>

\* apply_angle(v) through apply_target_angle, which drops the error code.
ApplyAngle(v) ==
  /\ strobe' = 1 - strobe
  /\ delivered' = v
  /\ \/ motor' = (IF HasActuator THEN v ELSE motor) /\ UNCHANGED applyFaults
     \/ /\ HasActuator /\ applyFaults < MaxApplyFaults
        /\ applyFaults' = applyFaults + 1
        /\ UNCHANGED motor

\* Mutants: drive in SAFEOP too; drive once per spell.
DueAnywhere(target) == ~angle_applied \/ target # last_angle
DueOnce(target) == cur_state = "OP" /\ ~angle_applied

\* Is this output word a target to act on?
Due(target) == cur_state = "OP" /\ (~angle_applied \/ target # last_angle)

\* Mutant: last_angle follows the output word in every state.
LatchAlways(target) == target

\* last_angle after this output word.
Latch(target) == IF Due(target) THEN target ELSE last_angle

\* exchange_process_data, first half: read the output word and act on it.
ReadOutputs ==
  /\ pc = "outputs"
  /\ pc' = "inputs"
  /\ \/ LET target == ReadWord(sm_out.addr) IN
        /\ SpiOk
        /\ got' = TRUE
        /\ last_angle' = Latch(target)
        /\ \/ /\ Due(target)
              /\ angle_applied' = TRUE
              /\ ApplyAngle(target)
           \/ /\ ~Due(target)
              /\ UNCHANGED <<angle_applied, motor, strobe, delivered,
                             applyFaults>>
     \/ /\ SpiFault
        /\ UNCHANGED <<got, last_angle, angle_applied, motor, strobe,
                       delivered, applyFaults>>
  /\ UNCHANGED <<escVars, sm_out, sm_in, cur_state, req, reason, pos, restarts>>

\* actuator_actual_angle: the command stands in for a position that cannot be
\* read.
Sampled == {last_angle} \cup (IF HasActuator THEN {pos} ELSE {})

\* exchange_process_data, second half: sample the axis and write the image.
WriteInputs ==
  /\ pc = "inputs"
  /\ pc' = "control"
  /\ \/ /\ SpiOk
        /\ \E a \in Sampled :
             inputs' = [addr |-> sm_in.addr, echo |-> last_angle, actual |-> a]
     \/ SpiFault /\ UNCHANGED inputs
  /\ UNCHANGED <<al_control, al_status, al_status_code, sm2, sm3, dpram,
                 ramVars, req, reason, got, axisVars, applyFaults, restarts>>

Poll ==
  \/ SlaveInit \/ ReadControl \/ ReportState \/ ReadSm2 \/ ReadSm3
  \/ RefuseCode \/ RefuseStatus \/ ReadOutputs \/ WriteInputs

-----------------------------------------------------------------------------
(* The axis, the firmware's restart, and the master *)

\* The shaft advances one degree towards the accepted target.
Move ==
  /\ pos # motor
  /\ pos' = IF pos < motor THEN pos + 1 ELSE pos - 1
  /\ UNCHANGED <<escVars, ramVars, pollVars, motor, strobe, delivered,
                 faultVars>>

\* The ESP32 restarts: RAM and the stepper's step count are lost, the ESC and
\* what the master reads in it are not.
Restart ==
  /\ restarts < MaxRestarts
  /\ restarts' = restarts + 1
  /\ sm_out' = NoCfg /\ sm_in' = NoCfg
  /\ cur_state' = "INIT" /\ last_angle' = 0 /\ angle_applied' = FALSE
  /\ pc' = "boot" /\ req' = "INIT" /\ reason' = 0 /\ got' = FALSE
  /\ motor' = 0 /\ pos' = 0 /\ delivered' = NoTarget
  /\ UNCHANGED <<escVars, strobe, spiFaults, applyFaults>>

slaveVars == <<ramVars, pollVars, axisVars, faultVars>>

RequestState(r) ==
  /\ al_control' = r
  /\ UNCHANGED <<al_status, al_status_code, sm2, sm3, dpram, inputs, slaveVars>>

\* ec_config_map programs the SyncManagers of a slave it sees before SAFEOP.
ProgramSm(o, i) ==
  /\ al_status.state \in {"INIT", "PREOP"}
  /\ sm2' = o /\ sm3' = i
  /\ UNCHANGED <<al_control, al_status, al_status_code, dpram, inputs,
                 slaveVars>>

\* A cyclic frame carries a target into the area SM2 describes.
WriteOutputs(v) ==
  /\ sm2.addr \in OutAddr
  /\ dpram' = [dpram EXCEPT ![sm2.addr] = v]
  /\ UNCHANGED <<al_control, al_status, al_status_code, sm2, sm3, inputs,
                 slaveVars>>

\* A new master process: ec_config_init puts every slave back to defaults
\* without waiting for the state the old master left it in.
MasterRestart ==
  /\ al_control' = [state |-> "INIT", ack |-> TRUE]
  /\ sm2' = NoCfg /\ sm3' = NoCfg
  /\ UNCHANGED <<al_status, al_status_code, dpram, inputs, slaveVars>>

Master ==
  \/ \E r \in Requests : RequestState(r)
  \/ \E o \in OutCfgs, i \in InCfgs : ProgramSm(o, i)
  \/ \E v \in Angle : WriteOutputs(v)
  \/ MasterRestart

Next == Poll \/ Move \/ Restart \/ Master

Spec == Init /\ [][Next]_vars

\* The main loop polls for ever and the step timer runs: the slave's own steps
\* and the axis are weakly fair.  Nothing is assumed of the master.
FairSpec == Spec /\ WF_vars(Poll) /\ WF_vars(Move)

-----------------------------------------------------------------------------
(* Properties *)

Image == [addr : Nat, echo : Angle, actual : Angle]

EscTypeOK ==
  /\ al_control \in AlRequest
  /\ al_status \in [state : AlStates, err : BOOLEAN]
  /\ al_status_code \in Codes
  /\ sm2 \in OutCfgs \cup {NoCfg} /\ sm3 \in InCfgs \cup {NoCfg}
  /\ dpram \in [OutAddr -> Angle]
  /\ inputs \in Image

RamTypeOK ==
  /\ sm_out \in OutCfgs \cup {NoCfg} /\ sm_in \in InCfgs \cup {NoCfg}
  /\ cur_state \in AlStates
  /\ last_angle \in Angle
  /\ pc \in {"boot", "control", "report", "sm2", "sm3", "code", "error",
             "outputs", "inputs"}
  /\ req \in AlStates \cup {"BOOT"}
  /\ reason \in Codes

FlagsOK == angle_applied \in BOOLEAN /\ got \in BOOLEAN

AxisTypeOK ==
  /\ motor \in Angle /\ pos \in Angle /\ strobe \in {0, 1}
  /\ delivered \in Angle \cup {NoTarget}
  /\ spiFaults \in 0 .. MaxSpiFaults
  /\ applyFaults \in 0 .. MaxApplyFaults
  /\ restarts \in 0 .. MaxRestarts

\* Every variable has the type its register or C variable has; no state but the
\* four the slave knows is ever reported.
TypeOK == EscTypeOK /\ RamTypeOK /\ FlagsOK /\ AxisTypeOK

\* The configuration this slave's two process data objects need.
ValidCfg == sm_out.len = PDO_OUT_LEN /\ sm_in.len = PDO_IN_LEN

\* A slave in SAFEOP works from a SyncManager configuration it has checked, so
\* the only door to OP (SAFEOP) is behind the check, whatever SPI reads failed
\* and however the master changed its mind meanwhile (enter_safeop).
SafeOpValidated == cur_state = "SAFEOP" => ValidCfg

\* In OP, when this poll read an output word, the target the image is about to
\* echo is one the actuator was called with in this spell of OP: re-entering OP
\* delivers the first target again even if it repeats the one held before
\* (angle_applied, reset in report_state).
SpellDelivered == pc = "inputs" /\ got /\ cur_state = "OP" => delivered = last_angle

\* What the input image echoes is the target the actuator accepted, as long as
\* the actuator has rejected none.  (exchange_process_data, apply_target_angle)
EchoIsAccepted == HasActuator /\ applyFaults = 0 => last_angle = motor

\* The actuator is never called twice in a spell with the target it already
\* has: a repeated call chops the pulses of the move in flight.
NoRearm == [][strobe' # strobe => delivered' # delivered]_vars

\* Once a poll has read a request for INIT or PREOP, no target reaches the
\* actuator in that poll, even if the AL Status write that reports the new
\* state is lost on the SPI bus (report_state sets cur_state regardless).
StopRequestStops ==
  [][(req \in {"INIT", "PREOP"}) => strobe' = strobe]_vars

\* As long as no SPI transaction has failed, the error bit is never visible
\* without a reason code beside it (refuse_transition writes the code first).
ErrorHasReason == spiFaults = 0 /\ al_status.err => al_status_code # 0

\* As long as no SPI transaction has failed and the firmware has not restarted,
\* the axis accepts targets only while the master reads OP in AL Status.
MotionSeenAsOp ==
  [][spiFaults' = 0 /\ restarts' = 0 /\ strobe' # strobe
       => al_status.state = "OP"]_vars

\* The slave implements the promise of AlGate.
Gate == INSTANCE AlGate WITH
          state <- cur_state, held <- last_angle
GateSpec == Gate!GateSpec

\* A master that keeps asking for the same state gets an answer as long as no
\* SPI transaction fails: AL Status eventually shows that state, or the error
\* bit.  (BOOT is ignored, and a report lost on the SPI bus is not repeated.)
Answered == al_status.state = al_control.state \/ al_status.err
RequestAnswered ==
  \A s \in AlStates :
    <>[](al_control.state = s /\ spiFaults = 0) => <>[]Answered

\* In OP a target the master holds is eventually where the axis is, and the
\* image the master reads says so, in spite of transient SPI faults.
Holding(v) == cur_state = "OP" /\ ReadWord(sm_out.addr) = v
TargetReached ==
  \A v \in Angle :
    <>[]Holding(v) => <>[](pos = v /\ inputs.echo = v /\ inputs.actual = v)

-----------------------------------------------------------------------------
(* What the repository says of this code and the code does not keep: each of *)
(* these is refuted by a run of its own.                                     *)

\* README, section on the states: only in OP is the motor allowed to move, in
\* the states before it the slave refuses to act on commands.  Read by a
\* master, which knows the state from AL Status.
MotionOnlyInVisibleOp == [][strobe' # strobe => al_status.state = "OP"]_vars

=============================================================================

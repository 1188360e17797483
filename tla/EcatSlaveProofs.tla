--------------------------- MODULE EcatSlaveProofs ---------------------------
(***************************************************************************)
(* Proofs about EcatSlave, for every value of its constants: any set of    *)
(* SyncManager configurations and requests, any number of SPI faults,      *)
(* rejected targets and restarts.                                          *)
(***************************************************************************)
EXTENDS EcatSlave, TLAPS

\* Where the poll is tells what it has already decided about the request.
PollInv ==
  /\ pc = "report" => req \in AlStates
  /\ pc = "report" /\ req = "SAFEOP" => ValidCfg
  /\ pc = "report" /\ req = "OP" => cur_state = "SAFEOP"
  /\ pc \in {"sm2", "sm3"} => req = "SAFEOP" /\ cur_state # "SAFEOP"
  /\ pc \in {"code", "error", "outputs", "inputs"} => req \notin {"INIT", "PREOP"}

\* What angle_applied stands for: OP, and a target delivered in this spell.
SpellInv ==
  /\ angle_applied => cur_state = "OP" /\ delivered = last_angle
  /\ ~angle_applied => delivered = NoTarget
  /\ pc \notin {"control", "inputs"} => ~got
  /\ pc = "inputs" /\ got /\ cur_state = "OP" => angle_applied

\* What the master sees in AL Status, as long as every SPI write got through.
VisibleInv ==
  spiFaults = 0 =>
    /\ restarts = 0 => al_status.state = cur_state
    /\ pc = "code" => reason # 0
    /\ pc = "error" => al_status_code # 0
    /\ ErrorHasReason

\* The inductive invariant.
IInv ==
  /\ TypeOK /\ PollInv /\ SafeOpValidated /\ SpellInv /\ EchoIsAccepted
  /\ VisibleInv

\* Whatever address the slave believes SM2 has, reading it gives an angle.
LEMMA ReadWordAngle == ASSUME EscTypeOK, NEW a PROVE ReadWord(a) \in Angle
  BY SlaveAssumption DEF EscTypeOK, ReadWord, Angle, OutAddr

\* What a SyncManager register holds is a configuration with natural fields.
LEMMA CfgNat ==
  ASSUME NEW c \in OutCfgs \cup InCfgs \cup {NoCfg}
  PROVE  c.addr \in Nat /\ c.len \in Nat
  BY SlaveAssumption DEF NoCfg

\* What the slave writes to AL Status.
LEMMA StatusType ==
  ASSUME NEW s \in AlStates, NEW b \in BOOLEAN
  PROVE  [state |-> s, err |-> b] \in [state : AlStates, err : BOOLEAN]
  OBVIOUS

LEMMA InitIInv == Init => IInv
<1> USE SlaveAssumption DEF Init
<1>1. Init => EscTypeOK
  BY DEF EscTypeOK, AlRequest, AlStates, Codes, Image, Angle, NoCfg, OutAddr
<1>2. Init => RamTypeOK
  BY DEF RamTypeOK, AlStates, Codes, Angle,
         ESC_ALSC_INVALID_OUTPUT_CFG, ESC_ALSC_INVALID_INPUT_CFG
<1>3. Init => FlagsOK
  BY Zenon DEF FlagsOK
<1>4. Init => AxisTypeOK
  BY DEF AxisTypeOK, Angle, NoTarget
<1>5. Init => /\ PollInv /\ SafeOpValidated /\ SpellInv /\ EchoIsAccepted
              /\ VisibleInv
  BY DEF VisibleInv, ErrorHasReason, PollInv, SafeOpValidated, SpellInv, EchoIsAccepted, NoTarget
<1> QED BY <1>1, <1>2, <1>3, <1>4, <1>5 DEF IInv, TypeOK

-----------------------------------------------------------------------------
(* Type correctness, part by part *)

\* What the slave and the master write to the ESC has the registers' types.
LEMMA EscTypeStep == ASSUME TypeOK, PollInv, [Next]_vars PROVE EscTypeOK'
<1> USE SlaveAssumption
<1> USE DEF TypeOK, EscTypeOK, escVars, slaveVars
<1>1. CASE SlaveInit \/ ReportState
  <2>1. PICK s \in AlStates, next \in {"control", "outputs"} : Report(s, next)
    BY <1>1 DEF SlaveInit, ReportState, RamTypeOK, AlStates, PollInv, Exchange
  <2>2. al_status' = [state |-> s, err |-> FALSE] \/ al_status' = al_status
    BY <2>1 DEF Report, WriteStatus
  <2> QED BY <2>1, <2>2, StatusType DEF Report
<1>2. CASE ReadControl \/ ReadSm2 \/ ReadSm3 \/ ReadOutputs \/ Move \/ Restart
  BY <1>2 DEF ReadControl, ReadSm2, ReadSm3, ReadOutputs, Move, Restart
<1>3. CASE RefuseCode
  BY <1>3 DEF RefuseCode, RamTypeOK
<1>4. CASE RefuseStatus
  <2>1. Refusal \in [state : AlStates, err : BOOLEAN]
    BY StatusType DEF Refusal, RamTypeOK
  <2> QED BY <1>4, <2>1 DEF RefuseStatus, WriteStatus
<1>5. CASE WriteInputs
  <2>1. sm_in.addr \in Nat
    BY CfgNat DEF RamTypeOK
  <2>2. Sampled \subseteq Angle
    BY DEF Sampled, RamTypeOK, AxisTypeOK
  <2>3. inputs' \in Image
    BY <1>5, <2>1, <2>2 DEF WriteInputs, Image, RamTypeOK
  <2> QED BY <1>5, <2>3 DEF WriteInputs
<1>6. ASSUME NEW r \in Requests, RequestState(r) PROVE EscTypeOK'
  BY <1>6 DEF RequestState
<1>7. ASSUME NEW o \in OutCfgs, NEW i \in InCfgs, ProgramSm(o, i)
      PROVE  EscTypeOK'
  BY <1>7 DEF ProgramSm
<1>8. ASSUME NEW v \in Angle, WriteOutputs(v) PROVE EscTypeOK'
  BY <1>8 DEF WriteOutputs
<1>9. CASE MasterRestart
  BY <1>9 DEF MasterRestart, AlRequest, AlStates
<1>10. CASE UNCHANGED vars
  BY <1>10 DEF vars
<1> QED
  BY <1>1, <1>2, <1>3, <1>4, <1>5, <1>6, <1>7, <1>8, <1>9, <1>10
  DEF Next, Poll, Master

\* Wherever a poll goes after dispatching a request, it is a place it knows.
LEMMA DispatchPlace ==
  ASSUME NEW r
  PROVE  /\ Dispatch(r) \in {"report", "sm2", "code", "outputs", "control"}
         /\ Dispatch(r) = "report" => r \in AlStates
  BY DEF Dispatch, Exchange

\* The firmware's own variables keep their types; the master cannot touch them.
LEMMA RamTypeStep == ASSUME TypeOK, PollInv, [Next]_vars PROVE RamTypeOK'
<1> USE SlaveAssumption
<1> USE DEF TypeOK, RamTypeOK, Exchange, Codes, ESC_ALSC_INVALID_OUTPUT_CFG,
            ESC_ALSC_INVALID_INPUT_CFG
<1>1. CASE SlaveInit \/ ReportState
  BY <1>1 DEF SlaveInit, ReportState, Report, AlStates, PollInv
<1>2. CASE ReadControl
  <2>1. al_control.state \in AlStates \cup {"BOOT"}
    BY DEF EscTypeOK, AlRequest
  <2> QED BY <1>2, <2>1, DispatchPlace DEF ReadControl, ramVars, Codes
<1>3. CASE ReadSm2 \/ ReadSm3
  BY <1>3 DEF ReadSm2, ReadSm3, EscTypeOK
<1>4. CASE RefuseCode \/ RefuseStatus \/ WriteInputs
  BY <1>4 DEF RefuseCode, RefuseStatus, WriteInputs, ramVars
<1>5. CASE ReadOutputs
  <2>1. ReadWord(sm_out.addr) \in Angle
    BY ReadWordAngle
  <2> QED BY <1>5, <2>1 DEF ReadOutputs, Latch
<1>6. CASE Restart
  BY <1>6 DEF Restart, AlStates, Codes, Angle
<1>7. CASE Move \/ Master \/ UNCHANGED vars
  BY <1>7 DEF Move, Master, RequestState, ProgramSm, WriteOutputs, MasterRestart,
              ramVars, pollVars, slaveVars, vars
<1> QED
  BY <1>1, <1>2, <1>3, <1>4, <1>5, <1>6, <1>7 DEF Next, Poll

LEMMA FlagsStep == ASSUME TypeOK, PollInv, [Next]_vars PROVE FlagsOK'
<1> USE DEF TypeOK, FlagsOK
<1>1. CASE SlaveInit \/ ReportState
  BY <1>1, Zenon DEF SlaveInit, ReportState, Report, StillApplied
<1>2. CASE ReadControl
  BY <1>2, Zenon DEF ReadControl, ramVars
<1>3. CASE ReadSm2 \/ ReadSm3 \/ RefuseCode \/ RefuseStatus \/ WriteInputs
  BY <1>3, Zenon DEF ReadSm2, ReadSm3, RefuseCode, RefuseStatus, WriteInputs,
                     ramVars
<1>4. CASE ReadOutputs
  BY <1>4, Zenon DEF ReadOutputs
<1>5. CASE Restart
  BY <1>5, Zenon DEF Restart
<1>6. CASE Move \/ Master \/ UNCHANGED vars
  BY <1>6, Zenon DEF Move, Master, RequestState, ProgramSm, WriteOutputs,
                     MasterRestart, ramVars, pollVars, slaveVars, vars
<1> QED
  BY <1>1, <1>2, <1>3, <1>4, <1>5, <1>6 DEF Next, Poll

\* The axis only ever goes where some output word sent it.
LEMMA AxisTypeStep == ASSUME TypeOK, PollInv, [Next]_vars PROVE AxisTypeOK'
<1> USE SlaveAssumption
<1> USE DEF TypeOK, AxisTypeOK, SpiOk, SpiFault, axisVars, faultVars
<1>1. CASE SlaveInit \/ ReportState
  BY <1>1 DEF SlaveInit, ReportState, Report, WriteStatus
<1>2. CASE ReadControl \/ ReadSm2 \/ ReadSm3
  BY <1>2 DEF ReadControl, ReadSm2, ReadSm3
<1>3. CASE RefuseCode \/ RefuseStatus \/ WriteInputs
  BY <1>3 DEF RefuseCode, RefuseStatus, WriteStatus, WriteInputs
<1>4. CASE ReadOutputs
  <2>1. ReadWord(sm_out.addr) \in Angle
    BY ReadWordAngle
  <2> QED BY <1>4, <2>1 DEF ReadOutputs, ApplyAngle
<1>5. CASE Move
  BY <1>5 DEF Move, Angle
<1>6. CASE Restart
  BY <1>6 DEF Restart, Angle
<1>7. CASE Master \/ UNCHANGED vars
  BY <1>7 DEF Master, RequestState, ProgramSm, WriteOutputs, MasterRestart,
              slaveVars, vars
<1> QED
  BY <1>1, <1>2, <1>3, <1>4, <1>5, <1>6, <1>7 DEF Next, Poll

-----------------------------------------------------------------------------
(* The rest of the inductive invariant *)

\* What the poll has decided stays true until it acts on it: the master may
\* change al_control, sm2 and sm3 under it, but not req, sm_out and sm_in.
LEMMA PollStep ==
  ASSUME TypeOK, PollInv, SafeOpValidated, [Next]_vars
  PROVE  PollInv' /\ SafeOpValidated'
<1> USE DEF PollInv, SafeOpValidated, ValidCfg
<1>1. CASE SlaveInit \/ ReportState
  BY <1>1 DEF SlaveInit, ReportState, Report, Exchange
<1>2. CASE ReadControl
  <2>1. CASE SpiOk
    <3> DEFINE r == al_control.state
    <3>1. /\ r \in {"INIT", "PREOP"} => Dispatch(r) \in {"report", "control"}
          /\ Dispatch(r) = "sm2" => r = "SAFEOP" /\ cur_state # "SAFEOP"
          /\ Dispatch(r) = "report" /\ r = "OP" => cur_state = "SAFEOP"
          /\ ~(Dispatch(r) = "report" /\ r = "SAFEOP")
      BY DEF Dispatch, Exchange, AlStates
    <3> QED BY <1>2, <2>1, <3>1, DispatchPlace DEF ReadControl, ramVars
  <2> QED BY <1>2, <2>1 DEF ReadControl, ramVars
<1>3. CASE ReadSm2
  BY <1>3 DEF ReadSm2, Exchange
<1>4. CASE ReadSm3
  BY <1>4 DEF ReadSm3, LengthsOk, Exchange, AlStates
<1>5. CASE RefuseCode \/ RefuseStatus \/ WriteInputs \/ ReadOutputs
  BY <1>5 DEF RefuseCode, RefuseStatus, WriteInputs, ReadOutputs, ramVars, Exchange
<1>6. CASE Restart
  BY <1>6 DEF Restart
<1>7. CASE Move \/ Master \/ UNCHANGED vars
  BY <1>7 DEF Move, Master, RequestState, ProgramSm, WriteOutputs, MasterRestart,
              ramVars, pollVars, slaveVars, vars
<1> QED
  BY <1>1, <1>2, <1>3, <1>4, <1>5, <1>6, <1>7 DEF Next, Poll

\* angle_applied is what it stands for, through every spell of OP.
LEMMA SpellStep ==
  ASSUME TypeOK, PollInv, SpellInv, [Next]_vars
  PROVE  SpellInv'
<1> USE DEF SpellInv
<1>1. CASE SlaveInit
  BY <1>1, Zenon DEF SlaveInit, Report, StillApplied
<1>2. CASE ReportState
  \* OP is reported from SAFEOP only, where nothing has been applied.
  <2>1. req = "OP" => cur_state = "SAFEOP"
    BY <1>2 DEF ReportState, PollInv
  <2>2. ~(angle_applied /\ req = "OP")
    BY <2>1
  <2>3. ~angle_applied'
    BY <1>2, <2>2, Zenon DEF ReportState, Report, StillApplied
  <2>4. delivered' = NoTarget /\ pc' # "inputs"
    BY <1>2 DEF ReportState, Report, Exchange
  <2>5. ~got'
    BY <1>2 DEF ReportState, Report
  <2> QED BY <2>3, <2>4, <2>5, Zenon
<1>3. CASE ReadControl \/ ReadSm2 \/ ReadSm3 \/ RefuseCode \/ RefuseStatus
  BY <1>3 DEF ReadControl, ReadSm2, ReadSm3, RefuseCode, RefuseStatus, Exchange,
              ramVars, axisVars
<1>4. CASE ReadOutputs
  BY <1>4 DEF ReadOutputs, Latch, Due, ApplyAngle
<1>5. CASE WriteInputs
  BY <1>5 DEF WriteInputs, ramVars, axisVars
<1>6. CASE Restart
  BY <1>6 DEF Restart
<1>7. CASE Move \/ Master \/ UNCHANGED vars
  BY <1>7 DEF Move, Master, RequestState, ProgramSm, WriteOutputs, MasterRestart,
              ramVars, pollVars, axisVars, slaveVars, vars
<1> QED
  BY <1>1, <1>2, <1>3, <1>4, <1>5, <1>6, <1>7 DEF Next, Poll

\* last_angle and the axis part company only when the actuator rejects.
LEMMA EchoStep ==
  ASSUME TypeOK, EchoIsAccepted, [Next]_vars
  PROVE  EchoIsAccepted'
<1> USE DEF EchoIsAccepted
<1>1. CASE SlaveInit \/ ReportState
  BY <1>1 DEF SlaveInit, ReportState, Report
<1>2. CASE ReadControl \/ ReadSm2 \/ ReadSm3 \/ RefuseCode \/ RefuseStatus
           \/ WriteInputs
  BY <1>2 DEF ReadControl, ReadSm2, ReadSm3, RefuseCode, RefuseStatus,
              WriteInputs, ramVars, axisVars
<1>3. CASE ReadOutputs
  BY <1>3 DEF ReadOutputs, Latch, ApplyAngle, TypeOK, AxisTypeOK
<1>4. CASE Restart
  BY <1>4 DEF Restart
<1>5. CASE Move \/ Master \/ UNCHANGED vars
  BY <1>5 DEF Move, Master, RequestState, ProgramSm, WriteOutputs, MasterRestart,
              ramVars, axisVars, faultVars, slaveVars, vars
<1> QED
  BY <1>1, <1>2, <1>3, <1>4, <1>5 DEF Next, Poll

\* AL Status follows cur_state, and the reason for a refusal precedes it.
LEMMA VisibleStep ==
  ASSUME TypeOK, VisibleInv, PollInv, [Next]_vars
  PROVE  VisibleInv'
<1> USE DEF VisibleInv, ErrorHasReason, TypeOK, AxisTypeOK, SpiOk, SpiFault,
           escVars, ramVars, pollVars, axisVars, faultVars
<1>1. CASE SlaveInit \/ ReportState
  <2>1. PICK s, next : Report(s, next) /\ next \notin {"code", "error"}
    BY <1>1 DEF SlaveInit, ReportState, Exchange
  <2> QED BY <2>1 DEF Report, WriteStatus
<1>2. CASE ReadControl
  BY <1>2, DispatchPlace DEF ReadControl, ESC_ALSC_INVALID_OUTPUT_CFG
<1>3. CASE ReadSm2
  BY <1>3 DEF ReadSm2, Exchange
<1>4. CASE ReadSm3
  BY <1>4 DEF ReadSm3, Exchange, ESC_ALSC_INVALID_OUTPUT_CFG,
              ESC_ALSC_INVALID_INPUT_CFG
<1>5. CASE RefuseCode
  BY <1>5 DEF RefuseCode
<1>6. CASE RefuseStatus
  BY <1>6 DEF RefuseStatus, Refusal, WriteStatus, Exchange
<1>7. CASE ReadOutputs \/ WriteInputs
  BY <1>7 DEF ReadOutputs, WriteInputs
<1>8. CASE Restart
  BY <1>8 DEF Restart
<1>9. CASE Move \/ Master \/ UNCHANGED vars
  BY <1>9 DEF Move, Master, RequestState, ProgramSm, WriteOutputs, MasterRestart,
              slaveVars, vars
<1> QED
  BY <1>1, <1>2, <1>3, <1>4, <1>5, <1>6, <1>7, <1>8, <1>9 DEF Next, Poll

\* The invariant is inductive.
THEOREM Inductive == Spec => []IInv
<1>1. IInv /\ [Next]_vars => IInv'
  BY EscTypeStep, RamTypeStep, FlagsStep, AxisTypeStep, PollStep, SpellStep,
     EchoStep, VisibleStep DEF IInv, TypeOK
<1> QED BY InitIInv, <1>1, PTL DEF Spec

-----------------------------------------------------------------------------
(* Theorems *)

\* No register, C variable or counter ever leaves its type, and AL Status never
\* shows a state the slave does not have: the master's requests, which may be
\* anything, are never reported back unexamined.
THEOREM TypeCorrect == Spec => []TypeOK
  BY Inductive, PTL DEF IInv

\* A slave in SAFEOP has checked the SyncManager configuration it works from,
\* whatever SPI reads failed and whatever the master rewrote in the middle.
THEOREM Validated == Spec => []SafeOpValidated
  BY Inductive, PTL DEF IInv

\* The target echoed in OP was delivered in this spell of OP.
THEOREM Delivered == Spec => []SpellDelivered
<1>1. IInv => SpellDelivered
  BY DEF IInv, SpellInv, SpellDelivered
<1> QED BY Inductive, <1>1, PTL

\* Until the actuator rejects a target, what is echoed is what it accepted.
THEOREM EchoAccepted == Spec => []EchoIsAccepted
  BY Inductive, PTL DEF IInv

\* Only one SPI transaction of the poll reaches the actuator, and only on a
\* target that is due.
LEMMA OnlyOutputsDrive ==
  ASSUME AxisTypeOK, [Next]_vars, strobe' # strobe
  PROVE  /\ ReadOutputs
         /\ \E v \in {ReadWord(sm_out.addr)} :
              /\ Due(v) /\ last_angle' = v /\ delivered' = v
              /\ strobe' = 1 - strobe
<1>1. ReadOutputs
  <2>1. ~(SlaveInit \/ ReportState)
    BY DEF SlaveInit, ReportState, Report
  <2>2. ~(ReadControl \/ ReadSm2 \/ ReadSm3 \/ RefuseCode \/ RefuseStatus
            \/ WriteInputs)
    BY DEF ReadControl, ReadSm2, ReadSm3, RefuseCode, RefuseStatus, WriteInputs,
           axisVars
  <2>3. ~(Move \/ Restart \/ Master \/ UNCHANGED vars)
    BY DEF Move, Restart, Master, RequestState, ProgramSm, WriteOutputs,
           MasterRestart, axisVars, slaveVars, vars
  <2> QED BY <2>1, <2>2, <2>3 DEF Next, Poll
<1>2. PICK v \in {ReadWord(sm_out.addr)} : TRUE
  OBVIOUS
<1>3. Due(v) /\ ApplyAngle(v) /\ last_angle' = Latch(v)
  BY <1>1, <1>2 DEF ReadOutputs
<1> QED BY <1>1, <1>2, <1>3 DEF ApplyAngle, Latch

\* The actuator is never called again with the target it holds in this spell.
THEOREM NeverRearmed == Spec => NoRearm
<1>1. IInv /\ [Next]_vars /\ strobe' # strobe => delivered' # delivered
  <2> SUFFICES ASSUME IInv, [Next]_vars, strobe' # strobe
               PROVE  delivered' # delivered
    OBVIOUS
  <2>1. PICK v \in Angle : Due(v) /\ delivered' = v
    BY OnlyOutputsDrive, ReadWordAngle DEF IInv, TypeOK
  <2>2. delivered # v
    BY <2>1, SlaveAssumption DEF Due, IInv, SpellInv, NoTarget, Angle
  <2> QED BY <2>1, <2>2
<1> QED BY Inductive, <1>1, PTL DEF NoRearm, Spec

\* A poll that has read a request to leave the operational states moves nothing,
\* even when the write that reports the new state is lost.
THEOREM StopStops == Spec => StopRequestStops
<1>1. IInv /\ [Next]_vars => (req \in {"INIT", "PREOP"} => strobe' = strobe)
  <2> SUFFICES ASSUME IInv, [Next]_vars, strobe' # strobe
               PROVE  req \notin {"INIT", "PREOP"}
    OBVIOUS
  <2>1. pc = "outputs"
    BY OnlyOutputsDrive DEF IInv, TypeOK, ReadOutputs
  <2> QED BY <2>1 DEF IInv, PollInv
<1> QED BY Inductive, <1>1, PTL DEF StopRequestStops, Spec

\* On an SPI bus that loses nothing the master reads OP whenever the axis takes
\* a target.
THEOREM MotionIsSeen == Spec => MotionSeenAsOp
<1>1. ASSUME IInv, IInv', [Next]_vars, spiFaults' = 0, restarts' = 0,
             strobe' # strobe
      PROVE  al_status.state = "OP"
  <2>1. ReadOutputs /\ cur_state = "OP"
    BY <1>1, OnlyOutputsDrive DEF IInv, TypeOK, Due
  <2>2. spiFaults = 0 /\ restarts = 0
    BY <1>1, <2>1
    DEF ReadOutputs, SpiOk, SpiFault, IInv, TypeOK, AxisTypeOK
  <2> QED BY <1>1, <2>1, <2>2 DEF IInv, VisibleInv
<1> QED BY Inductive, <1>1, PTL DEF MotionSeenAsOp, Spec

\* The master never reads an error without its reason, as long as every SPI write
\* got through, across restarts of the firmware.
THEOREM ErrorsExplained == Spec => []ErrorHasReason
<1>1. IInv => ErrorHasReason
  BY DEF IInv, VisibleInv, ErrorHasReason
<1> QED BY Inductive, <1>1, PTL

-----------------------------------------------------------------------------
(* Refinement *)

\* Every step of the slave is a step of the gate or leaves it alone.
LEMMA GateStep == ASSUME IInv, [Next]_vars PROVE [Gate!GateNext]_(Gate!gateVars)
<1> USE DEF Gate!GateNext, Gate!gateVars
<1>1. CASE SlaveInit
  BY <1>1 DEF SlaveInit, Report, Gate!Shut, Gate!NoTarget, NoTarget
<1>2. CASE ReportState
  <2>1. CASE req = "OP"
    <3>1. cur_state = "SAFEOP" /\ delivered = NoTarget
      BY <1>2, <2>1 DEF ReportState, IInv, PollInv, SpellInv
    <3> QED BY <1>2, <2>1, <3>1 DEF ReportState, Report, Gate!Open
  <2>2. CASE req \in {"INIT", "PREOP", "SAFEOP"}
    BY <1>2, <2>2 DEF ReportState, Report, Gate!Shut, Gate!NoTarget, NoTarget
  <2> QED BY <1>2, <2>1, <2>2 DEF ReportState, IInv, PollInv, AlStates
<1>3. CASE ReadOutputs
  <2>1. CASE strobe' = strobe
    BY <1>3, <2>1, SlaveAssumption
    DEF ReadOutputs, Latch, ApplyAngle, IInv, TypeOK, AxisTypeOK
  <2>2. CASE strobe' # strobe
    <3>1. PICK v \in Angle : /\ Due(v) /\ last_angle' = v /\ delivered' = v
                             /\ strobe' = 1 - strobe
      BY <2>2, OnlyOutputsDrive, ReadWordAngle DEF IInv, TypeOK
    <3>2. delivered # v
      BY <3>1, SlaveAssumption DEF Due, IInv, SpellInv, NoTarget, Angle
    <3>3. Gate!Drive(v)
      BY <1>3, <3>1, <3>2 DEF ReadOutputs, Due, Gate!Drive
    <3> QED BY <3>3 DEF Gate!Target, Angle
  <2> QED BY <2>1, <2>2
<1>4. CASE Restart
  BY <1>4 DEF Restart, Gate!Restart, Gate!NoTarget, NoTarget
<1>5. CASE ReadControl \/ ReadSm2 \/ ReadSm3 \/ RefuseCode \/ RefuseStatus
           \/ WriteInputs \/ Move \/ Master \/ UNCHANGED vars
  BY <1>5 DEF ReadControl, ReadSm2, ReadSm3, RefuseCode, RefuseStatus,
              WriteInputs, Move, Master, RequestState, ProgramSm, WriteOutputs,
              MasterRestart, ramVars, axisVars, slaveVars, vars
<1> QED BY <1>1, <1>2, <1>3, <1>4, <1>5 DEF Next, Poll

\* The legacy slave, on a bus where everything may go wrong, implements the
\* gate: motion only in OP, OP only from SAFEOP, every opening a new spell.
THEOREM Refinement == Spec => GateSpec
<1>1. Init => Gate!GateInit
  BY DEF Init, Gate!GateInit, Gate!NoTarget, NoTarget
<1>2. IInv /\ [Next]_vars => [Gate!GateNext]_(Gate!gateVars)
  BY GateStep
<1> QED BY Inductive, <1>1, <1>2, PTL DEF Spec, GateSpec, Gate!GateSpec

=============================================================================

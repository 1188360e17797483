--------------------------- MODULE RunMoveProofs ----------------------------
(***************************************************************************)
(* run_move tells the truth: the array of the trace is never overrun, the  *)
(* arrival is one, and a servo shows no intermediate value.                *)
(***************************************************************************)
EXTENDS RunMove, TLAPS

\* TypeOK in the parts the provers take.
FlagsOK ==
  arrived \in BOOLEAN /\ stop \in BOOLEAN /\ op \in BOOLEAN /\ servo \in BOOLEAN

NumbersOK ==
  /\ pc \in {"park", "travel", "done"}
  /\ from \in Angles /\ to \in Angles /\ dpram \in Angles /\ held \in Angles
  /\ cycles \in Nat /\ in \in Image /\ image \in Image /\ prev \in Nat
  /\ seen \in Seq(Nat) /\ Len(seen) <= Room
  /\ pos \in Nat /\ late \in 0 .. MaxLate /\ lost \in 0 .. MaxLost

\* The inputs in the ESC are those of the last poll: an axis that was at its
\* target then still is.
PolledImage ==
  /\ image.echo = held
  /\ image.actual = held => pos = held
  /\ servo => pos = held /\ image.actual = held

\* The three stages of the park.  No poll has followed a frame yet, and every
\* frame that got through is still counted in late.
Unheard == cycles = lost + late /\ (late > 0 => dpram = from)

\* One has: the slave, if it is in OP, acts on the starting angle.
Heard ==
  /\ cycles <= lost + MaxLate
  /\ dpram = from /\ (op => held = from)

\* And a frame has brought the answer: what is left of an earlier run is gone.
Settled ==
  /\ in.echo = held /\ (in.actual = held => pos = held)
  /\ op => dpram = from /\ held = from

ParkInv ==
  /\ pc = "park" => seen = <<>> /\ ~arrived
  /\ pc = "park" /\ ~stop => Unheard \/ Heard \/ Settled

\* The axis is at the target to stay.
AtTarget == pos = to /\ held = to /\ (op => dpram = to)

\* While the program measures, inputs that show the arrival are true although
\* they may be old.
ArrivalInv ==
  /\ arrived => pc = "done" /\ AtTarget
  /\ pc = "travel" /\ ~stop /\ There(in) => AtTarget

\* A servo's inputs change once, to the final value.
EchoInv ==
  servo =>
    /\ in.actual = in.echo
    /\ seen = <<>> \/ seen = <<in.actual>>
    /\ pc = "travel" /\ ~stop =>
         /\ prev = in.actual
         /\ held \in {in.actual, to}
         /\ op => dpram \in {held, to}
         /\ seen # <<>> => in.actual = to /\ held = to /\ (op => dpram = to)

IInv == FlagsOK /\ NumbersOK /\ PolledImage /\ ParkInv /\ ArrivalInv /\ EchoInv

LEMMA TypeParts == TypeOK <=> FlagsOK /\ NumbersOK
  BY DEF TypeOK, FlagsOK, NumbersOK

-----------------------------------------------------------------------------
(* Types *)

LEMMA InitIInv == Init => IInv
<1> SUFFICES ASSUME Init PROVE IInv
  OBVIOUS
<1> USE RunMoveAssumption DEF Init
<1>1. FlagsOK
  BY Zenon DEF FlagsOK
<1>2. pos \in Angles /\ held \in Angles /\ 0 \in Angles
  OBVIOUS
<1>3. image \in Image /\ in \in Image
  BY <1>2 DEF Image
<1>4. NumbersOK
  BY <1>2, <1>3 DEF NumbersOK
<1>5. PolledImage /\ ParkInv /\ ArrivalInv /\ EchoInv
  BY <1>2 DEF PolledImage, ParkInv, Unheard, ArrivalInv, EchoInv
<1> QED BY <1>1, <1>4, <1>5 DEF IInv

LEMMA FlagsStep == ASSUME FlagsOK, [Next]_vars PROVE FlagsOK'
<1> USE DEF FlagsOK, program, slave
<1>1. CASE Parking
  BY <1>1, Zenon DEF Parking
<1>2. CASE StartMove
  BY <1>2, Zenon DEF StartMove
<1>3. CASE Travel
  BY <1>3, Zenon DEF Travel
<1>4. CASE GiveUp
  BY <1>4, Zenon DEF GiveUp
<1>5. CASE Signal
  BY <1>5, Zenon DEF Signal
<1>6. CASE Poll
  BY <1>6, Zenon DEF Poll
<1>7. CASE AxisStep
  BY <1>7, Zenon DEF AxisStep
<1>8. CASE Drop
  BY <1>8, Zenon DEF Drop
<1>9. CASE UNCHANGED vars
  BY <1>9, Zenon DEF vars
<1> QED
  BY <1>1, <1>2, <1>3, <1>4, <1>5, <1>6, <1>7, <1>8, <1>9, Zenon DEF Next, Program

\* What a cycle does to the inputs and the two counters.
LEMMA CycleTypes ==
  ASSUME NumbersOK, NEW target \in Angles, Cycle(target)
  PROVE  /\ dpram' \in Angles /\ in' \in Image
         /\ late' \in 0 .. MaxLate /\ lost' \in 0 .. MaxLost
  BY RunMoveAssumption DEF NumbersOK, Cycle

\* The trace has room for what is appended.
LEMMA NumbersStep == ASSUME FlagsOK, NumbersOK, [Next]_vars PROVE NumbersOK'
<1> USE RunMoveAssumption DEF NumbersOK, program, slave
<1>1. CASE Parking
  BY <1>1, CycleTypes DEF Parking
<1>2. CASE StartMove
  BY <1>2 DEF StartMove, Image
<1>3. CASE Travel
  <2>1. /\ dpram' \in Angles /\ in' \in Image
        /\ late' \in 0 .. MaxLate /\ lost' \in 0 .. MaxLost
    BY <1>3, CycleTypes DEF Travel
  <2>2. in'.actual \in Nat
    BY <2>1 DEF Image
  <2>3. seen' \in Seq(Nat) /\ Len(seen') <= Room
    <3>1. CASE seen' = seen
      BY <3>1
    <3>2. CASE seen' = Append(seen, in'.actual) /\ HasRoom
      BY <2>2, <3>2 DEF HasRoom
    <3> QED BY <1>3, <3>1, <3>2 DEF Travel
  <2>4. prev' \in Nat /\ cycles' \in Nat /\ pc' \in {"travel", "done"}
    BY <1>3, <2>2 DEF Travel
  <2>5. UNCHANGED <<from, to, slave>>
    BY <1>3 DEF Travel
  <2> QED BY <2>1, <2>3, <2>4, <2>5
<1>4. CASE GiveUp \/ Signal \/ Drop
  BY <1>4 DEF GiveUp, Signal, Drop
<1>5. CASE Poll
  <2>1. held' \in Angles
    BY <1>5, Zenon DEF Poll
  <2>2. pos' \in Nat
    BY <1>5, <2>1 DEF Poll, Actual
  <2>3. image' \in Image
    BY <1>5, <2>1, <2>2 DEF Poll, Image
  <2> QED BY <1>5, <2>1, <2>2, <2>3 DEF Poll
<1>6. CASE AxisStep
  BY <1>6 DEF AxisStep
<1>7. CASE UNCHANGED vars
  BY <1>7 DEF vars
<1> QED BY <1>1, <1>2, <1>3, <1>4, <1>5, <1>6, <1>7 DEF Next, Program

-----------------------------------------------------------------------------
(* The image, the park and the arrival *)

\* Only a poll and the axis itself touch what PolledImage speaks of.
LEMMA PolledStep ==
  ASSUME FlagsOK, NumbersOK, PolledImage, [Next]_vars PROVE PolledImage'
<1> USE DEF FlagsOK, NumbersOK, PolledImage, program, slave
<1>1. CASE Poll
  BY <1>1 DEF Poll, Actual
<1>2. CASE AxisStep
  BY <1>2 DEF AxisStep
<1>3. CASE UNCHANGED <<image, servo, held, pos>>
  BY <1>3
<1>4. Program \/ Signal \/ Drop \/ UNCHANGED vars
        => UNCHANGED <<image, servo, held, pos>>
  BY DEF Program, Parking, StartMove, Travel, GiveUp, Signal, Drop, vars
<1> QED BY <1>1, <1>2, <1>3, <1>4 DEF Next

LEMMA ParkStep ==
  ASSUME FlagsOK, NumbersOK, PolledImage, ParkInv, [Next]_vars PROVE ParkInv'
<1> USE RunMoveAssumption
    DEF FlagsOK, NumbersOK, ParkInv, Unheard, Heard, Settled, program, slave
<1>1. CASE Parking
  <2>1. CASE /\ late < MaxLate /\ late' = late + 1 /\ lost' = lost
             /\ dpram' = from /\ in' = image
    BY <1>1, <2>1 DEF Parking, PolledImage
  <2>2. CASE lost' = lost + 1 /\ UNCHANGED <<dpram, in, late>>
    BY <1>1, <2>2 DEF Parking
  <2> QED BY <1>1, <2>1, <2>2 DEF Parking, Cycle
<1>2. CASE StartMove \/ GiveUp \/ Travel
  BY <1>2 DEF StartMove, GiveUp, Travel
<1>3. CASE Signal
  BY <1>3 DEF Signal
<1>4. CASE Poll
  BY <1>4 DEF Poll, Actual, PolledImage
<1>5. CASE AxisStep
  BY <1>5 DEF AxisStep
<1>6. CASE Drop
  BY <1>6 DEF Drop
<1>7. CASE UNCHANGED vars
  BY <1>7 DEF vars
<1> QED BY <1>1, <1>2, <1>3, <1>4, <1>5, <1>6, <1>7 DEF Next, Program

\* A park that was not cut short ends Settled: it outlasts the frames that can
\* be lost and those the slave can leave unheard.
LEMMA ParkOutlasts ==
  ASSUME NumbersOK, ParkInv, pc = "park", ~stop, cycles = Park PROVE Settled
  BY RunMoveAssumption DEF NumbersOK, ParkInv, Unheard, Heard

LEMMA ArrivalStep ==
  ASSUME FlagsOK, NumbersOK, PolledImage, ParkInv, ArrivalInv, [Next]_vars
  PROVE  ArrivalInv'
<1> USE DEF FlagsOK, NumbersOK, ArrivalInv, AtTarget, There, program, slave
<1>1. CASE Parking
  BY <1>1 DEF Parking
<1>2. CASE StartMove
  <2>1. CASE stop
    BY <1>2, <2>1 DEF StartMove
  <2>2. CASE ~stop
    <3>1. Settled
      BY <1>2, <2>2, ParkOutlasts DEF StartMove
    <3> QED BY <1>2, <3>1 DEF StartMove, Settled
  <2> QED BY <2>1, <2>2
<1>3. CASE Travel
  <2>1. There(in') => AtTarget'
    <3>1. CASE dpram' = to /\ in' = image
      BY <1>3, <3>1 DEF Travel, PolledImage
    <3>2. CASE UNCHANGED <<dpram, in>>
      BY <1>3, <3>2 DEF Travel
    <3> QED BY <1>3, <3>1, <3>2 DEF Travel, Cycle
  <2> QED BY <1>3, <2>1 DEF Travel
<1>4. CASE GiveUp
  BY <1>4 DEF GiveUp
<1>5. CASE Signal
  BY <1>5 DEF Signal
<1>6. CASE Poll
  BY <1>6 DEF Poll, Actual
<1>7. CASE AxisStep
  BY <1>7 DEF AxisStep
<1>8. CASE Drop
  BY <1>8 DEF Drop
<1>9. CASE UNCHANGED vars
  BY <1>9 DEF vars
<1> QED
  BY <1>1, <1>2, <1>3, <1>4, <1>5, <1>6, <1>7, <1>8, <1>9 DEF Next, Program

-----------------------------------------------------------------------------
(* The trace of a servo *)

LEMMA EchoStep ==
  ASSUME FlagsOK, NumbersOK, PolledImage, ParkInv, EchoInv, [Next]_vars
  PROVE  EchoInv'
<1> USE DEF FlagsOK, NumbersOK, EchoInv, PolledImage, program, slave
<1>1. CASE Parking
  BY <1>1 DEF Parking, Cycle, ParkInv
<1>2. CASE StartMove
  <2>1. CASE stop
    BY <1>2, <2>1 DEF StartMove, ParkInv
  <2>2. CASE ~stop
    <3>1. Settled
      BY <1>2, <2>2, ParkOutlasts DEF StartMove
    <3> QED BY <1>2, <3>1 DEF StartMove, Settled, ParkInv
  <2> QED BY <2>1, <2>2
<1>3. CASE Travel
  <2>1. CASE dpram' = to /\ in' = image
    <3>1. ASSUME servo, in.actual # image.actual
          PROVE  seen = <<>> /\ image.actual = to
      BY <1>3, <3>1 DEF Travel
    <3>2. ASSUME servo
          PROVE  /\ seen' \in {seen, Append(seen, image.actual)}
                 /\ image.actual = in.actual => seen' = seen
      BY <3>2, <1>3, <2>1 DEF Travel
    <3>3. Append(<<>>, image.actual) = <<image.actual>>
      OBVIOUS
    <3> QED BY <1>3, <2>1, <3>1, <3>2, <3>3 DEF Travel
  <2>2. CASE UNCHANGED <<dpram, in>>
    BY <1>3, <2>2 DEF Travel
  <2> QED BY <1>3, <2>1, <2>2 DEF Travel, Cycle
<1>4. CASE GiveUp
  BY <1>4 DEF GiveUp
<1>5. CASE Signal
  BY <1>5 DEF Signal
<1>6. CASE Poll
  BY <1>6 DEF Poll, Actual
<1>7. CASE AxisStep
  BY <1>7 DEF AxisStep
<1>8. CASE Drop
  BY <1>8 DEF Drop
<1>9. CASE UNCHANGED vars
  BY <1>9 DEF vars
<1> QED
  BY <1>1, <1>2, <1>3, <1>4, <1>5, <1>6, <1>7, <1>8, <1>9 DEF Next, Program

-----------------------------------------------------------------------------
(* The theorems *)

\* The inductive invariant of run_move.
THEOREM Inductive == Spec => []IInv
<1>1. ASSUME IInv, [Next]_vars PROVE IInv'
  BY <1>1, FlagsStep, NumbersStep, PolledStep, ParkStep, ArrivalStep, EchoStep,
     Zenon DEF IInv
<1> QED BY InitIInv, <1>1, PTL DEF Spec

\* Every variable keeps its type, and the trace never outgrows its array,
\* however long it is.
THEOREM TypeCorrect == Spec => []TypeOK
<1>1. IInv => TypeOK
  BY TypeParts DEF IInv
<1> QED BY Inductive, <1>1, PTL

\* "arrived=yes" is never printed of an axis that is not at the target, however
\* late the slave polls and however many frames are lost, as long as the park
\* outlasts both.
THEOREM ArrivesTruly == Spec => []ArrivalTrue
<1>1. IInv => ArrivalTrue
  BY DEF IInv, ArrivalInv, AtTarget, ArrivalTrue
<1> QED BY Inductive, <1>1, PTL

\* An actuator that echoes its command is told from a position counter.
THEOREM ServoShowsNone == Spec => []EchoShowsNone
<1>1. IInv => EchoShowsNone
  <2> SUFFICES ASSUME IInv, servo PROVE intermediates <= 0
    BY DEF EchoShowsNone
  <2>1. seen = <<>> \/ seen = <<in.actual>>
    BY DEF IInv, EchoInv
  <2> QED BY <2>1 DEF intermediates
<1> QED BY Inductive, <1>1, PTL
=============================================================================

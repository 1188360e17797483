------------------------------ MODULE RunMove ------------------------------
(***************************************************************************)
(* run_move of master/src/main.c, from the moment the slave is in OP: the  *)
(* park at the starting angle, the step change and the trace of it, over   *)
(* frames that may be lost and a slave that polls the ESC in its own time  *)
(* and may drop out of OP.  The axis is a stepper with a position counter  *)
(* or a servo, which reports its command (servo.c).                        *)
(***************************************************************************)
EXTENDS Integers, Sequences

CONSTANTS
  Angles,   \* target angles
  Park,     \* cycles of the park (200)
  Limit,    \* cycles until the program gives up (2000)
  Room,     \* length of the array seen (512)
  MaxLate,  \* frames between two polls of the slave
  MaxLost   \* bound on lost frames

\* The slave polls, and frames get through, while the program parks.
ASSUME RunMoveAssumption ==
  /\ 0 \in Angles /\ Angles \subseteq Nat
  /\ Park \in Nat /\ Limit \in Nat /\ Room \in Nat /\ MaxLate \in Nat \ {0} /\ MaxLost \in Nat
  /\ Park > MaxLate + MaxLost

VARIABLES
  \* the program
  pc, from, to, cycles,
  in,             \* the inputs in the IOmap
  prev, seen,     \* the trace: the last value of actual, those it changed to
  arrived, stop,
  \* the bus and the slave
  dpram,          \* outputs in the ESC
  image,          \* inputs in the ESC
  op,             \* the slave is in OP, not fallen to SAFEOP
  servo,          \* the node's actuator
  held, pos,      \* the target the slave acts on, the axis
  late, lost

program == <<from, to, in, prev, seen, arrived, stop>>
slave == <<image, op, servo, held, pos>>
vars == <<pc, cycles, program, dpram, slave, late, lost>>

Image == [echo : Nat, actual : Nat]

\* ecat_to_op has exchanged frames with an output image of zero.  The ESC's
\* inputs and the axis are what an earlier run has left.
Init ==
  /\ pc = "park" /\ from \in Angles /\ to \in Angles /\ cycles = 0
  /\ servo \in BOOLEAN
  /\ held \in Angles /\ pos \in (IF servo THEN {held} ELSE Angles)
  /\ image = [echo |-> held, actual |-> pos]
  /\ in \in {image, [echo |-> 0, actual |-> 0]}
  /\ prev = 0 /\ seen = <<>> /\ arrived = FALSE /\ stop = FALSE
  /\ dpram = 0 /\ op = TRUE /\ late = 0 /\ lost = 0

\* ecat_cycle.  The working counter is not looked at.
Cycle(target) ==
  \/ /\ late < MaxLate
     /\ dpram' = target
     /\ in' = image
     /\ late' = late + 1
     /\ UNCHANGED lost
  \/ /\ lost < MaxLost
     /\ lost' = lost + 1
     /\ UNCHANGED <<dpram, in, late>>

Parking ==
  /\ pc = "park" /\ cycles < Park /\ ~stop
  /\ Cycle(from)
  /\ cycles' = cycles + 1
  /\ UNCHANGED <<pc, from, to, prev, seen, arrived, stop, slave>>

\* The park is over after its cycles, wherever the axis is.
StartMove ==
  /\ pc = "park" /\ (cycles = Park \/ stop)
  /\ pc' = "travel"
  /\ cycles' = 0
  /\ prev' = in.actual
  /\ UNCHANGED <<from, to, in, seen, arrived, stop, dpram, slave, late, lost>>

\* Mutants: only the echo is compared; only the two fields with each other.
ThereByEcho(i) == i.echo = to
ThereByMatch(i) == i.actual = i.echo
There(i) == i.echo = to /\ i.actual = i.echo

\* Mutant: the array is taken to be long enough.
HasRoomAlways == TRUE
HasRoom == Len(seen) < Room

Travel ==
  /\ pc = "travel" /\ cycles < Limit /\ ~stop
  /\ Cycle(to)
  /\ seen' = IF in'.actual # prev /\ HasRoom THEN Append(seen, in'.actual)
             ELSE seen
  /\ prev' = in'.actual
  /\ IF There(in')
     THEN arrived' = TRUE /\ pc' = "done" /\ UNCHANGED cycles
     ELSE cycles' = cycles + 1 /\ UNCHANGED <<arrived, pc>>
  /\ UNCHANGED <<from, to, stop, slave>>

GiveUp ==
  /\ pc = "travel" /\ (cycles = Limit \/ stop)
  /\ pc' = "done"
  /\ UNCHANGED <<program, cycles, dpram, slave, late, lost>>

\* The transition to the final value is not an intermediate one.  Mutant: it is.
EveryTransition == Len(seen)
intermediates == IF seen # <<>> /\ seen[Len(seen)] = in.actual THEN Len(seen) - 1
                 ELSE Len(seen)

Signal ==
  /\ ~stop /\ stop' = TRUE
  /\ UNCHANGED <<pc, cycles, from, to, in, prev, seen, arrived, dpram, slave,
                 late, lost>>

\* servo_set_angle is instantaneous as far as servo_actual_angle can tell.
Actual(target) == IF servo THEN target ELSE pos

\* A poll of the slave: outputs are taken in OP only, inputs written in SAFEOP
\* too.
Poll ==
  /\ held' = IF op THEN dpram ELSE held
  /\ pos' = Actual(held')
  /\ image' = [echo |-> held', actual |-> pos']
  /\ late' = 0
  /\ UNCHANGED <<pc, cycles, program, dpram, op, servo, lost>>

\* The motion controller, one degree at a time.
AxisStep ==
  /\ pos # held
  /\ pos' = IF pos < held THEN pos + 1 ELSE pos - 1
  /\ UNCHANGED <<pc, cycles, program, dpram, image, op, servo, held, late, lost>>

\* The slave falls to SAFEOP and nobody brings it back.
Drop ==
  /\ op /\ op' = FALSE
  /\ UNCHANGED <<pc, cycles, program, dpram, image, servo, held, pos, late, lost>>

Program == Parking \/ StartMove \/ Travel \/ GiveUp
Next == Program \/ Signal \/ Poll \/ AxisStep \/ Drop

Spec == Init /\ [][Next]_vars

---------------------------------------------------------------------------
\* Properties.

\* The types of the program's, the bus's and the slave's variables.  The trace
\* never outgrows its array, however often the position changes.
TypeOK ==
  /\ pc \in {"park", "travel", "done"}
  /\ from \in Angles /\ to \in Angles /\ dpram \in Angles /\ held \in Angles
  /\ cycles \in Nat /\ in \in Image /\ image \in Image /\ prev \in Nat
  /\ seen \in Seq(Nat) /\ Len(seen) <= Room
  /\ arrived \in BOOLEAN /\ stop \in BOOLEAN /\ op \in BOOLEAN /\ servo \in BOOLEAN
  /\ pos \in Nat /\ late \in 0 .. MaxLate /\ lost \in 0 .. MaxLost

\* "arrived=yes" means that the axis stands at the target and will stay there,
\* although the inputs are some polls old, frames were lost, the slave may have
\* dropped out of OP, and an earlier run may have left the same angle in the ESC.
ArrivalTrue == arrived => pos = to /\ held = to

\* The count of intermediate values tells a position counter from an echo
\* (main.c:192): an actuator that reports its command shows none, as the park
\* outlasts what an earlier run left in the inputs.
EchoShowsNone == pc = "done" /\ servo => intermediates <= 0

=============================================================================

------------------------------- MODULE DcLoop -------------------------------
(***************************************************************************)
(* The master's cycle against the distributed clock (master/src/ecat.c,    *)
(* ecat_dc_correction): the phase of each frame in the clock's cycle is    *)
(* folded, and a proportional and an integral term stretch or shorten the  *)
(* next sleep.  Times are in nanoseconds.                                  *)
(***************************************************************************)
EXTENDS Integers

CONSTANTS
  Cycle,    \* ECAT_CYCLE_US * 1000
  Lead,     \* DC_MASTER_LEAD_NS
  Phases,   \* bus times at which the first frame may come, from power-on
  Drifts,   \* how much a cycle of the master may differ from one of the clock
  Losses    \* how many frames may be lost at first

ASSUME DcAssumption ==
  /\ Cycle \in Nat \ {0} /\ Lead \in Nat /\ 2 * Lead <= Cycle
  /\ Phases \subseteq Nat /\ Drifts \subseteq Nat /\ Losses \subseteq Nat

VARIABLES
  bus,        \* bus time at which this cycle's frame passes the slave
  ec_DCtime,  \* the last one a frame has brought back
  integral,
  dc_delta_ns,
  drift,
  gap         \* frames still to be lost

dcVars == <<bus, ec_DCtime, integral, dc_delta_ns, drift, gap>>

DcInit ==
  /\ bus \in Phases /\ ec_DCtime = bus
  /\ integral = 0 /\ dc_delta_ns = 0
  /\ drift \in Drifts \cup {-d : d \in Drifts}
  /\ gap \in Losses

\* C division and remainder, which go towards zero.
CDiv(a, b) == IF a >= 0 THEN a \div b ELSE -((-a) \div b)
CMod(a, b) == IF a >= 0 THEN a % b ELSE -((-a) % b)

\* The short way round.  Only the upper side needs folding: the bus time is
\* below the lead right after power-on only.  Mutant: no folding.
FoldNone(t) == CMod(t - Lead, Cycle)
Fold(t) == LET r == CMod(t - Lead, Cycle)
           IN  IF r > CDiv(Cycle, 2) THEN r - Cycle ELSE r

\* The integral counts signs.  Mutant: it only goes up.
IntegralUp(delta) == IF delta > 0 THEN integral + 1 ELSE integral
Integral(delta) == IF delta > 0 THEN integral + 1
                   ELSE IF delta < 0 THEN integral - 1 ELSE integral

Correction(delta, sum) == -CDiv(delta, 100) - CDiv(sum, 20)

\* The frame of a cycle, the correction and the sleep.  A lost frame leaves
\* ec_DCtime as it was, and the old error is corrected once more.  Bus time is
\* kept below two cycles, which no remainder can tell.
DcCycle ==
  LET reading == IF gap > 0 THEN ec_DCtime ELSE bus
      delta == Fold(reading)
      sum == Integral(delta)
  IN  /\ ec_DCtime' = reading
      /\ dc_delta_ns' = delta
      /\ integral' = sum
      /\ bus' = Cycle + ((bus + drift + Correction(delta, sum)) % Cycle)
      /\ gap' = IF gap > 0 THEN gap - 1 ELSE 0
      /\ UNCHANGED drift

DcSpec == DcInit /\ [][DcCycle]_dcVars /\ WF_dcVars(DcCycle)

---------------------------------------------------------------------------
\* The types of the loop's variables; the phase error is always the short way
\* round, also before the bus time has reached the lead.
DcTypeOK ==
  /\ bus \in Nat /\ ec_DCtime \in Nat /\ integral \in Int /\ drift \in Int
  /\ gap \in Nat
  /\ dc_delta_ns \in Int
  /\ -Cycle <= 2 * dc_delta_ns /\ 2 * dc_delta_ns <= Cycle

\* Wherever the master started in the clock's cycle and whatever the drift, it
\* comes to stay within the 100 ns the proportional term cannot see.
Locks == <>[](-100 < dc_delta_ns /\ dc_delta_ns < 100)

=============================================================================

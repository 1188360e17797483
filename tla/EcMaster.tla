------------------------------ MODULE EcMaster ------------------------------
(***************************************************************************)
(* The master's bus driver, master/src/ecat.c, on a bus of one slave:      *)
(* ecat_open, ecat_to_op, ecat_cycle, ecat_request_state and ecat_close,   *)
(* one action for each exchange with the bus, with the slave's AL state    *)
(* machine as the environment.  Frames are lost; the slave answers when it *)
(* likes, refuses, drops out of OP or restarts.  The module is a library:  *)
(* the commands of main.c (Commands) call it.                              *)
(***************************************************************************)
EXTENDS Integers, Sequences

CONSTANTS
  Tries,       \* retries of the OP check (40)
  RungTries,   \* checks on each rung of the way down (50)
  CycleMs,     \* ECAT_CYCLE_US
  ReturnMs,    \* EC_TIMEOUTRET, what a lost frame costs
  SafeopMs,    \* the timeout of the SAFEOP check (8 s)
  UpMs,        \* of an OP check
  DownMs,      \* of a check on a rung
  WD_MISSED_CYCLES,  \* cycles the slave may miss
  MaxLost,     \* bound on lost frames in a run of the program
  MaxUpsets    \* bound on errors and restarts of the slave in a run

ASSUME MasterAssumption ==
  /\ Tries \in Nat /\ RungTries \in Nat \ {0}
  /\ CycleMs \in Nat /\ ReturnMs \in Nat /\ SafeopMs \in Nat /\ UpMs \in Nat /\ DownMs \in Nat
  /\ WD_MISSED_CYCLES \in Nat /\ MaxLost \in Nat /\ MaxUpsets \in Nat

\* What ecat_arm_watchdog programs; the ESC's default is the same 100 ms, so a
\* write that is lost makes no difference.
WatchdogMs == WD_MISSED_CYCLES * CycleMs

\* No single wait outlasts the watchdog.
ASSUME TimeAssumption ==
  UpMs < WatchdogMs /\ CycleMs < WatchdogMs /\ DownMs < WatchdogMs

VARIABLES
  \* the ESC and the slave behind it
  al,        \* AL Status: state and error bit
  ask,       \* the request in AL Control the slave has not answered
  sync0,     \* SYNC0 runs
  silent,    \* ms since the slave was last fed, up to SilentCap
  \* the driver
  pc,
  slaves,    \* ec_slavecount
  state0,    \* ec_slave[0].state
  dc_active,
  rung,      \* i of the ladder loop
  tries,     \* what is left of a retry loop
  ok,
  \* faults and history of this run of the program
  lost, upsets,
  stubborn,  \* the slave refused or outwaited a legal request
  blind,     \* nothing answered the read that begins the way down
  wasOp,     \* ecat_to_op confirmed OP
  clocked,   \* ecat_to_op switched SYNC0 on
  dropped,   \* the slave left OP after that
  mute       \* the program withholds process data

slaveVars == <<al, ask, sync0, silent>>
driverVars == <<pc, slaves, state0, dc_active, rung, tries, ok>>
historyVars == <<lost, upsets, stubborn, blind, wasOp, clocked, dropped, mute>>
masterVars == <<slaveVars, driverVars, historyVars>>

State == {"INIT", "PREOP", "SAFEOP", "OP"}
Rank == [NONE |-> 0, INIT |-> 1, PREOP |-> 2, SAFEOP |-> 4, OP |-> 8]
NoAnswer == [state |-> "NONE", err |-> FALSE]
Plain(s) == [state |-> s, err |-> FALSE]
NoRequest == [state |-> "NONE", ack |-> FALSE]
Request(s, a) == [state |-> s, ack |-> a]
ladder == <<"SAFEOP", "PREOP", "INIT">>
SilentCap == WatchdogMs + 1
After(ms) == IF silent + ms > SilentCap THEN SilentCap ELSE silent + ms

Lose == lost < MaxLost /\ lost' = lost + 1

---------------------------------------------------------------------------
\* What the driver does to the bus.

\* ec_send_processdata and ec_receive_processdata, with the time to the next
\* step.  A frame that gets through feeds the watchdog; a lost one costs lostMs.
\* What it carries is the subject of RunMove.
Exchange(ms, lostMs) ==
  /\ \/ silent' = ms /\ mute' = FALSE /\ UNCHANGED lost
     \/ Lose /\ silent' = After(lostMs) /\ UNCHANGED mute
  /\ UNCHANGED <<al, ask, sync0, slaves, state0, dc_active, rung, ok, upsets,
                 stubborn, blind, wasOp, clocked, dropped>>

\* ec_writestate: one write of AL Control, not confirmed.
Writestate(s, a) ==
  \/ ask' = Request(s, a) /\ UNCHANGED lost
  \/ Lose /\ UNCHANGED ask

\* ec_statecheck: reads AL Status until it shows s or ms have passed.
Statecheck(s, ms) ==
  \/ /\ state0' = al
     /\ silent' \in (IF al.state = s THEN {silent} ELSE {}) \cup {After(ms)}
     /\ UNCHANGED lost
  \/ Lose /\ state0' = NoAnswer /\ silent' = After(ms)

\* A retry loop gives up on a request the slave still has, or takes it up again.
GivesUp == stubborn' = (stubborn \/ ask # NoRequest)

\* ecat_open with a socket.  ec_config_init takes the slave through INIT to
\* PREOP, unless there is none or it does not follow.
Enumerate(next) ==
  /\ pc' = next
  /\ \/ /\ slaves' = 0
        /\ UNCHANGED slaveVars
        /\ UNCHANGED stubborn
     \/ /\ slaves' = 1
        /\ ask' = NoRequest
        /\ silent' = 0
        /\ sync0' \in {sync0, FALSE}
        /\ \/ al' = Plain("PREOP") /\ UNCHANGED stubborn
           \/ al' \in {al, Plain("INIT")} /\ stubborn' = TRUE
  /\ UNCHANGED <<state0, dc_active, rung, tries, ok, lost, upsets, blind,
                 wasOp, clocked, dropped, mute>>

---------------------------------------------------------------------------
\* ecat_to_op.

\* What most steps leave alone: the slave as it is fed, and the rest.
still == <<al, silent>>
rest == <<slaves, ok, upsets, blind, clocked, dropped, mute>>

\* ec_config_map maps the image, programs the SyncManagers and asks for SAFEOP;
\* then the watchdog is armed.
ConfigMap ==
  /\ pc = "config" /\ pc' = "safeop"
  /\ Writestate("SAFEOP", FALSE)
  /\ UNCHANGED still
  /\ UNCHANGED rest
  /\ UNCHANGED <<sync0, state0, dc_active, rung, tries, stubborn, wasOp>>

AwaitSafeop ==
  /\ pc = "safeop"
  /\ Statecheck("SAFEOP", SafeopMs)
  /\ IF state0' = Plain("SAFEOP")
     THEN pc' = "clock" /\ UNCHANGED stubborn
     ELSE pc' = "down" /\ GivesUp
  /\ UNCHANGED rest
  /\ UNCHANGED <<al, ask, sync0, dc_active, rung, tries, wasOp>>

\* A slave without distributed clocks, or SERVO_DC=0, is left free-running.
FreeRun ==
  /\ pc = "clock" /\ pc' = "request"
  /\ dc_active' = FALSE
  /\ UNCHANGED slaveVars
  /\ UNCHANGED historyVars
  /\ UNCHANGED <<slaves, state0, rung, tries, ok>>

ActivateSync0 ==
  /\ pc = "clock" /\ pc' = "request"
  /\ dc_active' = TRUE
  /\ clocked' = TRUE
  /\ \/ sync0' = TRUE /\ UNCHANGED lost
     \/ Lose /\ UNCHANGED sync0
  /\ UNCHANGED still
  /\ UNCHANGED <<ask, slaves, state0, rung, tries, ok, upsets, stubborn, blind,
                 wasOp, dropped, mute>>

FirstExchange ==
  /\ pc = "request" /\ pc' = "write_op"
  /\ Exchange(0, ReturnMs)
  /\ UNCHANGED tries

RequestOp ==
  /\ pc = "write_op" /\ pc' = "op_exchange"
  /\ Writestate("OP", FALSE)
  /\ state0' = Plain("OP")
  /\ tries' = Tries
  /\ UNCHANGED still
  /\ UNCHANGED rest
  /\ UNCHANGED <<sync0, dc_active, rung, stubborn, wasOp>>

OpExchange ==
  /\ pc = "op_exchange" /\ pc' = "op_check"
  /\ Exchange(0, ReturnMs)
  /\ UNCHANGED tries

\* The condition of the do-while.
MoreTries == tries > 0

\* The end of the do-while and what follows it.  OP with the error bit is not OP.
OpCheck ==
  /\ pc = "op_check"
  /\ Statecheck("OP", UpMs)
  /\ \/ /\ state0' = Plain("OP")
        /\ pc' = "up"
        /\ wasOp' = TRUE
        /\ UNCHANGED <<tries, stubborn>>
     \/ /\ state0' # Plain("OP") /\ MoreTries
        /\ pc' = "op_exchange"
        /\ tries' = tries - 1
        /\ UNCHANGED <<stubborn, wasOp>>
     \/ /\ state0' # Plain("OP") /\ ~MoreTries
        /\ pc' = "down"
        /\ GivesUp
        /\ UNCHANGED <<tries, wasOp>>
  /\ UNCHANGED rest
  /\ UNCHANGED <<al, ask, sync0, dc_active, rung>>

ToOp == ConfigMap \/ AwaitSafeop \/ FreeRun \/ ActivateSync0 \/ FirstExchange
        \/ RequestOp \/ OpExchange \/ OpCheck

---------------------------------------------------------------------------
\* ecat_close, and ecat_request_state(EC_STATE_INIT).

\* SYNC0 is stopped if ecat_to_op activated it.  Mutant: only on a bus in OP.
StopsSync0InOp == dc_active /\ state0.state = "OP"
StopsSync0 == dc_active

Close ==
  /\ pc = "close"
  /\ IF slaves = 0
     THEN pc' = "closed" /\ UNCHANGED <<sync0, dc_active, lost>>
     ELSE /\ pc' = "readstate"
          /\ dc_active' = FALSE
          /\ IF StopsSync0
             THEN \/ sync0' = FALSE /\ UNCHANGED lost
                  \/ Lose /\ UNCHANGED sync0
             ELSE UNCHANGED <<sync0, lost>>
  /\ UNCHANGED still
  /\ UNCHANGED rest
  /\ UNCHANGED <<ask, state0, rung, tries, stubborn, wasOp>>

\* ec_readstate.  A read nobody answers leaves 0.
ReadState ==
  /\ pc = "readstate" /\ pc' = "rung"
  /\ rung' = 1
  /\ ok' = TRUE
  /\ \/ state0' = al /\ UNCHANGED <<lost, blind, silent>>
     \/ Lose /\ state0' = NoAnswer /\ blind' = TRUE /\ silent' = After(ReturnMs)
  /\ UNCHANGED <<al, ask, sync0, slaves, dc_active, tries, upsets, stubborn,
                 wasOp, clocked, dropped, mute>>

\* At or below this rung already.  Mutant: every rung is written.
NeverBelow(s) == FALSE
Below(s) == Rank[state0.state] <= Rank[s]

\* An error bit is acknowledged.  Mutant: it is not.
NeverAck == FALSE
InError == state0.err

\* One turn of the for loop up to its write.
Rung ==
  /\ pc = "rung"
  /\ IF rung > Len(ladder)
     THEN pc' = "closed" /\ UNCHANGED <<rung, ask, tries, lost>>
     ELSE IF Below(ladder[rung])
     THEN rung' = rung + 1 /\ UNCHANGED <<pc, ask, tries, lost>>
     ELSE /\ pc' = "rung_exchange"
          /\ Writestate(ladder[rung], InError)
          /\ tries' = RungTries
          /\ UNCHANGED rung
  /\ UNCHANGED still
  /\ UNCHANGED rest
  /\ UNCHANGED <<sync0, state0, dc_active, stubborn, wasOp>>

RungExchange ==
  /\ pc = "rung_exchange" /\ pc' = "rung_check"
  /\ Exchange(0, ReturnMs)
  /\ UNCHANGED tries

\* Mutants: one long wait instead of many short ones; the write is taken for
\* the deed.
LongTimeout == 20 * WatchdogMs
RungTimeout == DownMs
ReachedAnyway(s) == TRUE
Reached(s) == state0'.state = s

RungCheck ==
  /\ pc = "rung_check"
  /\ Statecheck(ladder[rung], RungTimeout)
  /\ tries' = tries - 1
  /\ \/ /\ Reached(ladder[rung])
        /\ pc' = IF ladder[rung] = "INIT" THEN "closed" ELSE "rung"
        /\ rung' = rung + 1
        /\ UNCHANGED <<ok, stubborn>>
     \/ /\ ~Reached(ladder[rung]) /\ tries > 1
        /\ pc' = "rung_exchange"
        /\ UNCHANGED <<rung, ok, stubborn>>
     \/ /\ ~Reached(ladder[rung]) /\ tries = 1
        /\ pc' = "closed"
        /\ ok' = FALSE
        /\ GivesUp
        /\ UNCHANGED rung
  /\ UNCHANGED <<al, ask, sync0, slaves, dc_active, upsets, blind, wasOp,
                 clocked, dropped, mute>>

WalkDown == Close \/ ReadState \/ Rung \/ RungExchange \/ RungCheck

---------------------------------------------------------------------------
\* The slave and its ESC.

Legal(s) ==
  \/ Rank[s] <= Rank[al.state]
  \/ <<al.state, s>> \in {<<"INIT", "PREOP">>, <<"PREOP", "SAFEOP">>,
                          <<"SAFEOP", "OP">>}

Leaves(s) == dropped' = (dropped \/ (wasOp /\ al.state = "OP" /\ s # "OP"))

\* A request is granted, refused with the error bit, or, while an error stands
\* that it does not acknowledge, ignored.
Answer ==
  /\ ask # NoRequest
  /\ ask' = NoRequest
  /\ \/ /\ Legal(ask.state)
        /\ al' = Plain(ask.state)
        /\ Leaves(ask.state)
        /\ UNCHANGED stubborn
     \/ /\ al.err /\ ~ask.ack
        /\ UNCHANGED <<al, stubborn, dropped>>
     \/ /\ al' = [al EXCEPT !.err = TRUE]
        /\ stubborn' = (stubborn \/ Legal(ask.state))
        /\ UNCHANGED dropped
  /\ UNCHANGED <<sync0, silent, lost, upsets, blind, wasOp, clocked, mute>>

WatchdogTrip ==
  /\ al.state = "OP" /\ silent >= WatchdogMs
  /\ al' = [state |-> "SAFEOP", err |-> TRUE]
  /\ Leaves("SAFEOP")
  /\ UNCHANGED <<ask, sync0, silent, lost, upsets, stubborn, blind, wasOp,
                 clocked, mute>>

\* The slave drops out of OP by itself, or its firmware restarts.
Upset ==
  /\ upsets < MaxUpsets
  /\ upsets' = upsets + 1
  /\ \/ /\ al.state = "OP"
        /\ al' = [state |-> "SAFEOP", err |-> TRUE]
        /\ UNCHANGED ask
     \/ /\ al' = Plain("INIT")
        /\ ask' = NoRequest
  /\ Leaves("SAFEOP")
  /\ UNCHANGED <<sync0, silent, lost, stubborn, blind, wasOp, clocked, mute>>

Slave == (Answer \/ WatchdogTrip \/ Upset) /\ UNCHANGED driverVars

=============================================================================

------------------------------ MODULE Commands ------------------------------
(***************************************************************************)
(* The master program, master/src/main.c with the two measurements of      *)
(* ecat.c: one process opens the bus, does what its command says, closes   *)
(* the bus and exits.  SIGINT, SIGTERM and SIGHUP set stop_requested,      *)
(* which only run_loop and run_move look at.                               *)
(***************************************************************************)
EXTENDS EcMaster

CONSTANTS
  Park,    \* cycles run_move waits at the starting angle (200)
  Limit,   \* cycles it waits for the arrival (2000)
  Feed     \* cycles the two measurements run before they look

ASSUME CommandsAssumption ==
  Park \in Nat /\ Limit \in Nat /\ Feed \in Nat

VARIABLES
  cmd,        \* argv[2]
  rc,         \* exit code, SUCCESS or FAILURE
  stop,       \* stop_requested
  count,      \* the loop counter of the command
  low         \* low_wkc > 0 or sdo_fail > 0

cmdVars == <<cmd, rc, stop, count, low>>
vars == <<masterVars, cmdVars>>

\* hold is op, set and sweep; offline is regs, gpio, buttons and sdo; bad is a
\* command that does not exist or whose arguments do not parse.
Motion == {"hold", "move", "wdtest", "sdotest"}
Command == Motion \cup {"alstate", "scan", "offline", "bad"}

\* The program starts on a bus as an earlier process has left it, closed or
\* killed in OP with SYNC0 running: its own static variables are zero.
Init ==
  /\ al \in [state : State, err : {FALSE}] \cup {[state |-> "SAFEOP", err |-> TRUE]}
  /\ ask = NoRequest /\ sync0 \in BOOLEAN /\ silent = SilentCap
  /\ pc = "start" /\ slaves = 0 /\ state0 = NoAnswer /\ dc_active = FALSE
  /\ rung = 1 /\ tries = 0 /\ ok = TRUE
  /\ lost = 0 /\ upsets = 0 /\ stubborn = FALSE /\ blind = FALSE
  /\ wasOp = FALSE /\ clocked = FALSE /\ dropped = FALSE /\ mute = FALSE
  /\ cmd \in Command /\ rc = "SUCCESS" /\ stop = FALSE
  /\ count = 0 /\ low = FALSE

---------------------------------------------------------------------------
\* main.

\* A step that only changes where the command is.
Turn == UNCHANGED <<slaveVars, historyVars, slaves, state0, dc_active, rung,
                    tries, ok>>

Finish(result) == rc' = result /\ pc' = "close"

\* alstate: one broadcast read, before anything is opened.
Probe ==
  /\ pc = "start" /\ cmd = "alstate"
  /\ pc' = "exit"
  /\ rc' \in {"SUCCESS", "FAILURE"}
  /\ Turn
  /\ UNCHANGED <<cmd, stop, count, low>>

\* ecat_open fails to get a socket: the program ends without ecat_close.
OpenFails ==
  /\ pc = "start" /\ cmd # "alstate"
  /\ pc' = "exit" /\ rc' = "FAILURE"
  /\ Turn
  /\ UNCHANGED <<cmd, stop, count, low>>

Open ==
  /\ pc = "start" /\ cmd # "alstate"
  /\ Enumerate("dispatch")
  /\ UNCHANGED cmdVars

\* The chain of comparisons after ecat_open, for what ends there.
Dispatch ==
  /\ pc = "dispatch"
  /\ \/ cmd = "scan" /\ Finish("SUCCESS")
     \/ cmd # "scan" /\ slaves = 0 /\ Finish("FAILURE")
     \/ cmd = "offline" /\ slaves > 0 /\ \E r \in {"SUCCESS", "FAILURE"} : Finish(r)
     \/ cmd = "bad" /\ Finish("FAILURE")
     \/ cmd \in Motion /\ slaves > 0 /\ pc' = "config" /\ UNCHANGED rc
  /\ Turn
  /\ UNCHANGED <<cmd, stop, count, low>>

\* ecat_to_op has returned.  A PDO mapping that does not fit ends the command.
Up ==
  /\ pc = "up"
  /\ \/ cmd # "wdtest" /\ Finish("FAILURE")
     \/ pc' = cmd /\ UNCHANGED rc
  /\ Turn
  /\ UNCHANGED <<cmd, stop, count, low>>

Down ==
  /\ pc = "down"
  /\ Finish("FAILURE")
  /\ Turn
  /\ UNCHANGED <<cmd, stop, count, low>>

\* main returns rc once ecat_close is done.
Exit ==
  /\ pc = "closed" /\ pc' = "exit"
  /\ Turn
  /\ UNCHANGED cmdVars

---------------------------------------------------------------------------
\* The commands that move the axis.

Cycle == Exchange(CycleMs, CycleMs) /\ UNCHANGED tries

\* Mutant: the loop does not look at stop_requested.
DeafLoop == TRUE
KeepsGoing == ~stop

\* run_loop.  How its frames fare is counted for the log only.
HoldCycle ==
  /\ pc = "hold" /\ KeepsGoing
  /\ Cycle
  /\ UNCHANGED pc
  /\ UNCHANGED cmdVars

HoldStops ==
  /\ pc = "hold" /\ ~KeepsGoing
  /\ Finish("SUCCESS")
  /\ Turn
  /\ UNCHANGED <<cmd, stop, count, low>>

\* run_move: the park at the starting angle, which ends after so many cycles
\* whatever the axis does.
Parked ==
  /\ pc = "move"
  /\ IF count < Park /\ ~stop
     THEN Cycle /\ count' = count + 1 /\ UNCHANGED pc
     ELSE Turn /\ pc' = "travel" /\ count' = 0
  /\ UNCHANGED <<cmd, rc, stop, low>>

\* One turn of the measuring loop, or its end.  Whether the image shows the
\* arrival is up to the axis (RunMove).
Travel ==
  /\ pc = "travel"
  /\ IF count < Limit /\ ~stop
     THEN /\ Cycle
          /\ \/ Finish("SUCCESS") /\ UNCHANGED count
             \/ count' = count + 1 /\ UNCHANGED <<pc, rc>>
     ELSE Turn /\ Finish("FAILURE") /\ UNCHANGED count
  /\ UNCHANGED <<cmd, stop, low>>

---------------------------------------------------------------------------
\* ecat_sdo_during_op.

Sdotest ==
  /\ pc = "sdotest" /\ count < Feed
  /\ Cycle
  /\ low' = (low \/ lost' # lost \/ al.state \notin {"SAFEOP", "OP"})
  /\ count' = count + 1
  /\ pc' \in {"sdotest"} \cup (IF count > 0 THEN {"sdo"} ELSE {})
  /\ UNCHANGED <<cmd, rc, stop>>

\* A mailbox read blocks the loop: answered within the cycle, or late or never,
\* for up to seven times the watchdog.
SdoRead ==
  /\ pc = "sdo" /\ pc' = "sdotest"
  /\ \/ UNCHANGED <<silent, low, mute>>
     \/ silent' = SilentCap /\ mute' = TRUE /\ low' \in {low, TRUE}
  /\ UNCHANGED <<al, ask, sync0, lost, upsets,
                 stubborn, blind, wasOp, clocked, dropped>>
  /\ UNCHANGED <<slaves, state0, dc_active, rung, tries, ok>>
  /\ UNCHANGED <<cmd, rc, stop, count>>

\* Mutant: the state is printed, not judged.
AnyState == TRUE
StillOp == al.state = "OP"

\* AL Status is read once more; nothing answering reads as 0.
SdotestEnds ==
  /\ pc = "sdotest" /\ count = Feed
  /\ \/ /\ Finish(IF ~low /\ StillOp THEN "SUCCESS" ELSE "FAILURE")
        /\ UNCHANGED lost
     \/ Lose /\ Finish("FAILURE")
  /\ UNCHANGED slaveVars
  /\ UNCHANGED <<upsets, stubborn, blind, wasOp, clocked, dropped, mute>>
  /\ UNCHANGED <<slaves, state0, dc_active, rung, tries, ok>>
  /\ UNCHANGED <<cmd, stop, count, low>>

\* ecat_watchdog_test: feeds, looks whether the watchdog runs, withholds
\* process data until it trips, waits for AL Status to show it.
WdFeed ==
  /\ pc = "wdtest" /\ count < Feed
  /\ Cycle
  /\ count' = count + 1
  /\ UNCHANGED pc
  /\ UNCHANGED <<cmd, rc, stop, low>>

\* 0x0440 does not read as running, or the data stops.
WdSilence ==
  /\ pc = "wdtest" /\ count = Feed
  /\ \/ Finish("FAILURE") /\ UNCHANGED <<silent, mute>>
     \/ pc' = "wd_al" /\ silent' = SilentCap /\ mute' = TRUE /\ UNCHANGED rc
     \/ Finish("FAILURE") /\ silent' = SilentCap /\ mute' = TRUE
  /\ UNCHANGED <<al, ask, sync0, lost, upsets,
                 stubborn, blind, wasOp, clocked, dropped>>
  /\ UNCHANGED <<slaves, state0, dc_active, rung, tries, ok>>
  /\ UNCHANGED <<cmd, stop, count, low>>

\* AL Status shows the error, or six seconds are over: the test passes.
WdEnds ==
  /\ pc = "wd_al"
  /\ Finish("SUCCESS")
  /\ Turn
  /\ UNCHANGED <<cmd, stop, count, low>>

---------------------------------------------------------------------------
\* What comes from outside.

Signal ==
  /\ pc \notin {"start", "exit"} /\ cmd # "alstate"
  /\ ~stop /\ stop' = TRUE
  /\ UNCHANGED masterVars
  /\ UNCHANGED <<cmd, rc, count, low>>

Driver == (ToOp \/ WalkDown) /\ UNCHANGED cmdVars

Program == \/ Probe \/ OpenFails \/ Open \/ Dispatch \/ Up \/ Down \/ Exit
           \/ HoldCycle \/ HoldStops \/ Parked \/ Travel
           \/ Sdotest \/ SdoRead \/ SdotestEnds \/ WdFeed \/ WdSilence \/ WdEnds
           \/ Driver

Next == Program \/ Signal \/ (Slave /\ UNCHANGED cmdVars)

Spec == Init /\ [][Next]_vars

\* The program is scheduled; nothing is assumed of the slave.
LiveSpec == Spec /\ WF_vars(Program)

---------------------------------------------------------------------------
\* Properties.

\* The types of the bus's, the driver's and the program's variables.
TypeOK ==
  /\ al \in [state : State, err : BOOLEAN]
  /\ ask \in [state : State \cup {"NONE"}, ack : BOOLEAN]
  /\ state0 \in [state : State \cup {"NONE"}, err : BOOLEAN]
  /\ silent \in 0 .. SilentCap /\ slaves \in 0 .. 1
  /\ rung \in 1 .. Len(ladder) + 1 /\ tries \in Nat /\ count \in Nat
  /\ lost \in 0 .. MaxLost /\ upsets \in 0 .. MaxUpsets
  /\ {sync0, dc_active, ok, stubborn, blind, wasOp, clocked, dropped, mute, stop,
      low} \subseteq BOOLEAN
  /\ cmd \in Command /\ rc \in {"SUCCESS", "FAILURE"}

\* ecat_request_state may be believed: when it has returned true to ecat_close
\* the slave is in INIT, whatever was lost and however late the slave was, as
\* long as its first read was answered.
LeftInInit == pc = "closed" /\ slaves > 0 /\ ok /\ ~blind => al.state = "INIT"

\* A slave that grants what it may is brought to OP and down again: nothing it
\* can be found in (an error latched by the watchdog, a request of the way up
\* still standing, a state below the first rung) makes the master ask for what
\* the slave must refuse or may ignore.
WillingSlaveServed ==
  ~stubborn /\ lost = 0 /\ upsets = 0 => pc # "down" /\ ok

\* The way down never asks a slave to climb: acting on a stale or empty cached
\* state did (comment at ecat.c:751).
NeverClimbs ==
  [][pc = "rung" /\ ask' # ask /\ upsets = 0 => Rank[ask'.state] <= Rank[al.state]]_vars

\* A slave that was brought to OP and is still there is fed inside its
\* watchdog, through the last check of the way up and while the master waits for
\* it to leave, unless the program withholds the data on purpose or waits for a
\* mailbox.
FedInOp ==
  wasOp /\ al.state = "OP" /\ ~mute /\ lost = 0
    => silent < WatchdogMs

\* A process that switched SYNC0 on and closes the bus switches it off.
QuietWhenLeft == pc = "closed" /\ clocked /\ lost = 0 => ~sync0

\* sdotest passes only if the slave stayed in OP from to_op to its last look.
KeptOp ==
  [][pc = "sdotest" /\ pc' = "close" /\ rc' = "SUCCESS" => wasOp /\ ~dropped]_vars

\* Every command ends, the endless ones once they are told to stop: no loop
\* waits for a slave that is silent, stubborn or gone.
CommandEnds == (pc # "exit" /\ (cmd # "hold" \/ stop)) ~> (pc = "exit")

=============================================================================

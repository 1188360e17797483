--------------------------- MODULE CommandsProofs ---------------------------
(***************************************************************************)
(* The safety of the master's programs on any number of retries, for any   *)
(* number of lost frames and upsets of the slave.                          *)
(***************************************************************************)
EXTENDS Commands, TLAPS

Places ==
  {"start", "dispatch", "config", "safeop", "clock", "request", "write_op",
   "op_exchange", "op_check", "up", "down", "hold", "move", "travel", "wdtest",
   "wd_al", "sdotest", "sdo", "close", "readstate", "rung", "rung_exchange",
   "rung_check", "closed", "exit"}

Ladder == {"rung_exchange", "rung_check"}
Walk == {"readstate", "rung"} \cup Ladder
Early == {"start", "dispatch", "config", "safeop", "clock"}
Climb == {"config", "safeop", "clock", "request", "write_op", "op_exchange",
          "op_check", "up"}
Raising == Early \cup {"request", "write_op", "op_exchange", "op_check", "down"}

\* TypeOK in the parts the provers take.
FlagsOK ==
  /\ sync0 \in BOOLEAN /\ dc_active \in BOOLEAN /\ ok \in BOOLEAN
  /\ stubborn \in BOOLEAN /\ blind \in BOOLEAN /\ wasOp \in BOOLEAN
  /\ clocked \in BOOLEAN /\ dropped \in BOOLEAN /\ mute \in BOOLEAN
  /\ stop \in BOOLEAN /\ low \in BOOLEAN

RestOK ==
  /\ al \in [state : State, err : BOOLEAN]
  /\ ask \in [state : State \cup {"NONE"}, ack : BOOLEAN]
  /\ state0 \in [state : State \cup {"NONE"}, err : BOOLEAN]
  /\ silent \in 0 .. SilentCap /\ slaves \in 0 .. 1
  /\ rung \in 1 .. 4 /\ tries \in Nat /\ count \in Nat
  /\ lost \in 0 .. MaxLost /\ upsets \in 0 .. MaxUpsets
  /\ cmd \in Command /\ rc \in {"SUCCESS", "FAILURE"}
  /\ pc \in Places
  /\ ask.state = "NONE" => ask = NoRequest
  /\ pc \in Ladder => rung <= 3 /\ tries >= 1
  /\ pc \in Climb => cmd \in Motion

LEMMA ConstantsOK ==
  /\ WatchdogMs \in Nat /\ SilentCap \in Nat /\ SilentCap > 0
  /\ 0 \in 0 .. SilentCap /\ CycleMs \in 0 .. SilentCap
  /\ Len(ladder) = 3
  /\ ladder[1] = "SAFEOP" /\ ladder[2] = "PREOP" /\ ladder[3] = "INIT"
<1>1. WatchdogMs \in Nat
  BY MasterAssumption DEF WatchdogMs
<1>2. CycleMs \in Nat /\ CycleMs < WatchdogMs
  BY MasterAssumption, TimeAssumption
<1>3. Len(ladder) = 3 /\ ladder[1] = "SAFEOP" /\ ladder[2] = "PREOP" /\ ladder[3] = "INIT"
  BY DEF ladder
<1> QED BY <1>1, <1>2, <1>3 DEF SilentCap

LEMMA TypeParts == TypeOK /\ pc \in Places
                   /\ (ask.state = "NONE" => ask = NoRequest)
                   /\ (pc \in Ladder => rung <= 3 /\ tries >= 1)
                   /\ (pc \in Climb => cmd \in Motion)
                   <=> FlagsOK /\ RestOK
<1>1. {sync0, dc_active, ok, stubborn, blind, wasOp, clocked, dropped, mute, stop,
       low} \subseteq BOOLEAN <=> FlagsOK
  BY Zenon DEF FlagsOK
<1> DEFINE numbers ==
      /\ al \in [state : State, err : BOOLEAN]
      /\ ask \in [state : State \cup {"NONE"}, ack : BOOLEAN]
      /\ state0 \in [state : State \cup {"NONE"}, err : BOOLEAN]
      /\ silent \in 0 .. SilentCap /\ slaves \in 0 .. 1
      /\ rung \in 1 .. Len(ladder) + 1 /\ tries \in Nat /\ count \in Nat
      /\ lost \in 0 .. MaxLost /\ upsets \in 0 .. MaxUpsets
      /\ cmd \in Command /\ rc \in {"SUCCESS", "FAILURE"}
<1>2. TypeOK <=> numbers /\ FlagsOK
  BY <1>1, Zenon DEF TypeOK
<1>3. RestOK <=> /\ numbers
                 /\ pc \in Places
                 /\ ask.state = "NONE" => ask = NoRequest
                 /\ pc \in Ladder => rung <= 3 /\ tries >= 1
                 /\ pc \in Climb => cmd \in Motion
  BY ConstantsOK DEF RestOK
<1> QED BY <1>2, <1>3, Zenon

LEMMA FlagsInit == Init => FlagsOK
  BY Zenon DEF Init, FlagsOK

\* The records the model builds.
LEMMA RecordsOK ==
  /\ \A s \in State : Plain(s) \in [state : State, err : BOOLEAN]
  /\ \A x \in [state : State, err : BOOLEAN] :
       /\ [x EXCEPT !.err = TRUE] \in [state : State, err : BOOLEAN]
       /\ x \in [state : State \cup {"NONE"}, err : BOOLEAN]
  /\ [state |-> "SAFEOP", err |-> TRUE] \in [state : State, err : BOOLEAN]
  /\ NoAnswer \in [state : State \cup {"NONE"}, err : BOOLEAN]
  /\ NoRequest \in [state : State \cup {"NONE"}, ack : BOOLEAN]
<1> USE DEF State
<1>1. \A s \in State : Plain(s) \in [state : State, err : BOOLEAN]
  BY DEF Plain
<1>2. ASSUME NEW x \in [state : State, err : BOOLEAN]
      PROVE  /\ [x EXCEPT !.err = TRUE] \in [state : State, err : BOOLEAN]
             /\ x \in [state : State \cup {"NONE"}, err : BOOLEAN]
  OBVIOUS
<1>3. [state |-> "SAFEOP", err |-> TRUE] \in [state : State, err : BOOLEAN]
  OBVIOUS
<1>4. NoAnswer \in [state : State \cup {"NONE"}, err : BOOLEAN]
  BY DEF NoAnswer
<1>5. NoRequest \in [state : State \cup {"NONE"}, ack : BOOLEAN]
  BY DEF NoRequest
<1> QED BY <1>1, <1>2, <1>3, <1>4, <1>5

LEMMA RestInit == Init => RestOK
<1> SUFFICES ASSUME Init PROVE RestOK
  OBVIOUS
<1>1. al \in [state : State, err : BOOLEAN]
  <2>1. CASE al \in [state : State, err : {FALSE}]
    BY <2>1
  <2>2. CASE al = [state |-> "SAFEOP", err |-> TRUE]
    BY <2>2 DEF State
  <2> QED BY <2>1, <2>2 DEF Init
<1>2. /\ ask \in [state : State \cup {"NONE"}, ack : BOOLEAN]
      /\ ask.state = "NONE" => ask = NoRequest
  BY DEF Init, NoRequest
<1>3. state0 \in [state : State \cup {"NONE"}, err : BOOLEAN]
  BY DEF Init, NoAnswer
<1>4. /\ silent \in 0 .. SilentCap /\ slaves \in 0 .. 1
      /\ rung \in 1 .. 4 /\ tries \in Nat /\ count \in Nat
      /\ lost \in 0 .. MaxLost /\ upsets \in 0 .. MaxUpsets
      /\ cmd \in Command /\ rc \in {"SUCCESS", "FAILURE"}
      /\ pc \in Places /\ pc \notin Ladder /\ pc \notin Climb
  BY MasterAssumption, ConstantsOK DEF Init, Places, Ladder, Climb
<1> QED BY <1>1, <1>2, <1>3, <1>4 DEF RestOK

\* What the driver's calls do, for the actions made of them.

LEMMA AfterOK == ASSUME RestOK, NEW ms \in Nat PROVE After(ms) \in 0 .. SilentCap
  BY ConstantsOK DEF RestOK, After

LEMMA LoseOK == ASSUME RestOK, Lose PROVE lost' \in 0 .. MaxLost
  BY MasterAssumption DEF RestOK, Lose

LEMMA ExchangeOK ==
  ASSUME RestOK, NEW ms \in 0 .. SilentCap, NEW lostMs \in Nat, Exchange(ms, lostMs)
  PROVE  /\ silent' \in 0 .. SilentCap /\ lost' \in 0 .. MaxLost
         /\ UNCHANGED <<al, ask, state0, slaves, rung, upsets>>
<1>1. silent' \in {ms, After(lostMs)} /\ (lost' = lost \/ Lose)
      /\ UNCHANGED <<al, ask, state0, slaves, rung, upsets>>
  BY Zenon DEF Exchange
<1>2. silent' \in 0 .. SilentCap
  BY <1>1, AfterOK
<1>3. lost' \in 0 .. MaxLost
  BY <1>1, LoseOK DEF RestOK
<1> QED BY <1>1, <1>2, <1>3

LEMMA WritestateOK ==
  ASSUME RestOK, NEW s \in State, NEW a \in BOOLEAN, Writestate(s, a)
  PROVE  /\ ask' \in [state : State \cup {"NONE"}, ack : BOOLEAN]
         /\ ask'.state = "NONE" => ask' = NoRequest
         /\ lost' \in 0 .. MaxLost
<1>1. \/ ask' = Request(s, a) /\ lost' = lost
      \/ Lose /\ ask' = ask
  BY Zenon DEF Writestate
<1>2. CASE ask' = Request(s, a) /\ lost' = lost
  BY <1>2 DEF Request, State, RestOK
<1>3. CASE Lose /\ ask' = ask
  BY <1>3, LoseOK DEF RestOK
<1> QED BY <1>1, <1>2, <1>3

LEMMA StatecheckOK ==
  ASSUME RestOK, NEW s \in State, NEW ms \in Nat, Statecheck(s, ms)
  PROVE  /\ state0' \in [state : State \cup {"NONE"}, err : BOOLEAN]
         /\ silent' \in 0 .. SilentCap
         /\ lost' \in 0 .. MaxLost
<1>1. /\ silent' \in {silent, After(ms)}
      /\ state0' \in {al, NoAnswer}
      /\ lost' = lost \/ Lose
  BY DEF Statecheck
<1>2. silent' \in 0 .. SilentCap
  BY <1>1, AfterOK DEF RestOK
<1>3. lost' \in 0 .. MaxLost
  BY <1>1, LoseOK DEF RestOK
<1>4. state0' \in [state : State \cup {"NONE"}, err : BOOLEAN]
  BY <1>1, RecordsOK DEF RestOK
<1> QED BY <1>2, <1>3, <1>4

LEMMA FlagsStep == ASSUME FlagsOK, [Next]_vars PROVE FlagsOK'
<1> USE DEF FlagsOK
<1>1. CASE Probe
  BY <1>1, Zenon DEF Probe, Turn, slaveVars, historyVars
<1>2. CASE OpenFails
  BY <1>2, Zenon DEF OpenFails, Turn, slaveVars, historyVars
<1>3. CASE Open
  BY <1>3, Zenon DEF Open, Enumerate, slaveVars, cmdVars
<1>4. CASE Dispatch
  BY <1>4, Zenon DEF Dispatch, Finish, Turn, slaveVars, historyVars
<1>5. CASE Up
  BY <1>5, Zenon DEF Up, Finish, Turn, slaveVars, historyVars
<1>6. CASE Down
  BY <1>6, Zenon DEF Down, Finish, Turn, slaveVars, historyVars
<1>7. CASE Exit
  BY <1>7, Zenon DEF Exit, cmdVars, Turn, slaveVars, historyVars
<1>8. CASE HoldCycle
  BY <1>8, Zenon DEF HoldCycle, cmdVars, Cycle, Exchange, Lose
<1>9. CASE HoldStops
  BY <1>9, Zenon DEF HoldStops, Finish, Turn, slaveVars, historyVars
<1>10. CASE Parked
  BY <1>10, Zenon DEF Parked, Turn, slaveVars, historyVars, Cycle, Exchange, Lose
<1>11. CASE Travel
  BY <1>11, Zenon DEF Travel, Finish, Turn, slaveVars, historyVars, Cycle,
     Exchange, Lose
<1>12. CASE Sdotest
  BY <1>12, Zenon DEF Sdotest, Cycle, Exchange, Lose
<1>13. CASE SdoRead
  BY <1>13, Zenon DEF SdoRead
<1>14. CASE SdotestEnds
  BY <1>14, Zenon DEF SdotestEnds, Finish, slaveVars, Lose
<1>15. CASE WdFeed
  BY <1>15, Zenon DEF WdFeed, Cycle, Exchange, Lose
<1>16. CASE WdSilence
  BY <1>16, Zenon DEF WdSilence, Finish
<1>17. CASE WdEnds
  BY <1>17, Zenon DEF WdEnds, Finish, Turn, slaveVars, historyVars
<1>18. CASE ConfigMap /\ UNCHANGED cmdVars
  BY <1>18, Zenon DEF ConfigMap, Writestate, Lose, still, rest, cmdVars
<1>19. CASE AwaitSafeop /\ UNCHANGED cmdVars
  BY <1>19, Zenon DEF AwaitSafeop, Statecheck, Lose, rest, GivesUp, cmdVars
<1>20. CASE FreeRun /\ UNCHANGED cmdVars
  BY <1>20, Zenon DEF FreeRun, slaveVars, historyVars, cmdVars
<1>21. CASE ActivateSync0 /\ UNCHANGED cmdVars
  BY <1>21, Zenon DEF ActivateSync0, Lose, still, cmdVars
<1>22. CASE FirstExchange /\ UNCHANGED cmdVars
  BY <1>22, Zenon DEF FirstExchange, Exchange, Lose, cmdVars
<1>23. CASE RequestOp /\ UNCHANGED cmdVars
  BY <1>23, Zenon DEF RequestOp, Writestate, Lose, still, rest, cmdVars
<1>24. CASE OpExchange /\ UNCHANGED cmdVars
  BY <1>24, Zenon DEF OpExchange, Exchange, Lose, cmdVars
<1>25. CASE OpCheck /\ UNCHANGED cmdVars
  BY <1>25, Zenon DEF OpCheck, MoreTries, Statecheck, Lose, rest, GivesUp, cmdVars
<1>26. CASE Close /\ UNCHANGED cmdVars
  BY <1>26, Zenon DEF Close, StopsSync0, Lose, still, rest, cmdVars
<1>27. CASE ReadState /\ UNCHANGED cmdVars
  BY <1>27, Zenon DEF ReadState, Lose, cmdVars
<1>28. CASE Rung /\ UNCHANGED cmdVars
  BY <1>28, Zenon DEF Rung, Below, Writestate, Lose, still, rest, cmdVars
<1>29. CASE RungExchange /\ UNCHANGED cmdVars
  BY <1>29, Zenon DEF RungExchange, Exchange, Lose, cmdVars
<1>30. CASE RungCheck /\ UNCHANGED cmdVars
  BY <1>30, Zenon DEF RungCheck, Reached, RungTimeout, Statecheck, Lose, GivesUp,
     cmdVars
<1>31. CASE Answer /\ UNCHANGED <<driverVars, cmdVars>>
  BY <1>31, Zenon DEF Answer, Legal, Leaves, cmdVars, driverVars
<1>32. CASE WatchdogTrip /\ UNCHANGED <<driverVars, cmdVars>>
  BY <1>32, Zenon DEF WatchdogTrip, Leaves, cmdVars, driverVars
<1>33. CASE Upset /\ UNCHANGED <<driverVars, cmdVars>>
  BY <1>33, Zenon DEF Upset, Leaves, cmdVars, driverVars
<1>34. CASE Signal
  BY <1>34, Zenon DEF Signal, masterVars, slaveVars, driverVars, historyVars
<1>35. CASE UNCHANGED vars
  BY <1>35, Zenon DEF vars, masterVars, slaveVars, driverVars, historyVars,
     cmdVars
<1> QED BY <1>1, <1>2, <1>3, <1>4, <1>5, <1>6, <1>7, <1>8, <1>9, <1>10,
        <1>11, <1>12, <1>13, <1>14, <1>15, <1>16, <1>17, <1>18, <1>19,
        <1>20, <1>21, <1>22, <1>23, <1>24, <1>25, <1>26, <1>27, <1>28,
        <1>29, <1>30, <1>31, <1>32, <1>33, <1>34, <1>35, Zenon
        DEF Next, Program, Driver, ToOp, WalkDown, Slave

LEMMA RestStep == ASSUME RestOK, [Next]_vars PROVE RestOK'
<1> USE MasterAssumption, CommandsAssumption, ConstantsOK
    DEF RestOK, Places, Ladder, Climb, Motion
<1>1. CASE Probe
  BY <1>1 DEF Probe, Turn, slaveVars, historyVars
<1>2. CASE OpenFails
  BY <1>2 DEF OpenFails, Turn, slaveVars, historyVars
<1>3. CASE Open
  <2>1. al' \in [state : State, err : BOOLEAN]
    <3>1. \/ al' = al
          \/ al' = Plain("PREOP")
          \/ al' = Plain("INIT")
      BY <1>3 DEF Open, Enumerate, slaveVars
    <3> QED BY <3>1, RecordsOK DEF State
  <2>2. /\ slaves' \in 0 .. 1 /\ silent' \in 0 .. SilentCap
        /\ ask' = ask \/ ask' = NoRequest
    <3>1. \/ slaves' = 0 /\ silent' = silent /\ ask' = ask
          \/ slaves' = 1 /\ silent' = 0 /\ ask' = NoRequest
      BY <1>3 DEF Open, Enumerate, slaveVars
    <3> QED BY <3>1
  <2>3. /\ pc' = "dispatch"
        /\ UNCHANGED <<state0, rung, tries, count, lost, upsets, cmd, rc>>
    BY <1>3 DEF Open, Enumerate, cmdVars
  <2> QED BY <2>1, <2>2, <2>3, RecordsOK DEF NoRequest
<1>4. CASE Dispatch
  BY <1>4 DEF Dispatch, Finish, Turn, slaveVars, historyVars
<1>5. CASE Up
  <2>1. cmd \in Motion /\ pc' \in {"close", cmd} /\ rc' \in {rc, "FAILURE"}
    BY <1>5 DEF Up, Finish
  <2>2. pc' \in Places /\ pc' \notin Ladder /\ pc' \notin Climb
    BY <2>1
  <2> QED BY <1>5, <2>1, <2>2 DEF Up, Turn, slaveVars, historyVars
<1>6. CASE Down
  BY <1>6 DEF Down, Finish, Turn, slaveVars, historyVars
<1>7. CASE Exit
  BY <1>7 DEF Exit, cmdVars, Turn, slaveVars, historyVars
<1>8. CASE HoldCycle
  <2>1. /\ silent' \in 0 .. SilentCap /\ lost' \in 0 .. MaxLost
        /\ UNCHANGED <<al, ask, state0, slaves, rung, upsets>>
    BY <1>8, ExchangeOK DEF HoldCycle, Cycle
  <2> QED BY <1>8, <2>1 DEF HoldCycle, Cycle, cmdVars
<1>9. CASE HoldStops
  BY <1>9 DEF HoldStops, Finish, Turn, slaveVars, historyVars
<1>10. CASE Parked
  <2>1. CASE count < Park /\ ~stop
    <3>1. /\ silent' \in 0 .. SilentCap /\ lost' \in 0 .. MaxLost
        /\ UNCHANGED <<al, ask, state0, slaves, rung, upsets>>
      BY <1>10, <2>1, ExchangeOK DEF Parked, Cycle
    <3> QED BY <1>10, <2>1, <3>1 DEF Parked, Cycle, Finish
  <2>2. CASE ~(count < Park /\ ~stop)
    BY <1>10, <2>2 DEF Parked, Finish, Turn, slaveVars, historyVars
  <2> QED BY <2>1, <2>2
<1>11. CASE Travel
  <2>1. CASE count < Limit /\ ~stop
    <3>1. /\ silent' \in 0 .. SilentCap /\ lost' \in 0 .. MaxLost
        /\ UNCHANGED <<al, ask, state0, slaves, rung, upsets>>
      BY <1>11, <2>1, ExchangeOK DEF Travel, Cycle
    <3> QED BY <1>11, <2>1, <3>1 DEF Travel, Cycle, Finish
  <2>2. CASE ~(count < Limit /\ ~stop)
    BY <1>11, <2>2 DEF Travel, Finish, Turn, slaveVars, historyVars
  <2> QED BY <2>1, <2>2
<1>12. CASE Sdotest
  <2>1. /\ silent' \in 0 .. SilentCap /\ lost' \in 0 .. MaxLost
        /\ UNCHANGED <<al, ask, state0, slaves, rung, upsets>>
    BY <1>12, ExchangeOK DEF Sdotest, Cycle
  <2> QED BY <1>12, <2>1 DEF Sdotest, Cycle, cmdVars
<1>13. CASE SdoRead
  <2>1. silent' \in {silent, SilentCap}
    BY <1>13 DEF SdoRead
  <2> QED BY <1>13, <2>1 DEF SdoRead
<1>14. CASE SdotestEnds
  BY <1>14 DEF SdotestEnds, Finish, slaveVars, Lose
<1>15. CASE WdFeed
  <2>1. /\ silent' \in 0 .. SilentCap /\ lost' \in 0 .. MaxLost
        /\ UNCHANGED <<al, ask, state0, slaves, rung, upsets>>
    BY <1>15, ExchangeOK DEF WdFeed, Cycle
  <2> QED BY <1>15, <2>1 DEF WdFeed, Cycle, cmdVars
<1>16. CASE WdSilence
  BY <1>16 DEF WdSilence, Finish
<1>17. CASE WdEnds
  BY <1>17 DEF WdEnds, Finish, Turn, slaveVars, historyVars
<1>18. CASE ConfigMap /\ UNCHANGED cmdVars
  <2>1. /\ ask' \in [state : State \cup {"NONE"}, ack : BOOLEAN]
        /\ ask'.state = "NONE" => ask' = NoRequest
        /\ lost' \in 0 .. MaxLost
    BY <1>18, WritestateOK DEF ConfigMap, State
  <2> QED BY <1>18, <2>1 DEF ConfigMap, still, rest, Plain, cmdVars
<1>19. CASE AwaitSafeop /\ UNCHANGED cmdVars
  <2>1. /\ state0' \in [state : State \cup {"NONE"}, err : BOOLEAN]
        /\ silent' \in 0 .. SilentCap
        /\ lost' \in 0 .. MaxLost
    BY <1>19, StatecheckOK DEF AwaitSafeop, State
  <2> QED BY <1>19, <2>1 DEF AwaitSafeop, rest, cmdVars
<1>20. CASE FreeRun /\ UNCHANGED cmdVars
  BY <1>20 DEF FreeRun, slaveVars, historyVars, cmdVars
<1>21. CASE ActivateSync0 /\ UNCHANGED cmdVars
  BY <1>21 DEF ActivateSync0, Lose, still, cmdVars
<1>22. CASE FirstExchange /\ UNCHANGED cmdVars
  <2>1. /\ silent' \in 0 .. SilentCap /\ lost' \in 0 .. MaxLost
        /\ UNCHANGED <<al, ask, state0, slaves, rung, upsets>>
    BY <1>22, ExchangeOK DEF FirstExchange
  <2> QED BY <1>22, <2>1 DEF FirstExchange, cmdVars
<1>23. CASE RequestOp /\ UNCHANGED cmdVars
  <2>1. /\ ask' \in [state : State \cup {"NONE"}, ack : BOOLEAN]
        /\ ask'.state = "NONE" => ask' = NoRequest
        /\ lost' \in 0 .. MaxLost
        /\ state0' = Plain("OP") /\ Plain("OP") \in [state : State \cup {"NONE"}, err : BOOLEAN]
    BY <1>23, WritestateOK, RecordsOK DEF RequestOp, State
  <2> QED BY <1>23, <2>1 DEF RequestOp, still, rest, cmdVars
<1>24. CASE OpExchange /\ UNCHANGED cmdVars
  <2>1. /\ silent' \in 0 .. SilentCap /\ lost' \in 0 .. MaxLost
        /\ UNCHANGED <<al, ask, state0, slaves, rung, upsets>>
    BY <1>24, ExchangeOK DEF OpExchange
  <2> QED BY <1>24, <2>1 DEF OpExchange, cmdVars
<1>25. CASE OpCheck /\ UNCHANGED cmdVars
  <2>1. /\ state0' \in [state : State \cup {"NONE"}, err : BOOLEAN]
        /\ silent' \in 0 .. SilentCap
        /\ lost' \in 0 .. MaxLost
    BY <1>25, StatecheckOK DEF OpCheck, State
  <2> QED BY <1>25, <2>1 DEF OpCheck, MoreTries, rest, cmdVars
<1>26. CASE Close /\ UNCHANGED cmdVars
  BY <1>26 DEF Close, StopsSync0, Lose, still, rest, cmdVars
<1>27. CASE ReadState /\ UNCHANGED cmdVars
  <2>1. /\ state0' \in {al, NoAnswer}
        /\ silent' \in {silent, After(ReturnMs)}
        /\ lost' = lost \/ Lose
    BY <1>27 DEF ReadState
  <2>2. silent' \in 0 .. SilentCap /\ lost' \in 0 .. MaxLost
    BY <2>1, AfterOK, LoseOK
  <2>3. state0' \in [state : State \cup {"NONE"}, err : BOOLEAN]
    BY <2>1, RecordsOK
  <2> QED BY <1>27, <2>2, <2>3 DEF ReadState, cmdVars
<1>28. CASE Rung /\ UNCHANGED cmdVars
  <2>1. CASE rung > 3 \/ Below(ladder[rung])
    BY <1>28, <2>1 DEF Rung, still, rest, cmdVars
  <2>2. CASE rung <= 3 /\ ~Below(ladder[rung])
    <3>1. ladder[rung] \in State /\ InError \in BOOLEAN
      BY <2>2 DEF State, InError
    <3>2. /\ ask' \in [state : State \cup {"NONE"}, ack : BOOLEAN]
          /\ ask'.state = "NONE" => ask' = NoRequest
          /\ lost' \in 0 .. MaxLost
      BY <1>28, <2>2, <3>1, WritestateOK DEF Rung
    <3> QED BY <1>28, <2>2, <3>2 DEF Rung, still, rest, cmdVars
  <2> QED BY <2>1, <2>2
<1>29. CASE RungExchange /\ UNCHANGED cmdVars
  <2>1. /\ silent' \in 0 .. SilentCap /\ lost' \in 0 .. MaxLost
        /\ UNCHANGED <<al, ask, state0, slaves, rung, upsets>>
    BY <1>29, ExchangeOK DEF RungExchange
  <2> QED BY <1>29, <2>1 DEF RungExchange, cmdVars
<1>30. CASE RungCheck /\ UNCHANGED cmdVars
  <2>1. /\ state0' \in [state : State \cup {"NONE"}, err : BOOLEAN]
        /\ silent' \in 0 .. SilentCap
        /\ lost' \in 0 .. MaxLost
    BY <1>30, StatecheckOK DEF RungCheck, RungTimeout, Ladder, State
  <2> QED BY <1>30, <2>1 DEF RungCheck, Reached, cmdVars
<1>31. CASE Answer /\ UNCHANGED <<driverVars, cmdVars>>
  <2>1. ask.state \in State
    BY <1>31 DEF Answer
  <2>2. al' \in [state : State, err : BOOLEAN]
    <3>1. al' \in {al, Plain(ask.state), [al EXCEPT !.err = TRUE]}
      BY <1>31 DEF Answer
    <3> QED BY <2>1, <3>1, RecordsOK
  <2> QED BY <1>31, <2>2 DEF Answer, NoRequest, cmdVars, driverVars
<1>32. CASE WatchdogTrip /\ UNCHANGED <<driverVars, cmdVars>>
  <2>1. al' \in [state : State, err : BOOLEAN]
    BY <1>32, RecordsOK DEF WatchdogTrip
  <2> QED BY <1>32, <2>1 DEF WatchdogTrip, cmdVars, driverVars
<1>33. CASE Upset /\ UNCHANGED <<driverVars, cmdVars>>
  <2>1. al' \in [state : State, err : BOOLEAN] /\ upsets' \in 0 .. MaxUpsets
    <3>1. al' \in {[state |-> "SAFEOP", err |-> TRUE], Plain("INIT")}
      BY <1>33 DEF Upset
    <3>2. upsets < MaxUpsets /\ upsets' = upsets + 1
      BY <1>33 DEF Upset
    <3>3. upsets' \in 0 .. MaxUpsets
      BY <3>2
    <3>4. "INIT" \in State
      BY DEF State
    <3>5. Plain("INIT") \in [state : State, err : BOOLEAN]
      BY <3>4, RecordsOK
    <3>6. al' \in [state : State, err : BOOLEAN]
      BY <3>1, <3>5, RecordsOK, Zenon
    <3> QED BY <3>3, <3>6
  <2>2. ask' = ask \/ ask' = NoRequest
    BY <1>33 DEF Upset
  <2>3. UNCHANGED <<silent, lost, driverVars, cmdVars>>
    BY <1>33 DEF Upset
  <2>4. /\ ask' \in [state : State \cup {"NONE"}, ack : BOOLEAN]
        /\ ask'.state = "NONE" => ask' = NoRequest
    BY <2>2, RecordsOK
  <2> QED BY <2>1, <2>3, <2>4 DEF cmdVars, driverVars
<1>34. CASE Signal
  BY <1>34 DEF Signal, masterVars, slaveVars, driverVars, historyVars
<1>35. CASE UNCHANGED vars
  BY <1>35 DEF vars, masterVars, slaveVars, driverVars, historyVars, cmdVars
<1> QED BY <1>1, <1>2, <1>3, <1>4, <1>5, <1>6, <1>7, <1>8, <1>9, <1>10,
        <1>11, <1>12, <1>13, <1>14, <1>15, <1>16, <1>17, <1>18, <1>19,
        <1>20, <1>21, <1>22, <1>23, <1>24, <1>25, <1>26, <1>27, <1>28,
        <1>29, <1>30, <1>31, <1>32, <1>33, <1>34, <1>35, Zenon
        DEF Next, Program, Driver, ToOp, WalkDown, Slave

\* The way down.  The rung the driver is on is not above the slave unless the
\* slave was upset; what it has read is INIT only of a slave in INIT, which no
\* request still standing can move; one for PREOP or INIT is the last it wrote.
WalkInv ==
  /\ pc \in Ladder \cup {"rung"} => ok
  /\ pc = "rung" =>
       /\ state0.state = "NONE" => blind
       /\ state0.state = "INIT" => al.state = "INIT"
       /\ rung = 4 => state0.state \in {"NONE", "INIT"}
       /\ state0.state \in {"SAFEOP", "OP"} =>
            \/ al.state \in {"SAFEOP", "OP"}
            \/ al.state = "INIT" /\ upsets # 0
  /\ pc = "closed" /\ slaves # 0 /\ ok /\ ~blind => al.state = "INIT"
  /\ ask.state = "PREOP" =>
       /\ al.state # "PREOP"
       /\ \/ pc \in Ladder /\ rung = 2
          \/ pc \in {"closed", "exit"} /\ ~ok
  /\ ask.state = "INIT" =>
       (pc \in Ladder /\ rung = 3) \/ pc \in {"closed", "exit"}

LEMMA WalkInit == Init => WalkInv
  BY DEF Init, WalkInv, Ladder, NoRequest

LEMMA WalkStep == ASSUME RestOK, WalkInv, [Next]_vars PROVE WalkInv'
<1> USE ConstantsOK
    DEF RestOK, WalkInv, Places, Ladder, Climb, State, Plain, Request, NoRequest,
        NoAnswer, Rank
<1>1. CASE Probe
  BY <1>1 DEF Probe, Turn, slaveVars, historyVars
<1>2. CASE OpenFails
  BY <1>2 DEF OpenFails, Turn, slaveVars, historyVars
<1>3. CASE Open
  <2>1. pc = "start" /\ pc' = "dispatch" /\ (ask' = ask \/ ask' = NoRequest)
    BY <1>3 DEF Open, Enumerate, slaveVars
  <2> QED BY <2>1
<1>4. CASE Dispatch
  BY <1>4 DEF Dispatch, Finish, Turn, slaveVars, historyVars
<1>5. CASE Up
  <2>1. cmd \in Motion /\ pc' \in {"close", cmd} /\ pc = "up"
    BY <1>5 DEF Up, Finish
  <2>2. pc' \notin Ladder \cup {"rung", "closed", "exit"}
    BY <2>1 DEF Motion
  <2>3. UNCHANGED <<al, ask, upsets, blind, ok, slaves, rung, state0>>
    BY <1>5 DEF Up, Turn, slaveVars, historyVars
  <2> QED BY <2>1, <2>2, <2>3
<1>6. CASE Down
  BY <1>6 DEF Down, Finish, Turn, slaveVars, historyVars
<1>7. CASE Exit
  BY <1>7 DEF Exit, cmdVars, Turn, slaveVars, historyVars
<1>8. CASE HoldCycle
  BY <1>8 DEF HoldCycle, cmdVars, Cycle, Exchange, Lose
<1>9. CASE HoldStops
  BY <1>9 DEF HoldStops, Finish, Turn, slaveVars, historyVars
<1>10. CASE Parked
  BY <1>10 DEF Parked, Turn, slaveVars, historyVars, Cycle, Exchange, Lose
<1>11. CASE Travel
  BY <1>11 DEF Travel, Finish, Turn, slaveVars, historyVars, Cycle, Exchange,
     Lose
<1>12. CASE Sdotest
  BY <1>12 DEF Sdotest, Cycle, Exchange, Lose
<1>13. CASE SdoRead
  BY <1>13 DEF SdoRead
<1>14. CASE SdotestEnds
  BY <1>14 DEF SdotestEnds, Finish, slaveVars, Lose
<1>15. CASE WdFeed
  BY <1>15 DEF WdFeed, Cycle, Exchange, Lose
<1>16. CASE WdSilence
  BY <1>16 DEF WdSilence, Finish
<1>17. CASE WdEnds
  BY <1>17 DEF WdEnds, Finish, Turn, slaveVars, historyVars
<1>18. CASE ConfigMap /\ UNCHANGED cmdVars
  BY <1>18 DEF ConfigMap, Writestate, Lose, still, rest, cmdVars
<1>19. CASE AwaitSafeop /\ UNCHANGED cmdVars
  BY <1>19 DEF AwaitSafeop, Statecheck, Lose, rest, cmdVars
<1>20. CASE FreeRun /\ UNCHANGED cmdVars
  BY <1>20 DEF FreeRun, slaveVars, historyVars, cmdVars
<1>21. CASE ActivateSync0 /\ UNCHANGED cmdVars
  BY <1>21 DEF ActivateSync0, Lose, still, cmdVars
<1>22. CASE FirstExchange /\ UNCHANGED cmdVars
  BY <1>22 DEF FirstExchange, Exchange, Lose, cmdVars
<1>23. CASE RequestOp /\ UNCHANGED cmdVars
  BY <1>23 DEF RequestOp, Writestate, Lose, still, rest, cmdVars
<1>24. CASE OpExchange /\ UNCHANGED cmdVars
  BY <1>24 DEF OpExchange, Exchange, Lose, cmdVars
<1>25. CASE OpCheck /\ UNCHANGED cmdVars
  BY <1>25 DEF OpCheck, MoreTries, Statecheck, Lose, rest, cmdVars
<1>26. CASE Close /\ UNCHANGED cmdVars
  BY <1>26 DEF Close, StopsSync0, Lose, still, rest, cmdVars
<1>27. CASE ReadState /\ UNCHANGED cmdVars
  BY <1>27 DEF ReadState, Lose, cmdVars
<1>28. CASE Rung /\ UNCHANGED cmdVars
  BY <1>28 DEF Rung, Below, Writestate, Lose, still, rest, cmdVars
<1>29. CASE RungExchange /\ UNCHANGED cmdVars
  BY <1>29 DEF RungExchange, Exchange, Lose, cmdVars
<1>30. CASE RungCheck /\ UNCHANGED cmdVars
  <2> USE DEF Reached
  <2>1. /\ pc = "rung_check" /\ state0' \in {al, NoAnswer}
        /\ UNCHANGED <<al, ask, upsets, blind, slaves>>
    BY <1>30 DEF RungCheck, Statecheck
  <2>2. rung \in 1 .. 3 /\ ladder[rung] \in State
    BY <2>1
  <2>3. CASE state0'.state = ladder[rung]
    <3>1. al.state = ladder[rung] /\ state0' = al
      BY <2>1, <2>2, <2>3
    <3>2. /\ pc' = IF ladder[rung] = "INIT" THEN "closed" ELSE "rung"
          /\ rung' = rung + 1 /\ ok' = ok
      BY <1>30, <2>3 DEF RungCheck
    <3>3. CASE rung = 3
      BY <2>1, <3>1, <3>2, <3>3
    <3>4. CASE rung \in {1, 2}
      BY <2>1, <3>1, <3>2, <3>4
    <3> QED BY <2>2, <3>3, <3>4
  <2>4. CASE state0'.state # ladder[rung]
    <3>1. \/ pc' = "rung_exchange" /\ UNCHANGED <<rung, ok>>
          \/ pc' = "closed" /\ ok' = FALSE /\ rung' = rung
      BY <1>30, <2>4 DEF RungCheck
    <3> QED BY <2>1, <2>2, <3>1
  <2> QED BY <2>3, <2>4
<1>31. CASE Answer /\ UNCHANGED <<driverVars, cmdVars>>
  BY <1>31 DEF Answer, Legal, cmdVars, driverVars
<1>32. CASE WatchdogTrip /\ UNCHANGED <<driverVars, cmdVars>>
  BY <1>32 DEF WatchdogTrip, cmdVars, driverVars
<1>33. CASE Upset /\ UNCHANGED <<driverVars, cmdVars>>
  BY <1>33 DEF Upset, cmdVars, driverVars
<1>34. CASE Signal
  BY <1>34 DEF Signal, masterVars, slaveVars, driverVars, historyVars
<1>35. CASE UNCHANGED vars
  BY <1>35 DEF vars, masterVars, slaveVars, driverVars, historyVars, cmdVars
<1> QED BY <1>1, <1>2, <1>3, <1>4, <1>5, <1>6, <1>7, <1>8, <1>9, <1>10,
        <1>11, <1>12, <1>13, <1>14, <1>15, <1>16, <1>17, <1>18, <1>19,
        <1>20, <1>21, <1>22, <1>23, <1>24, <1>25, <1>26, <1>27, <1>28,
        <1>29, <1>30, <1>31, <1>32, <1>33, <1>34, <1>35, Zenon
        DEF Next, Program, Driver, ToOp, WalkDown, Slave

\* One process on the bus.  It switches SYNC0 on and the slave to OP once, and a
\* request for OP that is late finds it in neither; a slave that was brought to
\* OP and has left does not come back.
SpellInv ==
  /\ pc \in Early => ~clocked
  /\ pc \in Climb => slaves # 0
  /\ clocked => slaves # 0
  /\ clocked /\ lost = 0 /\ sync0 => dc_active /\ pc \notin Walk \cup {"closed", "exit"}
  /\ pc \in Raising => ~wasOp
  /\ pc \in {"up", "sdotest", "sdo"} => wasOp
  /\ pc \in {"clock", "request", "write_op"} => al.state # "OP"
  /\ ask.state = "OP" =>
       al.state # "OP" /\ ~wasOp /\ pc \notin Early \cup {"request", "write_op"}
  /\ dropped => al.state # "OP" /\ wasOp
  /\ pc \in {"op_check", "rung_check"} /\ lost = 0 /\ ~mute => silent = 0
  /\ wasOp /\ al.state = "OP" /\ lost = 0 /\ ~mute => silent < WatchdogMs

LEMMA SpellInit == Init => SpellInv
  BY ConstantsOK DEF Init, SpellInv, Early, Climb, Walk, Ladder, Raising, NoRequest

LEMMA SpellStep == ASSUME RestOK, SpellInv, [Next]_vars PROVE SpellInv'
<1> USE MasterAssumption, TimeAssumption, ConstantsOK
    DEF RestOK, SpellInv, Places, Early, Climb, Walk, Ladder, Raising, Motion,
        State, Plain, Request, NoRequest, NoAnswer, After
<1>1. CASE Probe
  BY <1>1 DEF Probe, Turn, slaveVars, historyVars
<1>2. CASE OpenFails
  BY <1>2 DEF OpenFails, Turn, slaveVars, historyVars
<1>3. CASE Open
  <2>1. /\ pc = "start" /\ pc' = "dispatch" /\ (ask' = ask \/ ask' = NoRequest)
        /\ UNCHANGED <<wasOp, clocked, dropped, lost, mute>>
    BY <1>3 DEF Open, Enumerate, slaveVars
  <2> QED BY <2>1
<1>4. CASE Dispatch
  BY <1>4 DEF Dispatch, Finish, Turn, slaveVars, historyVars
<1>5. CASE Up
  BY <1>5 DEF Up, Finish, Turn, slaveVars, historyVars
<1>6. CASE Down
  BY <1>6 DEF Down, Finish, Turn, slaveVars, historyVars
<1>7. CASE Exit
  BY <1>7 DEF Exit, cmdVars, Turn, slaveVars, historyVars
<1>8. CASE HoldCycle
  BY <1>8 DEF HoldCycle, cmdVars, Cycle, Exchange, Lose
<1>9. CASE HoldStops
  BY <1>9 DEF HoldStops, Finish, Turn, slaveVars, historyVars
<1>10. CASE Parked
  BY <1>10 DEF Parked, Turn, slaveVars, historyVars, Cycle, Exchange, Lose
<1>11. CASE Travel
  BY <1>11 DEF Travel, Finish, Turn, slaveVars, historyVars, Cycle, Exchange,
     Lose
<1>12. CASE Sdotest
  BY <1>12 DEF Sdotest, Cycle, Exchange, Lose
<1>13. CASE SdoRead
  BY <1>13 DEF SdoRead
<1>14. CASE SdotestEnds
  BY <1>14 DEF SdotestEnds, Finish, slaveVars, Lose
<1>15. CASE WdFeed
  BY <1>15 DEF WdFeed, Cycle, Exchange, Lose
<1>16. CASE WdSilence
  BY <1>16 DEF WdSilence, Finish
<1>17. CASE WdEnds
  BY <1>17 DEF WdEnds, Finish, Turn, slaveVars, historyVars
<1>18. CASE ConfigMap /\ UNCHANGED cmdVars
  BY <1>18 DEF ConfigMap, Writestate, Lose, still, rest, cmdVars
<1>19. CASE AwaitSafeop /\ UNCHANGED cmdVars
  BY <1>19 DEF AwaitSafeop, Statecheck, Lose, rest, cmdVars
<1>20. CASE FreeRun /\ UNCHANGED cmdVars
  BY <1>20 DEF FreeRun, slaveVars, historyVars, cmdVars
<1>21. CASE ActivateSync0 /\ UNCHANGED cmdVars
  BY <1>21 DEF ActivateSync0, Lose, still, cmdVars
<1>22. CASE FirstExchange /\ UNCHANGED cmdVars
  BY <1>22 DEF FirstExchange, Exchange, Lose, cmdVars
<1>23. CASE RequestOp /\ UNCHANGED cmdVars
  BY <1>23 DEF RequestOp, Writestate, Lose, still, rest, cmdVars
<1>24. CASE OpExchange /\ UNCHANGED cmdVars
  BY <1>24 DEF OpExchange, Exchange, Lose, cmdVars
<1>25. CASE OpCheck /\ UNCHANGED cmdVars
  BY <1>25 DEF OpCheck, MoreTries, Statecheck, Lose, rest, cmdVars
<1>26. CASE Close /\ UNCHANGED cmdVars
  BY <1>26 DEF Close, StopsSync0, Lose, still, rest, cmdVars
<1>27. CASE ReadState /\ UNCHANGED cmdVars
  BY <1>27 DEF ReadState, Lose, cmdVars
<1>28. CASE Rung /\ UNCHANGED cmdVars
  BY <1>28 DEF Rung, Below, Writestate, Lose, still, rest, cmdVars
<1>29. CASE RungExchange /\ UNCHANGED cmdVars
  BY <1>29 DEF RungExchange, Exchange, Lose, cmdVars
<1>30. CASE RungCheck /\ UNCHANGED cmdVars
  BY <1>30 DEF RungCheck, Reached, RungTimeout, Statecheck, Lose, cmdVars
<1>31. CASE Answer /\ UNCHANGED <<driverVars, cmdVars>>
  <2>1. /\ ask.state \in State /\ ask' = NoRequest
        /\ UNCHANGED <<sync0, silent, lost, wasOp, clocked, mute>>
        /\ UNCHANGED <<pc, slaves, dc_active>>
    BY <1>31 DEF Answer, driverVars
  <2>2. \/ /\ al' = Plain(ask.state)
           /\ dropped' <=> dropped \/ (wasOp /\ al.state = "OP" /\ ask.state # "OP")
        \/ /\ al' = al \/ al' = [al EXCEPT !.err = TRUE]
           /\ dropped' <=> dropped
    BY <1>31, Zenon DEF Answer, Leaves
  <2>3. [al EXCEPT !.err = TRUE].state = al.state /\ Plain(ask.state).state = ask.state
    OBVIOUS
  <2>4. CASE al'.state = ask.state /\ (dropped' => dropped \/ (wasOp /\ ask.state # "OP"))
    BY <2>1, <2>4
  <2>5. CASE al'.state = al.state /\ (dropped' <=> dropped)
    BY <2>1, <2>5
  <2> QED BY <2>2, <2>3, <2>4, <2>5, Zenon
<1>32. CASE WatchdogTrip /\ UNCHANGED <<driverVars, cmdVars>>
  <2>1. /\ al'.state = "SAFEOP"
        /\ UNCHANGED <<ask, sync0, silent, lost, wasOp, clocked, mute>>
        /\ UNCHANGED <<pc, slaves, dc_active>>
    BY <1>32 DEF WatchdogTrip, driverVars
  <2>2. dropped' <=> dropped \/ (wasOp /\ al.state = "OP")
    BY <1>32, Zenon DEF WatchdogTrip, Leaves
  <2> QED BY <2>1, <2>2
<1>33. CASE Upset /\ UNCHANGED <<driverVars, cmdVars>>
  <2>1. /\ al'.state # "OP" /\ (ask' = ask \/ ask' = NoRequest)
        /\ UNCHANGED <<sync0, silent, lost, wasOp, clocked, mute>>
        /\ UNCHANGED <<pc, slaves, dc_active>>
    BY <1>33 DEF Upset, driverVars
  <2>2. dropped' <=> dropped \/ (wasOp /\ al.state = "OP")
    BY <1>33, Zenon DEF Upset, Leaves
  <2> QED BY <2>1, <2>2
<1>34. CASE Signal
  BY <1>34 DEF Signal, masterVars, slaveVars, driverVars, historyVars
<1>35. CASE UNCHANGED vars
  BY <1>35 DEF vars, masterVars, slaveVars, driverVars, historyVars, cmdVars
<1> QED BY <1>1, <1>2, <1>3, <1>4, <1>5, <1>6, <1>7, <1>8, <1>9, <1>10,
        <1>11, <1>12, <1>13, <1>14, <1>15, <1>16, <1>17, <1>18, <1>19,
        <1>20, <1>21, <1>22, <1>23, <1>24, <1>25, <1>26, <1>27, <1>28,
        <1>29, <1>30, <1>31, <1>32, <1>33, <1>34, <1>35, Zenon
        DEF Next, Program, Driver, ToOp, WalkDown, Slave

LEMMA Steps ==
  ASSUME [Next]_vars
  PROVE  \/ Probe \/ OpenFails \/ Open \/ Dispatch \/ Up \/ Down \/ Exit
         \/ HoldCycle \/ HoldStops \/ Parked \/ Travel
         \/ Sdotest \/ SdoRead \/ SdotestEnds \/ WdFeed \/ WdSilence \/ WdEnds
         \/ ToOp \/ Close \/ ReadState \/ RungExchange \/ RungCheck
         \/ Rung /\ UNCHANGED cmdVars
         \/ Slave \/ Signal \/ UNCHANGED vars
  BY Zenon DEF Next, Program, Driver, WalkDown

\* A slave that nothing has been held against so far: it answered whatever it
\* was asked, no frame was lost and it was not upset.
Willing == ~stubborn /\ lost = 0 /\ upsets = 0

\* Where a request may be standing.
Asking ==
  {"safeop", "op_exchange", "op_check", "rung", "closed", "exit"} \cup Ladder

\* The way up asks for one state at a time, of a slave without an error.
Granted(from, to) ==
  \/ ask = Request(to, FALSE) /\ al = Plain(from)
  \/ ask = NoRequest /\ al = Plain(to)

\* Between two rungs of the way down state0 is the slave's state, but for a
\* watchdog that trips after the first read; the request for SAFEOP may then
\* still stand, as the rung counts as reached.
OnRung ==
  \/ /\ rung = 1 /\ ask = NoRequest
     /\ state0 = al \/ (state0.state = "OP" /\ al.state = "SAFEOP")
  \/ /\ rung > 1
     /\ state0.state = al.state /\ (al.err => state0.err)
     /\ al.state # "OP" /\ (rung > 2 => al.state # "SAFEOP")
     /\ ask = NoRequest \/ (rung = 2 /\ ask.state = "SAFEOP" /\ al.state = "SAFEOP")

\* On a rung the slave has arrived, or may still grant the request: it does not
\* lack the acknowledgement of an error.
Descending ==
  /\ rung > 1 => al.state # "OP"
  /\ \/ ask = NoRequest /\ al.state = ladder[rung]
     \/ /\ ask.state = ladder[rung]
        /\ Rank[al.state] > Rank[ladder[rung]]
        /\ al.err => ask.ack
     \/ rung = 1 /\ ask.state = "SAFEOP" /\ al.state = "SAFEOP"

ServedInv ==
  Willing =>
    /\ ok /\ pc # "down"
    /\ pc \notin Asking => ask = NoRequest
    /\ pc \in {"dispatch", "config"} /\ slaves # 0 => al = Plain("PREOP")
    /\ pc = "safeop" => Granted("PREOP", "SAFEOP")
    /\ pc \in {"clock", "request", "write_op"} => al = Plain("SAFEOP")
    /\ pc \in {"op_exchange", "op_check"} =>
         Granted("SAFEOP", "OP") /\ silent < WatchdogMs
    /\ pc \in {"write_op", "op_check"} => silent = 0
    /\ pc = "rung" => OnRung
    /\ pc \in Ladder => Descending

LEMMA ServedInit == Init => ServedInv
  BY DEF Init, ServedInv, Willing, Asking, Ladder

\* Nothing that is held against a slave is forgotten.
LEMMA FaultsCounted ==
  ASSUME [Next]_vars
  PROVE  (lost' = lost \/ Lose) /\ (upsets' = upsets \/ upsets' = upsets + 1)
<1> USE DEF Exchange, Cycle, Turn, historyVars
<1>1. CASE Probe \/ OpenFails \/ Dispatch \/ Up \/ Down \/ Exit
  BY <1>1 DEF Probe, OpenFails, Dispatch, Up, Down, Exit
<1>2. CASE Open
  BY <1>2 DEF Open, Enumerate
<1>3. CASE HoldCycle \/ HoldStops \/ Parked \/ Travel
  BY <1>3 DEF HoldCycle, HoldStops, Parked, Travel
<1>4. CASE Sdotest \/ SdoRead \/ SdotestEnds \/ WdFeed \/ WdSilence \/ WdEnds
  BY <1>4 DEF Sdotest, SdoRead, SdotestEnds, WdFeed, WdSilence, WdEnds
<1>5. CASE ToOp
  BY <1>5 DEF ToOp, ConfigMap, AwaitSafeop, FreeRun, ActivateSync0, FirstExchange,
     RequestOp, OpExchange, OpCheck, Writestate, Statecheck, rest
<1>6. CASE Close \/ ReadState \/ RungExchange
  BY <1>6 DEF Close, ReadState, RungExchange, rest
<1>7. CASE Rung
  BY <1>7 DEF Rung, Writestate, rest
<1>8. CASE RungCheck
  BY <1>8 DEF RungCheck, Statecheck
<1>9. CASE Slave
  BY <1>9 DEF Slave, Answer, WatchdogTrip, Upset
<1>10. CASE Signal \/ UNCHANGED vars
  BY <1>10 DEF Signal, vars, masterVars
<1> QED BY Steps, <1>1, <1>2, <1>3, <1>4, <1>5, <1>6, <1>7, <1>8, <1>9, <1>10

LEMMA RefusalRemembered == ASSUME [Next]_vars, stubborn PROVE stubborn'
<1> USE DEF Exchange, Cycle, Turn, historyVars
<1>1. CASE Probe \/ OpenFails \/ Dispatch \/ Up \/ Down \/ Exit
  BY <1>1, Zenon DEF Probe, OpenFails, Dispatch, Up, Down, Exit
<1>2. CASE Open
  BY <1>2, Zenon DEF Open, Enumerate
<1>3. CASE HoldCycle \/ HoldStops \/ Parked \/ Travel
  BY <1>3, Zenon DEF HoldCycle, HoldStops, Parked, Travel
<1>4. CASE Sdotest \/ SdoRead \/ SdotestEnds \/ WdFeed \/ WdSilence \/ WdEnds
  BY <1>4, Zenon DEF Sdotest, SdoRead, SdotestEnds, WdFeed, WdSilence, WdEnds
<1>5. CASE ConfigMap \/ FreeRun \/ ActivateSync0 \/ FirstExchange \/ RequestOp
           \/ OpExchange
  BY <1>5, Zenon DEF ConfigMap, FreeRun, ActivateSync0, FirstExchange, RequestOp,
     OpExchange
<1>6. CASE AwaitSafeop \/ OpCheck
  BY <1>6, Zenon DEF AwaitSafeop, OpCheck, GivesUp
<1>7. CASE Close \/ ReadState \/ Rung \/ RungExchange
  BY <1>7, Zenon DEF Close, ReadState, Rung, RungExchange
<1>8. CASE RungCheck
  BY <1>8, Zenon DEF RungCheck, GivesUp
<1>9. CASE Slave
  BY <1>9, Zenon DEF Slave, Answer, WatchdogTrip, Upset
<1>10. CASE Signal \/ UNCHANGED vars
  BY <1>10, Zenon DEF Signal, vars, masterVars
<1> QED BY Steps, <1>1, <1>2, <1>3, <1>4, <1>5, <1>6, <1>7, <1>8, <1>9, <1>10, Zenon
        DEF ToOp

LEMMA WillingSoFar ==
  ASSUME RestOK, [Next]_vars, Willing'
  PROVE  Willing /\ lost' = lost
<1>1. ~stubborn
  BY RefusalRemembered, Zenon DEF Willing
<1>2. lost = 0 /\ upsets = 0 /\ lost' = lost
  BY FaultsCounted DEF RestOK, Willing, Lose
<1> QED BY <1>1, <1>2, Zenon DEF Willing

LEMMA ServedStep ==
  ASSUME RestOK, SpellInv, ServedInv, Willing, Willing', [Next]_vars
  PROVE  ServedInv'
<1> USE MasterAssumption, TimeAssumption, ConstantsOK
    DEF RestOK, ServedInv, Willing, Asking, Ladder, Granted, OnRung, Descending,
        Places, Motion, Climb, State, Plain, Request, NoRequest, NoAnswer, Rank, After
<1>1. CASE Probe
  BY <1>1 DEF Probe, Turn, slaveVars, historyVars
<1>2. CASE OpenFails
  BY <1>2 DEF OpenFails, Turn, slaveVars, historyVars
<1>3. CASE Open
  BY <1>3 DEF Open, Enumerate, slaveVars
<1>4. CASE Dispatch
  BY <1>4 DEF Dispatch, Finish, Turn, slaveVars, historyVars
<1>5. CASE Up
  BY <1>5 DEF Up, Finish, Turn, slaveVars, historyVars
<1>6. CASE Down
  BY <1>6 DEF Down, Finish, Turn, slaveVars, historyVars
<1>7. CASE Exit
  BY <1>7 DEF Exit, cmdVars, Turn, slaveVars, historyVars
<1>8. CASE HoldCycle
  BY <1>8 DEF HoldCycle, cmdVars, Cycle, Exchange, Lose
<1>9. CASE HoldStops
  BY <1>9 DEF HoldStops, Finish, Turn, slaveVars, historyVars
<1>10. CASE Parked
  BY <1>10 DEF Parked, Turn, slaveVars, historyVars, Cycle, Exchange, Lose
<1>11. CASE Travel
  BY <1>11 DEF Travel, Finish, Turn, slaveVars, historyVars, Cycle, Exchange,
     Lose
<1>12. CASE Sdotest
  BY <1>12 DEF Sdotest, Cycle, Exchange, Lose
<1>13. CASE SdoRead
  BY <1>13 DEF SdoRead
<1>14. CASE SdotestEnds
  BY <1>14 DEF SdotestEnds, Finish, slaveVars, Lose
<1>15. CASE WdFeed
  BY <1>15 DEF WdFeed, Cycle, Exchange, Lose
<1>16. CASE WdSilence
  BY <1>16 DEF WdSilence, Finish
<1>17. CASE WdEnds
  BY <1>17 DEF WdEnds, Finish, Turn, slaveVars, historyVars
<1>18. CASE ConfigMap /\ UNCHANGED cmdVars
  <2>1. /\ pc = "config" /\ pc' = "safeop" /\ slaves # 0
        /\ ask' = Request("SAFEOP", FALSE)
        /\ UNCHANGED <<al, slaves, ok>>
    BY <1>18 DEF ConfigMap, Writestate, Lose, still, rest, SpellInv
  <2>2. al' = Plain("PREOP")
    BY <2>1
  <2> QED BY <2>1, <2>2
<1>19. CASE AwaitSafeop /\ UNCHANGED cmdVars
  <2>1. /\ pc = "safeop" /\ state0' = al
        /\ UNCHANGED <<al, ask, ok, slaves>>
    BY <1>19 DEF AwaitSafeop, Statecheck, Lose, rest
  <2>2. Granted("PREOP", "SAFEOP")
    BY <2>1, Zenon
  <2>3. ASSUME al # Plain("SAFEOP") PROVE FALSE
    <3>1. stubborn' = (stubborn \/ ask # NoRequest)
      BY <1>19, <2>1, <2>3, Zenon DEF AwaitSafeop, GivesUp
    <3>2. ask = NoRequest
      BY <3>1, Zenon
    <3> QED BY <2>2, <2>3, <3>2
  <2>4. pc' = "clock" /\ al = Plain("SAFEOP")
    BY <1>19, <2>1, <2>3 DEF AwaitSafeop
  <2>5. ask = NoRequest
    BY <2>1, <2>4
  <2> QED BY <2>1, <2>4, <2>5
<1>20. CASE FreeRun /\ UNCHANGED cmdVars
  BY <1>20 DEF FreeRun, slaveVars, historyVars, cmdVars
<1>21. CASE ActivateSync0 /\ UNCHANGED cmdVars
  BY <1>21 DEF ActivateSync0, Lose, still, cmdVars
<1>22. CASE FirstExchange /\ UNCHANGED cmdVars
  BY <1>22 DEF FirstExchange, Exchange, Lose, cmdVars
<1>23. CASE RequestOp /\ UNCHANGED cmdVars
  BY <1>23 DEF RequestOp, Writestate, Lose, still, rest, cmdVars
<1>24. CASE OpExchange /\ UNCHANGED cmdVars
  BY <1>24 DEF OpExchange, Exchange, Lose, cmdVars
<1>25. CASE OpCheck /\ UNCHANGED cmdVars
  <2>1. /\ pc = "op_check" /\ state0' = al /\ silent = 0
        /\ silent' \in {silent, After(UpMs)}
        /\ UNCHANGED <<al, ask, ok, slaves>>
    BY <1>25 DEF OpCheck, Statecheck, Lose, rest
  <2>2. \/ state0' = Plain("OP") /\ pc' = "up"
        \/ pc' = "op_exchange"
        \/ state0' # Plain("OP") /\ pc' = "down" /\ ask = NoRequest
    BY <1>25 DEF OpCheck, GivesUp
  <2>3. CASE state0' = Plain("OP") /\ pc' = "up"
    BY <2>1, <2>3
  <2>4. CASE pc' = "op_exchange"
    <3>1. silent' < WatchdogMs
      BY <2>1
    <3> QED BY <2>1, <2>4, <3>1
  <2>5. CASE state0' # Plain("OP") /\ pc' = "down" /\ ask = NoRequest
    BY <2>1, <2>5
  <2> QED BY <2>2, <2>3, <2>4, <2>5
<1>26. CASE Close /\ UNCHANGED cmdVars
  BY <1>26 DEF Close, StopsSync0, Lose, still, rest, cmdVars
<1>27. CASE ReadState /\ UNCHANGED cmdVars
  BY <1>27 DEF ReadState, Lose, cmdVars
<1>28. CASE Rung /\ UNCHANGED cmdVars
  BY <1>28 DEF Rung, Below, InError, Writestate, Lose, still, rest, cmdVars
<1>29. CASE RungExchange /\ UNCHANGED cmdVars
  BY <1>29 DEF RungExchange, Exchange, Lose, cmdVars
<1>30. CASE RungCheck /\ UNCHANGED cmdVars
  <2>1. /\ pc = "rung_check" /\ state0' = al
        /\ UNCHANGED <<al, ask, slaves>>
    BY <1>30 DEF RungCheck, Statecheck, Lose
  <2>2. rung \in 1 .. 3 /\ ladder[rung] \in State
    BY <2>1
  <2>3. CASE al.state = ladder[rung]
    <3>1. /\ pc' = IF ladder[rung] = "INIT" THEN "closed" ELSE "rung"
          /\ rung' = rung + 1 /\ ok' = ok
      BY <1>30, <2>1, <2>3 DEF RungCheck, Reached
    <3>2. CASE rung = 3
      BY <2>1, <3>1, <3>2
    <3>3. CASE rung = 2
      BY <2>1, <2>3, <3>1, <3>3
    <3>4. CASE rung = 1
      BY <2>1, <2>3, <3>1, <3>4
    <3> QED BY <2>2, <3>2, <3>3, <3>4
  <2>4. CASE al.state # ladder[rung]
    <3>1. ask # NoRequest
      BY <2>1, <2>4
    <3>2. pc' = "rung_exchange" /\ UNCHANGED <<rung, ok>>
      BY <1>30, <2>1, <2>4, <3>1 DEF RungCheck, Reached, GivesUp
    <3> QED BY <2>1, <3>2
  <2> QED BY <2>3, <2>4
<1>31. CASE Answer /\ UNCHANGED <<driverVars, cmdVars>>
  <2>1. /\ ask # NoRequest /\ ask' = NoRequest
        /\ UNCHANGED <<pc, slaves, state0, rung, ok, silent>>
    BY <1>31 DEF Answer, driverVars
  <2>2. ask.state # "NONE" /\ pc \in Asking
    BY <2>1
  <2>3. \/ Legal(ask.state) /\ al' = Plain(ask.state)
        \/ al.err /\ ~ask.ack /\ al' = al
        \/ ~Legal(ask.state)
    BY <1>31 DEF Answer
  <2>4. CASE pc = "safeop"
    BY <2>1, <2>3, <2>4 DEF Legal
  <2>5. CASE pc \in {"op_exchange", "op_check"}
    BY <2>1, <2>3, <2>5 DEF Legal
  <2>6. CASE pc = "rung"
    BY <2>1, <2>3, <2>6 DEF Legal
  <2>7. CASE pc \in Ladder
    BY <2>1, <2>2, <2>3, <2>7 DEF Legal
  <2>8. CASE pc \in {"closed", "exit"}
    BY <2>1, <2>8
  <2> QED BY <2>2, <2>4, <2>5, <2>6, <2>7, <2>8
<1>32. CASE WatchdogTrip /\ UNCHANGED <<driverVars, cmdVars>>
  BY <1>32 DEF WatchdogTrip, cmdVars, driverVars
<1>33. CASE Upset /\ UNCHANGED <<driverVars, cmdVars>>
  BY <1>33 DEF Upset, cmdVars, driverVars
<1>34. CASE Signal
  BY <1>34 DEF Signal, masterVars, slaveVars, driverVars, historyVars
<1>35. CASE UNCHANGED vars
  BY <1>35 DEF vars, masterVars, slaveVars, driverVars, historyVars, cmdVars
<1> QED BY <1>1, <1>2, <1>3, <1>4, <1>5, <1>6, <1>7, <1>8, <1>9, <1>10,
        <1>11, <1>12, <1>13, <1>14, <1>15, <1>16, <1>17, <1>18, <1>19,
        <1>20, <1>21, <1>22, <1>23, <1>24, <1>25, <1>26, <1>27, <1>28,
        <1>29, <1>30, <1>31, <1>32, <1>33, <1>34, <1>35, Zenon
        DEF Next, Program, Driver, ToOp, WalkDown, Slave

\* Where the steps of the program are.
LEMMA Where ==
  /\ Probe \/ OpenFails \/ Open => pc = "start"
  /\ Dispatch \/ Up \/ Down \/ Exit => pc \in {"dispatch", "up", "down", "closed"}
  /\ HoldCycle \/ HoldStops \/ Parked \/ Travel => pc \in {"hold", "move", "travel"}
  /\ Sdotest \/ SdotestEnds => pc = "sdotest"
  /\ SdoRead => pc = "sdo"
  /\ WdFeed \/ WdSilence \/ WdEnds => pc \in {"wdtest", "wd_al"}
  /\ ToOp => pc \in Climb
  /\ Close \/ ReadState => pc \in {"close", "readstate"}
  /\ Rung => pc = "rung"
  /\ RungExchange \/ RungCheck => pc \in Ladder
<1>1. Probe \/ OpenFails \/ Open => pc = "start"
  BY Zenon DEF Probe, OpenFails, Open
<1>2. Dispatch \/ Up \/ Down \/ Exit => pc \in {"dispatch", "up", "down", "closed"}
  BY Zenon DEF Dispatch, Up, Down, Exit
<1>3. HoldCycle \/ HoldStops \/ Parked \/ Travel => pc \in {"hold", "move", "travel"}
  BY Zenon DEF HoldCycle, HoldStops, Parked, Travel
<1>4. (Sdotest \/ SdotestEnds => pc = "sdotest") /\ (SdoRead => pc = "sdo")
  BY Zenon DEF Sdotest, SdotestEnds, SdoRead
<1>5. WdFeed \/ WdSilence \/ WdEnds => pc \in {"wdtest", "wd_al"}
  BY Zenon DEF WdFeed, WdSilence, WdEnds
<1>6. ToOp => pc \in Climb
  BY Zenon DEF ToOp, ConfigMap, AwaitSafeop, FreeRun, ActivateSync0, FirstExchange,
     RequestOp, OpExchange, OpCheck, Climb
<1>7. Close \/ ReadState => pc \in {"close", "readstate"}
  BY Zenon DEF Close, ReadState
<1>8. (Rung => pc = "rung") /\ (RungExchange \/ RungCheck => pc \in Ladder)
  BY Zenon DEF Rung, RungExchange, RungCheck, Ladder
<1> QED BY <1>1, <1>2, <1>3, <1>4, <1>5, <1>6, <1>7, <1>8, Zenon

\* The slave, a signal and a stutter leave the program where it is.
LEMMA Elsewhere ==
  ASSUME Slave \/ Signal \/ UNCHANGED vars
  PROVE  pc' = pc /\ (ask' = ask \/ ask' = NoRequest)
<1>1. CASE Slave
  BY <1>1 DEF Slave, driverVars, Answer, WatchdogTrip, Upset
<1>2. CASE Signal
  BY <1>2 DEF Signal, masterVars, slaveVars, driverVars
<1>3. CASE UNCHANGED vars
  BY <1>3 DEF vars, masterVars, slaveVars, driverVars
<1> QED BY <1>1, <1>2, <1>3

---------------------------------------------------------------------------
IInv == FlagsOK /\ RestOK /\ WalkInv /\ SpellInv /\ ServedInv

\* What every command keeps, whatever is lost and whatever the slave does: the
\* invariant the theorems below rest on.
THEOREM Inductive == Spec => []IInv
<1>1. Init => IInv
  BY FlagsInit, RestInit, WalkInit, SpellInit, ServedInit, Zenon DEF IInv
<1>2. ASSUME IInv, [Next]_vars PROVE IInv'
  <2>1. FlagsOK' /\ RestOK' /\ WalkInv' /\ SpellInv'
    BY <1>2, FlagsStep, RestStep, WalkStep, SpellStep, Zenon DEF IInv
  <2>2. Willing' => ServedInv'
    BY <1>2, WillingSoFar, ServedStep, Zenon DEF IInv
  <2>3. ~Willing' => ServedInv'
    BY Zenon DEF ServedInv
  <2> QED BY <2>1, <2>2, <2>3, Zenon DEF IInv
<1> QED BY <1>1, <1>2, PTL DEF Spec

\* The types of the variables of ecat.c and main.c, for every number of retries
\* and every timeout within the assumptions.
THEOREM TypeCorrect == Spec => []TypeOK
<1>1. IInv => TypeOK
  <2>1. SUFFICES ASSUME IInv PROVE TypeOK
    OBVIOUS
  <2>2. FlagsOK /\ RestOK
    BY <2>1, Zenon DEF IInv
  <2> QED BY <2>2, TypeParts, Zenon
<1> QED BY <1>1, Inductive, PTL

\* ecat_request_state that returned true has left the slave in INIT, unless its
\* first read got no answer.
THEOREM LeavesInInit == Spec => []LeftInInit
<1>1. IInv => LeftInInit
  BY DEF IInv, RestOK, WalkInv, LeftInInit
<1> QED BY <1>1, Inductive, PTL

\* Whatever state a willing slave is found in, the way up and the way down ask it
\* for nothing it must refuse or may ignore, for every number of retries.
THEOREM ServesWilling == Spec => []WillingSlaveServed
<1>1. IInv => WillingSlaveServed
  BY Zenon DEF IInv, ServedInv, Willing, WillingSlaveServed
<1> QED BY <1>1, Inductive, PTL

\* A process that switched SYNC0 on and lost no frame has switched it off when
\* ecat_close is done.
THEOREM LeavesQuiet == Spec => []QuietWhenLeft
<1>1. IInv => QuietWhenLeft
  BY DEF IInv, SpellInv, QuietWhenLeft
<1> QED BY <1>1, Inductive, PTL

\* The cycle of every loop, of ecat_to_op and of ecat_request_state is inside the
\* watchdog, for every cycle, timeout and number of retries that TimeAssumption
\* admits.
THEOREM Fed == Spec => []FedInOp
<1>1. IInv => FedInOp
  BY DEF IInv, SpellInv, FedInOp
<1> QED BY <1>1, Inductive, PTL

\* ecat_request_state asks for no state above the one the slave is in.
THEOREM Descends == Spec => NeverClimbs
<1> DEFINE Down1 == pc = "rung" /\ ask' # ask /\ upsets = 0
                    => Rank[ask'.state] <= Rank[al.state]
<1>1. IInv /\ [Next]_vars => [Down1]_vars
  <2> SUFFICES ASSUME RestOK, WalkInv, [Next]_vars, pc = "rung", ask' # ask, upsets = 0
               PROVE  Rank[ask'.state] <= Rank[al.state]
    BY DEF IInv
  <2> USE DEF Rank
  <2>1. al.state \in State
    BY DEF RestOK
  <2>2. CASE ask' = NoRequest
    BY <2>1, <2>2 DEF NoRequest, State
  <2>3. CASE Rung /\ UNCHANGED cmdVars
    <3>1. rung \in 1 .. 3 /\ ~Below(ladder[rung]) /\ ask' = Request(ladder[rung], InError)
      BY <2>3, ConstantsOK DEF Rung, Writestate, RestOK
    <3>2. ask'.state = ladder[rung] /\ ladder[rung] \in {"SAFEOP", "PREOP", "INIT"}
      BY <3>1, ConstantsOK DEF Request
    <3>3. ~(Rank[state0.state] <= Rank[ladder[rung]])
      BY <3>1 DEF Below
    <3>4. state0.state \in State \cup {"NONE"}
      BY DEF RestOK
    <3>5. CASE ladder[rung] = "INIT"
      BY <2>1, <3>2, <3>5 DEF State
    <3>6. CASE ladder[rung] # "INIT"
      <4>1. state0.state \in {"SAFEOP", "OP"}
        BY <3>2, <3>3, <3>4, <3>6 DEF State
      <4>2. al.state \in {"SAFEOP", "OP"}
        BY <4>1 DEF WalkInv
      <4> QED BY <3>2, <4>2
    <3> QED BY <3>5, <3>6
  <2>4. (Rung /\ UNCHANGED cmdVars) \/ Slave \/ Signal \/ UNCHANGED vars
    BY Steps, Where DEF Climb, Ladder
  <2>5. (Rung /\ UNCHANGED cmdVars) \/ ask' = NoRequest
    BY <2>4, Elsewhere
  <2> QED BY <2>2, <2>3, <2>5
<1> QED BY <1>1, Inductive, PTL DEF Spec, NeverClimbs

\* sdotest reports success only of a slave that did not leave OP.
THEOREM KeepsOp == Spec => KeptOp
<1> DEFINE Kept == pc = "sdotest" /\ pc' = "close" /\ rc' = "SUCCESS"
                   => wasOp /\ ~dropped
<1>1. IInv /\ [Next]_vars => [Kept]_vars
  <2> SUFFICES ASSUME SpellInv, [Next]_vars, pc = "sdotest", pc' = "close",
                      rc' = "SUCCESS"
               PROVE  wasOp /\ ~dropped
    BY DEF IInv
  <2>1. SdotestEnds
    <3>1. Sdotest \/ SdotestEnds \/ Slave \/ Signal \/ UNCHANGED vars
      BY Steps, Where DEF Climb, Ladder
    <3>2. ~Sdotest
      BY DEF Sdotest
    <3> QED BY <3>1, <3>2, Elsewhere
  <2>2. StillOp
    BY <2>1 DEF SdotestEnds, Finish
  <2> QED BY <2>2 DEF SpellInv, StillOp
<1> QED BY <1>1, Inductive, PTL DEF Spec, KeptOp

=============================================================================

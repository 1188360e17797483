---------------------------- MODULE EcatSlaveMC -----------------------------
(***************************************************************************)
(* Small instances of EcatSlave for TLC: one good and one bad length for   *)
(* each SyncManager, and the requests the Pi master makes.                 *)
(***************************************************************************)
EXTENDS EcatSlave

GoodOut == [addr |-> 1, len |-> 2]
LongOut == [addr |-> 1, len |-> 8]    \* outputs and inputs that do not fit
GoodIn == [addr |-> 3, len |-> 6]
LongIn == [addr |-> 3, len |-> 8]

MCGoodOut == {GoodOut}
MCGoodIn == {GoodIn}
MCOutCfgs == {GoodOut, LongOut}
MCInCfgs == {GoodIn, LongIn}

\* What ecat_open, ecat_to_op, ecat_request_state and ecat_close ask for.
MCRequests == [state : AlStates, ack : {FALSE}]
\* The same, with an acknowledge and a request for BOOT.
MCAllRequests ==
  MCRequests \cup {[state |-> "BOOT", ack |-> FALSE],
                   [state |-> "INIT", ack |-> TRUE]}

\* One thing goes wrong, whichever it is and whenever: a transaction, a target,
\* a restart or, as long as it lasts, a length that does not fit.
OneFault == spiFaults + applyFaults + restarts
            + (IF LongOut \in {sm2, sm_out} THEN 1 ELSE 0)
            + (IF LongIn \in {sm3, sm_in} THEN 1 ELSE 0) <= 1
=============================================================================

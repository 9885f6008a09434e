---------------------------- MODULE MCOperations ----------------------------
(***************************************************************************)
(* Small instances for TLC of what keeps the bot running: the editor's     *)
(* commands, and the watchdog over the live runs with the verdict it       *)
(* reads.  They share no state, so one of them runs in each behaviour.     *)
(***************************************************************************)
EXTENDS MCTelegramPolling, DailyWatchdog

CONSTANT Machines

VARIABLE machine

operations == <<machine, vars, dogVars>>

Alone(m) ==
  /\ machine = m /\ UNCHANGED machine
  /\ IF m = "polling"  THEN TRUE ELSE UNCHANGED vars
  /\ IF m = "watchdog" THEN TRUE ELSE UNCHANGED dogVars

OperationsInit == machine \in Machines /\ Init /\ DogInit

OperationsNext ==
  \/ Alone("polling") /\ Next
  \/ Alone("watchdog") /\ DogNext

(* The fairness of each machine while it is the one that runs.             *)
OperationsFairness ==
  /\ WF_operations(Alone("polling") /\ Goes) /\ WF_operations(Alone("polling") /\ DeliveryDone)
  /\ SF_operations(Alone("polling") /\ Deadline)
  /\ WF_operations(Alone("watchdog") /\ JobGoes) /\ WF_operations(Alone("watchdog") /\ Heartbeat)
  /\ SF_operations(Alone("watchdog") /\ Tick)
  /\ SF_operations(Alone("watchdog") /\ run_periodic_watchdog)
  /\ SF_operations(Alone("watchdog") /\ dispatch_live)

OperationsSpec == OperationsInit /\ [][OperationsNext]_operations
FairOperations == OperationsSpec /\ OperationsFairness

(* Every variable has its type.                                            *)
OperationsTypes == TypeOK /\ DogTypes
=============================================================================

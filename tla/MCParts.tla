------------------------------ MODULE MCParts -------------------------------
(* Instances of the parts that share nothing, small enough for TLC.  A       *)
(* behaviour moves one of them, the others staying as they began, so that    *)
(* what is explored is each part by itself.                                  *)
EXTENDS ProcessClaims, ClientEvents, ApiOperations, WindowSwitch, TLC

VARIABLE part         \* the part that moves
partVars == <<vars, eventVars, opsVars, switchVars, part>>

\* What may still happen to the client events, and to the operations.
Events(first, second, faults, turns) ==
  [changes |-> <<first, second>>, faults |-> faults, turns |-> turns]
EventBudgets == {Events(2, 1, 1, 0), Events(1, 1, 1, 1), Events(1, 0, 1, 2)}

Chance(operations, faults, restarts, turns) ==
  [operations |-> operations, faults |-> faults, restarts |-> restarts, turns |-> turns]
OperationBudgets == {Chance(1, 1, 1, 1), Chance(2, 1, 0, 0), Chance(1, 2, 0, 1), Chance(1, 2, 1, 0)}

\* The parts that do not move begin one way only.
PartsInit ==
  /\ Init /\ EventsInit /\ OpsInit /\ SwitchInit
  /\ part \in {"claims", "events", "operations", "switch"}
  /\ part # "events" => left = CHOOSE b \in Budgets : TRUE
  /\ part # "operations" => opsLeft = CHOOSE b \in OpBudgets : TRUE
  /\ part # "switch" => metadata = CHOOSE i \in Index : TRUE

PartsNext ==
  /\ \/ part = "claims" /\ Next /\ UNCHANGED <<eventVars, opsVars, switchVars>>
     \/ part = "events" /\ EventsNext /\ UNCHANGED <<vars, opsVars, switchVars>>
     \/ part = "operations" /\ OpsNext /\ UNCHANGED <<vars, eventVars, switchVars>>
     \/ part = "switch" /\ SwitchNext /\ UNCHANGED <<vars, eventVars, opsVars>>
  /\ UNCHANGED part

PartsSpec == PartsInit /\ [][PartsNext]_partVars
=============================================================================

----------------------------- MODULE MCRunLoop -----------------------------
(* run(), the device bus behind its dispatch, and the console behind the   *)
(* bus.  VmRun and MmioBus share no state: in VmRun no access reaches a    *)
(* device, since the windows lie in RAM (DevicesTrap).  So a behaviour     *)
(* moves one of them and leaves the other as it starts.  A third kind of   *)
(* behaviour drives the console alone, with more chains of more kinds.     *)
EXTENDS VmRun, MmioBus

CONSTANT BusChains   \* bound: chains published when the bus moves

VARIABLE part        \* what moves

D(wo, ok) == [write_only |-> wo, inRam |-> ok]

\* Plain text, text around a write-only descriptor, text outside guest
\* memory, no text at all.
MCLayouts == {<<D(FALSE, TRUE)>>,
              <<D(FALSE, TRUE), D(TRUE, TRUE), D(FALSE, FALSE)>>,
              <<D(TRUE, TRUE)>>}

RunLoopInit ==
  /\ part \in {"run", "bus", "console"}
  /\ Init
  /\ BusInit
  /\ part # "console" =>
       layout = [c \in Ids |-> <<D(FALSE, TRUE)>>]
  /\ part = "run" => interrupt_evt

\* All vCPUs at the bus have gone down.
BusStopped == \A v \in BusVcpus : vpc[v] = "dead"

RunLoopNext ==
  /\ UNCHANGED part
  /\ \/ part = "run" /\ Next /\ UNCHANGED <<consoleVars, busVars>>
     \/ part = "bus" /\ BusNext /\ avail_idx' <= BusChains /\ UNCHANGED vars
     \/ part = "bus" /\ BusStopped /\ UNCHANGED <<consoleVars, busVars, vars>>
     \/ part = "console" /\ ConsoleNext /\ UNCHANGED <<busVars, vars>>

\* Where a part rests its fair steps are disabled, so each fairness condition
\* speaks of its own part.
RunLoopSpec ==
  /\ RunLoopInit /\ [][RunLoopNext]_<<part, vars, consoleVars, busVars>>
  /\ Fairness /\ BusFairness

-----------------------------------------------------------------------------
(* What the run checks of all three.                                       *)

\* run(), the bus and the console keep their types.
RunLoopTypeOK == TypeOK /\ BusTypeOK
=============================================================================

---------------------------- MODULE RunContract ----------------------------
(***************************************************************************)
(* What VirtualMachine::run promises its caller, without flags, channels   *)
(* or locks: each vCPU gets one thread per run; a thread leaves of its own *)
(* accord only once the run is stopping; the run hands control back only   *)
(* when no thread is left, and it unwinds instead of returning exactly     *)
(* when a thread died or could not be created.                             *)
(***************************************************************************)
CONSTANT Vcpus

VARIABLES
  mode,      \* what the caller can tell about the run
  thread,    \* "out": no thread in this run, "live", "left"
  poisoned   \* a thread panicked or could not be created in this run

contractVars == <<mode, thread, poisoned>>

NoneLive == \A v \in Vcpus : thread[v] # "live"

ContractInit ==
  /\ mode = "idle"
  /\ thread = [v \in Vcpus |-> "out"]
  /\ poisoned = FALSE

\* run() is called.
Begin ==
  /\ mode = "idle"
  /\ mode' = "running"
  /\ thread' = [v \in Vcpus |-> "out"]
  /\ UNCHANGED poisoned

\* The thread of vCPU v starts, be it after the run began to stop.
Enter(v) ==
  /\ mode \in {"running", "stopping"}
  /\ thread[v] = "out"
  /\ thread' = [thread EXCEPT ![v] = "live"]
  /\ UNCHANGED <<mode, poisoned>>

\* A vCPU reports an error.
Fail ==
  /\ mode = "running"
  /\ mode' = "stopping"
  /\ UNCHANGED <<thread, poisoned>>

\* A thread cannot be created.
Refuse ==
  /\ mode \in {"running", "stopping"}
  /\ mode' = "stopping"
  /\ poisoned' = TRUE
  /\ UNCHANGED thread

Leave(v) ==
  /\ mode = "stopping"
  /\ thread[v] = "live"
  /\ thread' = [thread EXCEPT ![v] = "left"]
  /\ UNCHANGED <<mode, poisoned>>

\* A thread panics.  Nobody is told: the mode stays what it is.
Die(v) ==
  /\ mode \in {"running", "stopping"}
  /\ thread[v] = "live"
  /\ thread' = [thread EXCEPT ![v] = "left"]
  /\ poisoned' = TRUE
  /\ UNCHANGED mode

GiveBack ==
  /\ mode = "stopping" /\ NoneLive
  /\ mode' = IF poisoned THEN "unwound" ELSE "idle"
  /\ UNCHANGED <<thread, poisoned>>

Discard ==
  /\ mode \in {"idle", "unwound"}
  /\ mode' = "dropped"
  /\ UNCHANGED <<thread, poisoned>>

ContractNext ==
  \/ Begin \/ Fail \/ Refuse \/ GiveBack \/ Discard
  \/ \E v \in Vcpus : Enter(v) \/ Leave(v) \/ Die(v)

ContractSpec == ContractInit /\ [][ContractNext]_contractVars

=============================================================================

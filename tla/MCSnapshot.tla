----------------------------- MODULE MCSnapshot -----------------------------
(* Machines of one and two regions that hold, or fail to hold, each other. *)
EXTENDS Snapshot

Machine(regions, cpus) == [regions |-> regions, cpus |-> cpus]
Region(start, len) == [start |-> start, len |-> len]

MCMachines ==
  {Machine(<<Region(0, 2)>>, 2), Machine(<<Region(0, 3)>>, 1),
   Machine(<<Region(0, 1), Region(4, 2)>>, 1),
   Machine(<<Region(0, 1), Region(4, 1)>>, 2)}

=============================================================================

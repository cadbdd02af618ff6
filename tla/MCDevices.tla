----------------------------- MODULE MCDevices -----------------------------
(* The block and the network device.  They share no state, so a behaviour  *)
(* moves one of them and leaves the other as it was created.               *)
EXTENDS VirtioBlock, VirtioNet

VARIABLE part   \* which device moves

\* The driver asks for sector 1 each time.
D(type, reserved, data) ==
  [type |-> type, reserved |-> reserved, asked |-> 1, hasData |-> data,
   inRam |-> TRUE]
Outside == [D("IN", 0, TRUE) EXCEPT !.inRam = FALSE]

\* A read and a write at places that exist, lie past the end (1), cannot be
\* sought (2) or overflow (4); requests without data, refused, unreadable.
MCLayouts ==
  {<<D("IN", 0, TRUE)>>,
   <<D("OUT", 0, TRUE), D("IN", 0, TRUE)>>,
   <<D("OUT", 1, TRUE), D("IN", 1, TRUE)>>,
   <<D("OUT", 2, TRUE), D("FLUSH", 0, FALSE)>>,
   <<D("IN", 2, TRUE), D("IN", 0, TRUE)>>,
   <<D("IN", 4, TRUE), D("OUT", 4, FALSE)>>,
   <<D("other", 0, TRUE), D("IN", 0, TRUE)>>,
   <<D("OUT", 0, TRUE), Outside>>}

DevicesInit ==
  /\ part \in {"block", "net"}
  /\ Init /\ NetInit
  /\ part = "block" => peer_addr
  /\ part = "net" => /\ ~read_only /\ overflow_checks /\ interrupt_evt
                     /\ layout = [c \in Ids |-> <<D("IN", 0, TRUE)>>]

\* The thread of the block device's handler has panicked.
Stopped == pc = "dead" /\ UNCHANGED vars

DevicesNext ==
  /\ UNCHANGED part
  /\ \/ part = "block" /\ (Next \/ Stopped) /\ UNCHANGED netVars
     \/ part = "net" /\ NetNext /\ UNCHANGED vars

DevicesSpec == DevicesInit /\ [][DevicesNext]_<<part, vars, netVars>>

-----------------------------------------------------------------------------
(* What the run checks of both.                                            *)

\* Both devices keep their types.
DevicesTypeOK == TypeOK /\ NetTypeOK
=============================================================================

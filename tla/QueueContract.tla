--------------------------- MODULE QueueContract ---------------------------
(***************************************************************************)
(* What the driver of a virtqueue relies on: an active handler deals with  *)
(* the published chains in order and hands each one back exactly once; it  *)
(* stops only when it has found the ring empty; a chain may be kept only   *)
(* if its descriptors cannot be read, and then the handler may give up.    *)
(***************************************************************************)
EXTENDS Naturals, Sequences

VARIABLES
  offered,      \* chains published on a queue that is set up
  dealt,        \* chains dealt with, in order
  done,         \* chains handed back
  active,       \* a handler is at work
  unreadable    \* chains whose descriptors lie outside guest memory

contractVars == <<offered, dealt, done, active, unreadable>>

ContractInit ==
  /\ offered = 0
  /\ dealt = 0
  /\ done = <<>>
  /\ active = FALSE

\* Chains become visible to the device one by one, or all together when the
\* queue is set up after they were published.
Publish ==
  /\ offered' > offered
  /\ UNCHANGED <<dealt, done, active, unreadable>>

Start ==
  /\ ~active
  /\ active' = TRUE
  /\ UNCHANGED <<offered, dealt, done, unreadable>>

Serve ==
  /\ active /\ dealt < offered
  /\ dealt' = dealt + 1
  /\ done' = Append(done, dealt + 1)
  /\ UNCHANGED <<offered, active, unreadable>>

Keep ==
  /\ active /\ dealt < offered
  /\ dealt + 1 \in unreadable
  /\ dealt' = dealt + 1
  /\ active' \in BOOLEAN
  /\ UNCHANGED <<offered, done, unreadable>>

Finish ==
  /\ active /\ dealt = offered
  /\ active' = FALSE
  /\ UNCHANGED <<offered, dealt, done, unreadable>>

ContractNext == Publish \/ Start \/ Serve \/ Keep \/ Finish

ContractSpec == ContractInit /\ [][ContractNext]_contractVars

=============================================================================

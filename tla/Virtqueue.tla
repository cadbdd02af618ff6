----------------------------- MODULE Virtqueue -----------------------------
(***************************************************************************)
(* One virtqueue as the device handlers use it (crate virtio-queue, code   *)
(* outside this repository).  The driver in the guest publishes descriptor *)
(* chains in the available ring and the device answers in the used ring.   *)
(* A chain is named by its place in the available ring, so a chain the     *)
(* driver offers again is a new one.  Ring addresses are in guest RAM, so  *)
(* that add_used cannot fail.                                              *)
(***************************************************************************)
EXTENDS Naturals, Sequences

CONSTANT
  MaxChains     \* bound: chains the driver publishes

ASSUME VirtqueueAssumption == MaxChains \in Nat

VARIABLES
  ready,        \* the queue has been set up
  avail_idx,    \* chains published by the driver so far
  next_avail,   \* chains the device has popped
  used          \* the used ring, from the first element on

queueVars == <<ready, avail_idx, next_avail, used>>

QueueTypeOK ==
  /\ ready \in BOOLEAN
  /\ avail_idx \in 0 .. MaxChains
  /\ next_avail \in 0 .. avail_idx
  /\ used \in Seq([id : 1 .. MaxChains, len : Nat])

QueueInit ==
  /\ ready = FALSE
  /\ avail_idx = 0
  /\ next_avail = 0
  /\ used = <<>>

\* The driver gives the rings' addresses and marks the queue ready, through
\* vhost-user messages or the registers of a complete MMIO transport.
SetUp ==
  /\ ~ready
  /\ ready' = TRUE
  /\ UNCHANGED <<avail_idx, next_avail, used>>

\* The driver publishes a chain; the device may be working meanwhile.
Offer ==
  /\ avail_idx < MaxChains
  /\ avail_idx' = avail_idx + 1
  /\ UNCHANGED <<ready, next_avail, used>>

\* queue.iter(mem) fails on a queue that is not set up.
IterFails == ~ready

\* queue.iter(mem)?.next(): every call reads the driver's index afresh.
NoChain == ready /\ next_avail = avail_idx

Pop ==
  /\ ready /\ next_avail < avail_idx
  /\ next_avail' = next_avail + 1
  /\ UNCHANGED <<ready, avail_idx, used>>

\* queue.add_used(mem, head_index, len).
AddUsed(head, len) ==
  /\ used' = Append(used, [id |-> head, len |-> len])
  /\ UNCHANGED <<ready, avail_idx, next_avail>>

\* The contract's view of the queue: the chains the device can see, and the
\* ones it has handed back, in order.
Visible == IF ready THEN avail_idx ELSE 0

HandedBack == [k \in DOMAIN used |-> used[k].id]

=============================================================================

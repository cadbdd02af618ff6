----------------------------- MODULE VirtioNet -----------------------------
(***************************************************************************)
(* VirtioNet::process_queue (virtio/net.rs): the receive and the transmit  *)
(* queue and the UDP socket between them.  One handler runs at a time; the *)
(* driver publishes chains and packets arrive at any moment.  A frame to   *)
(* send is named by its chain, a packet that arrived by its number.        *)
(***************************************************************************)
EXTENDS Naturals, Sequences

CONSTANTS
  NetChains,    \* bound: chains published on each queue
  MaxPackets    \* bound: packets that arrive

ASSUME NetAssumption == NetChains \in Nat /\ MaxPackets \in Nat

VARIABLES
  rx_ready, rx_avail, rx_next, rx_used,   \* queue 0
  tx_ready, tx_avail, tx_next, tx_used,   \* queue 1
  peer_addr,   \* whether the device was given a peer
  net_pc,      \* where the handler is
  arrived,     \* packets that have reached the socket
  taken,       \* packets recv_from has returned, in order
  sent,        \* frames send_to has taken, in order
  dropped      \* history: frames whose send_to failed

RX == INSTANCE Virtqueue WITH MaxChains <- NetChains, ready <- rx_ready,
        avail_idx <- rx_avail, next_avail <- rx_next, used <- rx_used
TX == INSTANCE Virtqueue WITH MaxChains <- NetChains, ready <- tx_ready,
        avail_idx <- tx_avail, next_avail <- tx_next, used <- tx_used

rxVars == <<rx_ready, rx_avail, rx_next, rx_used>>
txVars == <<tx_ready, tx_avail, tx_next, tx_used>>
socket == <<arrived, taken, sent, dropped>>
netVars == <<rxVars, txVars, peer_addr, net_pc, socket>>

NetTypeOK ==
  /\ RX!QueueTypeOK /\ TX!QueueTypeOK
  /\ peer_addr \in BOOLEAN
  /\ net_pc \in {"idle", "rx", "recv", "rx_use", "tx", "send", "tx_use"}
  /\ arrived \in 0 .. MaxPackets
  /\ taken \in Seq(1 .. arrived)
  /\ sent \in Seq(1 .. NetChains)
  /\ dropped \in SUBSET (1 .. NetChains)

\* VirtioNet::new.  In the hypervisor add_virtio_net gives it no peer.
NetInit ==
  /\ RX!QueueInit /\ TX!QueueInit
  /\ peer_addr \in BOOLEAN
  /\ net_pc = "idle"
  /\ arrived = 0 /\ taken = <<>> /\ sent = <<>> /\ dropped = {}

NetDriver ==
  /\ \/ (RX!SetUp \/ RX!Offer) /\ UNCHANGED txVars
     \/ (TX!SetUp \/ TX!Offer) /\ UNCHANGED rxVars
  /\ UNCHANGED <<peer_addr, net_pc, socket>>

\* A packet reaches the socket.
Arrive ==
  /\ arrived < MaxPackets
  /\ arrived' = arrived + 1
  /\ UNCHANGED <<rxVars, txVars, peer_addr, net_pc, taken, sent,
                 dropped>>

\* process_queue(0) and process_queue(1); another index is an error that
\* changes nothing.
net_process_queue ==
  /\ net_pc = "idle"
  /\ net_pc' \in {"rx", "tx"}
  /\ UNCHANGED <<rxVars, txVars, peer_addr, socket>>

\* The head of process_rx_queue's loop.
RxLoop ==
  /\ net_pc = "rx"
  /\ \/ (RX!IterFails \/ RX!NoChain) /\ net_pc' = "idle"
        /\ UNCHANGED rxVars
     \/ RX!Pop /\ net_pc' = "recv"
  /\ UNCHANGED <<txVars, peer_addr, socket>>

\* socket.recv_from: the next packet; or none (WouldBlock, break) or another
\* error (return), and either way the chain in hand is left behind.
Recv ==
  /\ net_pc = "recv"
  /\ \/ /\ Len(taken) < arrived
        /\ taken' = Append(taken, Len(taken) + 1)
        /\ net_pc' = "rx_use"
     \/ net_pc' = "idle" /\ UNCHANGED taken
  /\ UNCHANGED <<rxVars, txVars, peer_addr, arrived, sent,
                 dropped>>

\* queue.add_used(mem, head_index, 0): the packet itself goes nowhere.
RxUse ==
  /\ net_pc = "rx_use"
  /\ RX!AddUsed(rx_next, 0)
  /\ net_pc' = "rx"
  /\ UNCHANGED <<txVars, peer_addr, socket>>

\* The head of process_tx_queue's loop.
TxLoop ==
  /\ net_pc = "tx"
  /\ \/ (TX!IterFails \/ TX!NoChain) /\ net_pc' = "idle"
        /\ UNCHANGED txVars
     \/ TX!Pop /\ net_pc' = "send"
  /\ UNCHANGED <<rxVars, peer_addr, socket>>

MutSend ==
  /\ net_pc = "send"
  /\ \/ peer_addr /\ sent' = Append(sent, tx_avail) /\ UNCHANGED dropped
     \/ peer_addr /\ dropped' = dropped \cup {tx_next} /\ UNCHANGED sent
     \/ ~peer_addr /\ UNCHANGED <<sent, dropped>>
  /\ net_pc' = "tx_use"
  /\ UNCHANGED <<rxVars, txVars, peer_addr, arrived, taken>>

MutSendFails ==
  /\ net_pc = "send"
  /\ \/ peer_addr /\ sent' = Append(sent, tx_next) /\ UNCHANGED dropped
        /\ net_pc' = "tx_use"
     \/ peer_addr /\ dropped' = dropped \cup {tx_next} /\ UNCHANGED sent
        /\ net_pc' = "idle"
     \/ ~peer_addr /\ UNCHANGED <<sent, dropped>> /\ net_pc' = "tx_use"
  /\ UNCHANGED <<rxVars, txVars, peer_addr, arrived, taken>>

\* The whole frame is sent if there is a peer; a failure is only logged.
Send ==
  /\ net_pc = "send"
  /\ \/ peer_addr /\ sent' = Append(sent, tx_next) /\ UNCHANGED dropped
     \/ peer_addr /\ dropped' = dropped \cup {tx_next} /\ UNCHANGED sent
     \/ ~peer_addr /\ UNCHANGED <<sent, dropped>>
  /\ net_pc' = "tx_use"
  /\ UNCHANGED <<rxVars, txVars, peer_addr, arrived, taken>>

\* queue.add_used(mem, head_index, buf.len()); a frame counts as one.
TxUse ==
  /\ net_pc = "tx_use"
  /\ TX!AddUsed(tx_next, 1)
  /\ net_pc' = "tx"
  /\ UNCHANGED <<rxVars, peer_addr, socket>>

NetNext == NetDriver \/ Arrive \/ net_process_queue \/ RxLoop \/ Recv \/ RxUse
          \/ TxLoop \/ Send \/ TxUse

NetSpec == NetInit /\ [][NetNext]_netVars

-----------------------------------------------------------------------------
(* What the run checks.                                                    *)

\* Frames reach the peer in the order of the transmit ring and none twice,
\* however the calls of the handler divide them and whichever sends failed.
SentInOrder ==
  LET gone == IF net_pc = "send" THEN tx_next - 1 ELSE tx_next
  IN /\ {sent[i] : i \in DOMAIN sent} =
          IF peer_addr THEN (1 .. gone) \ dropped ELSE {}
     /\ \A i, j \in DOMAIN sent : i < j => sent[i] < sent[j]

\* Packets and receive chains are paired: each packet taken from the socket
\* used up one chain, in ring order, so the guest never gets a chain back
\* without a packet having come.
RxPaired ==
  /\ Len(taken) = Len(rx_used) + (IF net_pc = "rx_use" THEN 1 ELSE 0)
  /\ \A i, j \in DOMAIN rx_used : i < j => rx_used[i].id < rx_used[j].id

\* Frames cross in order in both directions.
FramesInOrder == SentInOrder /\ RxPaired

TxDealt == IF net_pc \in {"send", "tx_use"} THEN tx_next - 1 ELSE tx_next
TxActive == net_pc \in {"tx", "send", "tx_use"}

TxContract == INSTANCE QueueContract WITH
  offered <- TX!Visible, dealt <- TxDealt, done <- TX!HandedBack,
  active <- TxActive, unreadable <- {}

\* The transmit handler implements the contract of a virtqueue, whether or
\* not there is a peer and whether or not the socket takes the frames.
TxServesQueue == TxContract!ContractSpec

=============================================================================

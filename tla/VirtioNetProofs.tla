-------------------------- MODULE VirtioNetProofs ---------------------------
(***************************************************************************)
(* Proofs about VirtioNet, for any number of chains and packets: frames    *)
(* cross in order in both directions, and the transmit handler implements  *)
(* the contract of a virtqueue.                                            *)
(***************************************************************************)
EXTENDS MCDevices, VirtioBlockProofs

NetUsed == [id : 1 .. NetChains, len : Nat]

-----------------------------------------------------------------------------
(* The inductive invariant.                                                *)

\* Nothing was taken from a queue that is not set up, and a handler holds a
\* chain only after it has popped one.
InHand ==
  /\ ~rx_ready => rx_next = 0 /\ net_pc \notin {"recv", "rx_use"}
  /\ ~tx_ready => tx_next = 0 /\ net_pc \notin {"send", "tx_use"}
  /\ net_pc \in {"recv", "rx_use"} => rx_next > 0
  /\ net_pc \in {"send", "tx_use"} => tx_next > 0

\* The receive chains handed back are older than the one in hand.
RxBehind ==
  \A k \in DOMAIN rx_used :
    /\ rx_used[k].id <= rx_next
    /\ net_pc \in {"recv", "rx_use"} => rx_used[k].id < rx_next

\* Frames gone: sent, dropped, or lost for want of a peer.
Gone == IF net_pc = "send" THEN tx_next - 1 ELSE tx_next

\* Every element of q is one of set, and they ascend.
Ascends(q, set) ==
  /\ {q[i] : i \in DOMAIN q} = set
  /\ \A i, j \in DOMAIN q : i < j => q[i] < q[j]

SentInv ==
  /\ dropped \subseteq 1 .. Gone
  /\ peer_addr => Ascends(sent, (1 .. Gone) \ dropped)
  /\ ~peer_addr => Ascends(sent, {})

NetInv == NetTypeOK /\ InHand /\ RxBehind /\ RxPaired /\ SentInv

-----------------------------------------------------------------------------
(* Sequences that grow by one element.                                     *)

LEMMA AscendsAppend ==
  ASSUME NEW q \in Seq(Nat), NEW set, Ascends(q, set), NEW e \in Nat,
         \A x \in set : x < e
  PROVE  Ascends(Append(q, e), set \cup {e})
<1> DEFINE p == Append(q, e)
           n == Len(q)
<1>1. /\ n \in Nat /\ DOMAIN q = 1 .. n
      /\ DOMAIN p = (1 .. n) \cup {n + 1}
      /\ \A k \in 1 .. n : p[k] = q[k]
      /\ p[n + 1] = e
  BY Appended
<1>2. set = {q[i] : i \in 1 .. n} /\ \A i \in 1 .. n : q[i] \in set
  BY <1>1 DEF Ascends
<1>3. \A i, j \in 1 .. n : i < j => q[i] < q[j]
  BY <1>1 DEF Ascends
<1> HIDE DEF p, n
<1>4. {p[i] : i \in DOMAIN p} = set \cup {e}
  <2>1. {p[i] : i \in DOMAIN p} = {p[i] : i \in 1 .. n} \cup {p[n + 1]}
    BY <1>1
  <2>2. {p[i] : i \in 1 .. n} = {q[i] : i \in 1 .. n}
    BY <1>1
  <2> QED
    BY <1>1, <1>2, <2>1, <2>2
<1>5. \A i, j \in DOMAIN p : i < j => p[i] < p[j]
  <2> SUFFICES ASSUME NEW i \in DOMAIN p, NEW j \in DOMAIN p, i < j
               PROVE  p[i] < p[j]
    OBVIOUS
  <2>1. i \in 1 .. n
    BY <1>1
  <2>2. CASE j \in 1 .. n
    BY <1>1, <1>3, <2>1, <2>2
  <2>3. CASE j = n + 1
    BY <1>1, <1>2, <2>1, <2>3
  <2> QED
    BY <1>1, <2>2, <2>3
<1> QED
  BY <1>4, <1>5 DEF Ascends, p

(* A sequence of numbers up to m is one of numbers up to a larger bound.   *)
LEMMA WiderSeq ==
  ASSUME NEW S, NEW T, S \subseteq T, NEW q \in Seq(S)
  PROVE  q \in Seq(T)
OBVIOUS

-----------------------------------------------------------------------------
(* The invariant at the start.                                             *)

LEMMA InitNetInv == NetInit => NetInv
<1> SUFFICES ASSUME NetInit PROVE NetInv
  OBVIOUS
<1>1. /\ rx_used = <<>> /\ tx_used = <<>> /\ taken = <<>> /\ sent = <<>>
      /\ rx_next = 0 /\ tx_next = 0 /\ net_pc = "idle" /\ dropped = {}
      /\ rx_avail = 0 /\ tx_avail = 0 /\ arrived = 0
  BY DEF NetInit, RX!QueueInit, TX!QueueInit
<1>2. /\ \A S : <<>> \in Seq(S)
      /\ Len(<<>>) = 0 /\ DOMAIN <<>> = {}
  OBVIOUS
<1>3. RX!QueueTypeOK
  <2>1. rx_avail \in 0 .. NetChains /\ rx_next \in 0 .. rx_avail
    BY <1>1, NetAssumption
  <2> QED
    BY <1>1, <1>2, <2>1 DEF NetInit, RX!QueueInit, RX!QueueTypeOK
<1>4. TX!QueueTypeOK
  <2>1. tx_avail \in 0 .. NetChains /\ tx_next \in 0 .. tx_avail
    BY <1>1, NetAssumption
  <2> QED
    BY <1>1, <1>2, <2>1 DEF NetInit, TX!QueueInit, TX!QueueTypeOK
<1>5. NetTypeOK
  <2>1. arrived \in 0 .. MaxPackets
    BY <1>1, NetAssumption
  <2> QED
    BY <1>1, <1>2, <1>3, <1>4, <2>1 DEF NetInit, NetTypeOK
<1>6. InHand /\ RxBehind /\ RxPaired
  BY <1>1, <1>2 DEF InHand, RxBehind, RxPaired
<1>7. SentInv
  BY <1>1, <1>2 DEF SentInv, Ascends, Gone
<1> QED
  BY <1>5, <1>6, <1>7 DEF NetInv

-----------------------------------------------------------------------------
(* The invariant across a step.                                            *)

LEMMA Counters ==
  ASSUME NetTypeOK
  PROVE  /\ NetChains \in Nat /\ MaxPackets \in Nat
         /\ rx_avail \in Nat /\ rx_next \in Nat /\ rx_next <= rx_avail
         /\ tx_avail \in Nat /\ tx_next \in Nat /\ tx_next <= tx_avail
         /\ rx_avail <= NetChains /\ tx_avail <= NetChains
         /\ rx_used \in Seq(NetUsed) /\ tx_used \in Seq(NetUsed)
         /\ Len(rx_used) \in Nat /\ Len(tx_used) \in Nat
         /\ \A k \in DOMAIN rx_used : rx_used[k].id \in Nat
         /\ \A k \in DOMAIN tx_used : tx_used[k].id \in Nat
<1>1. rx_used \in Seq(NetUsed) /\ tx_used \in Seq(NetUsed)
  BY DEF NetTypeOK, RX!QueueTypeOK, TX!QueueTypeOK, NetUsed
<1>2. \A u \in NetUsed : u.id \in Nat
  BY DEF NetUsed
<1>3. /\ \A k \in DOMAIN rx_used : rx_used[k] \in NetUsed
      /\ \A k \in DOMAIN tx_used : tx_used[k] \in NetUsed
      /\ Len(rx_used) \in Nat /\ Len(tx_used) \in Nat
  BY <1>1
<1>4. /\ rx_avail \in Nat /\ rx_next \in Nat /\ rx_next <= rx_avail
      /\ tx_avail \in Nat /\ tx_next \in Nat /\ tx_next <= tx_avail
      /\ rx_avail <= NetChains /\ tx_avail <= NetChains
  BY NetAssumption DEF NetTypeOK, RX!QueueTypeOK, TX!QueueTypeOK
<1> QED
  BY <1>1, <1>2, <1>3, <1>4, NetAssumption

LEMMA NetDriverStep == ASSUME NetInv, NetDriver PROVE NetInv'
<1>1. UNCHANGED <<rx_next, rx_used, tx_next, tx_used, peer_addr, net_pc,
                  arrived, taken, sent, dropped>>
  BY DEF NetDriver, RX!SetUp, RX!Offer, TX!SetUp, TX!Offer, rxVars, txVars,
         socket
<1>2. rx_ready' \in BOOLEAN /\ (rx_ready => rx_ready')
  BY DEF NetDriver, RX!SetUp, RX!Offer, rxVars, NetInv, NetTypeOK,
         RX!QueueTypeOK
<1>3. tx_ready' \in BOOLEAN /\ (tx_ready => tx_ready')
  BY DEF NetDriver, TX!SetUp, TX!Offer, txVars, NetInv, NetTypeOK,
         TX!QueueTypeOK
<1>4. rx_avail' \in 0 .. NetChains /\ rx_next' \in 0 .. rx_avail'
  BY <1>1, Counters DEF NetDriver, RX!SetUp, RX!Offer, rxVars, NetInv
<1>5. tx_avail' \in 0 .. NetChains /\ tx_next' \in 0 .. tx_avail'
  BY <1>1, Counters DEF NetDriver, TX!SetUp, TX!Offer, txVars, NetInv
<1>6. NetTypeOK'
  BY <1>1, <1>2, <1>3, <1>4, <1>5
     DEF NetInv, NetTypeOK, RX!QueueTypeOK, TX!QueueTypeOK
<1>7. InHand' /\ RxBehind' /\ RxPaired' /\ SentInv'
  BY <1>1, <1>2, <1>3 DEF NetInv, InHand, RxBehind, RxPaired, SentInv, Gone
<1> QED
  BY <1>6, <1>7 DEF NetInv

LEMMA ArriveStep == ASSUME NetInv, Arrive PROVE NetInv'
<1>1. /\ arrived' = arrived + 1 /\ arrived < MaxPackets
      /\ UNCHANGED <<rxVars, txVars, peer_addr, net_pc, taken, sent, dropped>>
  BY DEF Arrive
<1>2. arrived \in Nat /\ arrived' \in 0 .. MaxPackets
  BY <1>1, NetAssumption DEF NetInv, NetTypeOK
<1>3. taken' \in Seq(1 .. arrived')
  <2>1. 1 .. arrived \subseteq 1 .. arrived'
    BY <1>1, <1>2
  <2> QED
    BY <1>1, <2>1, WiderSeq DEF NetInv, NetTypeOK
<1>4. RX!QueueTypeOK' /\ TX!QueueTypeOK'
  BY <1>1 DEF NetInv, NetTypeOK, RX!QueueTypeOK, TX!QueueTypeOK, rxVars, txVars
<1>5. NetTypeOK'
  BY <1>1, <1>2, <1>3, <1>4 DEF NetInv, NetTypeOK
<1>6. InHand' /\ RxBehind' /\ RxPaired' /\ SentInv'
  BY <1>1 DEF NetInv, InHand, RxBehind, RxPaired, SentInv, Gone, rxVars, txVars
<1> QED
  BY <1>5, <1>6 DEF NetInv

(* The steps that change only where the handler is: a call, and a loop     *)
(* that ends.                                                              *)
LEMMA NetControlStep ==
  ASSUME NetInv, UNCHANGED <<rxVars, txVars, peer_addr, socket>>,
         net_pc \in {"idle", "rx", "tx", "recv"},
         net_pc' \in {"idle", "rx", "tx"}
  PROVE  NetInv'
<1>1. NetTypeOK'
  BY DEF NetInv, NetTypeOK, RX!QueueTypeOK, TX!QueueTypeOK, rxVars, txVars,
         socket
<1>2. InHand' /\ RxBehind' /\ RxPaired' /\ SentInv'
  BY DEF NetInv, InHand, RxBehind, RxPaired, SentInv, Gone, rxVars, txVars,
         socket
<1> QED
  BY <1>1, <1>2 DEF NetInv

LEMMA RxLoopStep == ASSUME NetInv, RxLoop PROVE NetInv'
<1>1. CASE ~RX!Pop
  BY <1>1, NetControlStep DEF RxLoop
<1>2. CASE RX!Pop
  <2>1. /\ net_pc = "rx" /\ net_pc' = "recv" /\ rx_ready
        /\ rx_next' = rx_next + 1 /\ rx_next < rx_avail
        /\ UNCHANGED <<rx_ready, rx_avail, rx_used, txVars, peer_addr>>
        /\ UNCHANGED socket
    BY <1>2, Counters DEF RxLoop, RX!Pop, RX!IterFails, RX!NoChain, NetInv
  <2>2. rx_next' \in 0 .. rx_avail' /\ rx_next' > 0
    BY <2>1, Counters DEF NetInv
  <2>3. NetTypeOK'
    BY <2>1, <2>2 DEF NetInv, NetTypeOK, RX!QueueTypeOK,
      TX!QueueTypeOK, txVars,
                      socket
  <2>4. \A k \in DOMAIN rx_used :
          rx_used[k].id <= rx_next' /\ rx_used[k].id < rx_next'
    BY <2>1, Counters DEF NetInv, RxBehind
  <2>5. InHand' /\ RxBehind'
    BY <2>1, <2>2, <2>4 DEF NetInv, InHand, RxBehind, txVars
  <2>6. RxPaired' /\ SentInv'
    BY <2>1 DEF NetInv, RxPaired, SentInv, Gone, txVars, socket
  <2> QED
    BY <2>3, <2>5, <2>6 DEF NetInv
<1> QED
  BY <1>1, <1>2

LEMMA RecvStep == ASSUME NetInv, Recv PROVE NetInv'
<1>1. CASE UNCHANGED taken
  <2>1. net_pc' = "idle"
    <3>1. taken \in Seq(1 .. arrived)
      BY DEF NetInv, NetTypeOK
    <3>2. Append(taken, Len(taken) + 1) # taken
      <4>1. Len(Append(taken, Len(taken) + 1)) = Len(taken) + 1
            /\ Len(taken) \in Nat
        BY <3>1
      <4> QED
        BY <4>1
    <3> QED
      BY <1>1, <3>2 DEF Recv
  <2> QED
    BY <1>1, <2>1, NetControlStep DEF Recv, socket
<1>2. CASE taken' = Append(taken, Len(taken) + 1) /\ net_pc' = "rx_use"
           /\ Len(taken) < arrived
  <2>1. /\ net_pc = "recv"
        /\ UNCHANGED <<rxVars, txVars, peer_addr, arrived, sent, dropped>>
    BY DEF Recv
  <2>2. taken' \in Seq(1 .. arrived) /\ Len(taken') = Len(taken) + 1
    <3>1. taken \in Seq(1 .. arrived) /\ arrived \in Nat
      BY NetAssumption DEF NetInv, NetTypeOK
    <3>2. Len(taken) + 1 \in 1 .. arrived
      BY <1>2, <3>1
    <3> QED
      BY <1>2, <3>1, <3>2, Appended
  <2>3. NetTypeOK'
    BY <1>2, <2>1, <2>2 DEF NetInv, NetTypeOK, RX!QueueTypeOK, TX!QueueTypeOK,
                            rxVars, txVars
  <2>4. InHand' /\ RxBehind' /\ SentInv'
    BY <1>2, <2>1 DEF NetInv, InHand, RxBehind, SentInv, Gone, rxVars, txVars
  <2>5. RxPaired'
    <3>1. Len(taken) = Len(rx_used)
      BY <2>1, Counters DEF NetInv, RxPaired
    <3>2. Len(taken') = Len(rx_used) + 1
      BY <2>2, <3>1
    <3> QED
      BY <1>2, <2>1, <3>2 DEF NetInv, RxPaired, rxVars
  <2> QED
    BY <2>3, <2>4, <2>5 DEF NetInv
<1> QED
  BY <1>1, <1>2 DEF Recv

(* add_used of either queue, with the chain in hand.                       *)
LEMMA UsedGrows ==
  ASSUME NEW q \in Seq(NetUsed), NEW head \in 1 .. NetChains, NEW len \in Nat
  PROVE  LET p == Append(q, [id |-> head, len |-> len]) IN
         /\ p \in Seq(NetUsed)
         /\ Len(q) \in Nat /\ Len(p) = Len(q) + 1
         /\ DOMAIN q = 1 .. Len(q)
         /\ DOMAIN p = (1 .. Len(q)) \cup {Len(q) + 1}
         /\ \A k \in 1 .. Len(q) : p[k] = q[k]
         /\ p[Len(q) + 1].id = head
<1> DEFINE u == [id |-> head, len |-> len]
<1>1. u \in NetUsed /\ u.id = head
  BY DEF NetUsed
<1> HIDE DEF u
<1>2. LET p == Append(q, u) IN
      /\ p \in Seq(NetUsed)
      /\ Len(q) \in Nat /\ Len(p) = Len(q) + 1
      /\ DOMAIN q = 1 .. Len(q)
      /\ DOMAIN p = (1 .. Len(q)) \cup {Len(q) + 1}
      /\ \A k \in 1 .. Len(q) : p[k] = q[k]
      /\ p[Len(q) + 1].id = head
  BY <1>1, Appended
<1> QED
  BY <1>2 DEF u

LEMMA RxUseStep == ASSUME NetInv, RxUse PROVE NetInv'
<1>1. /\ net_pc = "rx_use" /\ net_pc' = "rx"
      /\ rx_used' = Append(rx_used, [id |-> rx_next, len |-> 0])
      /\ UNCHANGED <<rx_ready, rx_avail, rx_next, txVars, peer_addr, socket>>
  BY DEF RxUse, RX!AddUsed
<1>2. rx_next \in 1 .. NetChains /\ rx_next \in Nat /\ rx_ready
  BY <1>1, Counters DEF NetInv, InHand
<1>3. /\ rx_used' \in Seq(NetUsed)
      /\ Len(rx_used) \in Nat /\ Len(rx_used') = Len(rx_used) + 1
      /\ DOMAIN rx_used = 1 .. Len(rx_used)
      /\ DOMAIN rx_used' = (1 .. Len(rx_used)) \cup {Len(rx_used) + 1}
      /\ \A k \in 1 .. Len(rx_used) : rx_used'[k] = rx_used[k]
      /\ rx_used'[Len(rx_used) + 1].id = rx_next
  BY <1>1, <1>2, UsedGrows, Counters DEF NetInv
<1>4. NetTypeOK'
  BY <1>1, <1>3 DEF NetInv, NetTypeOK, RX!QueueTypeOK, TX!QueueTypeOK, txVars,
                    socket, NetUsed
<1>5. InHand' /\ SentInv'
  BY <1>1, <1>2 DEF NetInv, InHand, SentInv, Gone, txVars, socket
<1>6. \A k \in 1 .. Len(rx_used) :
        rx_used[k].id \in Nat /\ rx_used[k].id < rx_next
  BY <1>1, <1>3, Counters DEF NetInv, RxBehind
<1>7. RxBehind'
  BY <1>1, <1>2, <1>3, <1>6 DEF RxBehind
<1>8. RxPaired'
  <2>1. Len(taken) = Len(rx_used) + 1
    BY <1>1 DEF NetInv, RxPaired
  <2>2. Len(taken') = Len(rx_used') + 0
    BY <1>1, <1>3, <2>1 DEF socket
  <2>3. \A i, j \in 1 .. Len(rx_used) :
          i < j => rx_used[i].id < rx_used[j].id
    BY <1>3 DEF NetInv, RxPaired
  <2>4. \A i, j \in DOMAIN rx_used' :
          i < j => rx_used'[i].id < rx_used'[j].id
    <3> SUFFICES ASSUME NEW i \in DOMAIN rx_used', NEW j \in DOMAIN rx_used',
                        i < j
                 PROVE  rx_used'[i].id < rx_used'[j].id
      OBVIOUS
    <3>1. i \in 1 .. Len(rx_used)
      BY <1>3
    <3>2. CASE j \in 1 .. Len(rx_used)
      BY <1>3, <2>3, <3>1, <3>2
    <3>3. CASE j = Len(rx_used) + 1
      BY <1>3, <1>6, <3>1, <3>3
    <3> QED
      BY <1>3, <3>2, <3>3
  <2> QED
    BY <1>1, <2>2, <2>4 DEF RxPaired
<1> QED
  BY <1>4, <1>5, <1>7, <1>8 DEF NetInv

LEMMA TxLoopStep == ASSUME NetInv, TxLoop PROVE NetInv'
<1>1. CASE ~TX!Pop
  BY <1>1, NetControlStep DEF TxLoop
<1>2. CASE TX!Pop
  <2>1. /\ net_pc = "tx" /\ net_pc' = "send" /\ tx_ready
        /\ tx_next' = tx_next + 1 /\ tx_next < tx_avail
        /\ UNCHANGED <<tx_ready, tx_avail, tx_used, rxVars, peer_addr>>
        /\ UNCHANGED socket
    BY <1>2, Counters DEF TxLoop, TX!Pop, TX!IterFails, TX!NoChain, NetInv
  <2>2. tx_next' \in 0 .. tx_avail' /\ tx_next' > 0 /\ Gone' = Gone
    BY <2>1, Counters DEF NetInv, Gone
  <2>3. NetTypeOK'
    BY <2>1, <2>2 DEF NetInv, NetTypeOK, RX!QueueTypeOK,
      TX!QueueTypeOK, rxVars,
                      socket
  <2>4. InHand' /\ RxBehind' /\ RxPaired'
    BY <2>1, <2>2 DEF NetInv, InHand, RxBehind, RxPaired, rxVars, socket
  <2>5. SentInv'
    BY <2>1, <2>2 DEF NetInv, SentInv, socket
  <2> QED
    BY <2>3, <2>4, <2>5 DEF NetInv
<1> QED
  BY <1>1, <1>2

LEMMA SendStep == ASSUME NetInv, Send PROVE NetInv'
<1>1. /\ net_pc = "send" /\ net_pc' = "tx_use"
      /\ UNCHANGED <<rxVars, txVars, peer_addr, arrived, taken>>
  BY DEF Send
<1>2. /\ tx_next \in 1 .. NetChains /\ tx_next \in Nat /\ tx_next > 0
      /\ Gone = tx_next - 1 /\ Gone' = tx_next
  BY <1>1, Counters DEF NetInv, InHand, Gone, txVars
<1>3. /\ sent \in Seq(1 .. NetChains) /\ dropped \subseteq 1 .. Gone
      /\ dropped \in SUBSET (1 .. NetChains)
  BY DEF NetInv, NetTypeOK, SentInv
<1>4. /\ sent' \in Seq(1 .. NetChains) /\ dropped' \in SUBSET (1 .. NetChains)
      /\ dropped' \subseteq 1 .. tx_next
  <2>1. Append(sent, tx_next) \in Seq(1 .. NetChains)
    BY <1>2, <1>3, Appended
  <2>2. /\ dropped \subseteq 1 .. tx_next
        /\ dropped \cup {tx_next} \subseteq 1 .. tx_next
        /\ dropped \cup {tx_next} \subseteq 1 .. NetChains
    BY <1>2, <1>3
  <2> QED
    BY <1>3, <2>1, <2>2 DEF Send
<1>5. NetTypeOK'
  BY <1>1, <1>4 DEF NetInv, NetTypeOK, RX!QueueTypeOK, TX!QueueTypeOK, rxVars,
                    txVars
<1>6. InHand' /\ RxBehind' /\ RxPaired'
  BY <1>1, <1>2 DEF NetInv, InHand, RxBehind, RxPaired, rxVars, txVars
<1>7. SentInv'
  <2>1. CASE ~peer_addr
    BY <1>1, <1>2, <1>4, <2>1 DEF Send, NetInv, SentInv
  <2>2. CASE peer_addr /\ sent' = Append(sent, tx_next) /\ UNCHANGED dropped
    <3> DEFINE set == (1 .. Gone) \ dropped
    <3>1. Ascends(sent, set)
      BY <2>2 DEF NetInv, SentInv
    <3>2. sent \in Seq(Nat) /\ \A x \in set : x < tx_next
      <4>1. 1 .. NetChains \subseteq Nat
        OBVIOUS
      <4>2. sent \in Seq(Nat)
        BY <1>3, <4>1, WiderSeq
      <4> QED
        BY <1>2, <4>2
    <3>3. Ascends(sent', set \cup {tx_next})
      BY <1>2, <2>2, <3>1, <3>2, AscendsAppend
    <3>4. set \cup {tx_next} = (1 .. tx_next) \ dropped
      BY <1>2, <1>3
    <3> QED
      BY <1>1, <1>2, <1>4, <2>2, <3>3, <3>4 DEF SentInv
  <2>3. CASE peer_addr /\ dropped' = dropped \cup {tx_next} /\ UNCHANGED sent
    <3>1. Ascends(sent, (1 .. Gone) \ dropped)
      BY <2>3 DEF NetInv, SentInv
    <3>2. (1 .. Gone) \ dropped = (1 .. tx_next) \ dropped'
      BY <1>2, <1>3, <2>3
    <3> QED
      BY <1>1, <1>2, <1>4, <2>3, <3>1, <3>2 DEF SentInv
  <2> QED
    BY <2>1, <2>2, <2>3 DEF Send
<1> QED
  BY <1>5, <1>6, <1>7 DEF NetInv

LEMMA TxUseStep == ASSUME NetInv, TxUse PROVE NetInv'
<1>1. /\ net_pc = "tx_use" /\ net_pc' = "tx"
      /\ tx_used' = Append(tx_used, [id |-> tx_next, len |-> 1])
      /\ UNCHANGED <<tx_ready, tx_avail, tx_next, rxVars, peer_addr, socket>>
  BY DEF TxUse, TX!AddUsed
<1>2. tx_next \in 1 .. NetChains /\ tx_ready
  BY <1>1, Counters DEF NetInv, InHand
<1>3. tx_used' \in Seq(NetUsed)
  BY <1>1, <1>2, UsedGrows, Counters DEF NetInv
<1>4. NetTypeOK'
  BY <1>1, <1>3 DEF NetInv, NetTypeOK, RX!QueueTypeOK, TX!QueueTypeOK, rxVars,
                    socket, NetUsed
<1>5. InHand' /\ RxBehind' /\ RxPaired' /\ SentInv'
  BY <1>1, <1>2 DEF NetInv, InHand, RxBehind, RxPaired, SentInv, Gone, rxVars,
                    socket
<1> QED
  BY <1>4, <1>5 DEF NetInv

LEMMA NextNetInv == NetInv /\ [NetNext]_netVars => NetInv'
<1> SUFFICES ASSUME NetInv, [NetNext]_netVars PROVE NetInv'
  OBVIOUS
<1>1. CASE net_process_queue
  BY <1>1, NetControlStep DEF net_process_queue
<1>2. CASE UNCHANGED netVars
  <2>1. NetTypeOK'
    BY <1>2 DEF NetInv, NetTypeOK, RX!QueueTypeOK, TX!QueueTypeOK, netVars,
                rxVars, txVars, socket
  <2>2. InHand' /\ RxBehind' /\ RxPaired' /\ SentInv'
    BY <1>2 DEF NetInv, InHand, RxBehind, RxPaired, SentInv, Gone, netVars,
                rxVars, txVars, socket
  <2> QED
    BY <2>1, <2>2 DEF NetInv
<1> QED
  BY <1>1, <1>2, NetDriverStep, ArriveStep, RxLoopStep, RecvStep, RxUseStep,
     TxLoopStep, SendStep, TxUseStep DEF NetNext

LEMMA NetInvariant == NetSpec => []NetInv
BY InitNetInv, NextNetInv, PTL DEF NetSpec

-----------------------------------------------------------------------------
(* Theorems.                                                               *)

(* The two queues, the handlers and the socket keep their types.           *)
THEOREM NetTypeCorrect == NetSpec => []NetTypeOK
<1>1. NetInv => NetTypeOK
  BY DEF NetInv
<1> QED
  BY <1>1, NetInvariant, PTL

(* Frames reach the peer in the order of the transmit ring and none twice; *)
(* each packet taken from the socket used up one receive chain, in order.  *)
THEOREM InOrder == NetSpec => []FramesInOrder
<1>1. NetInv => FramesInOrder
  <2> SUFFICES ASSUME NetInv PROVE SentInOrder
    BY DEF NetInv, FramesInOrder
  <2>1. CASE peer_addr
    BY <2>1 DEF NetInv, SentInv, Ascends, Gone, SentInOrder
  <2>2. CASE ~peer_addr
    BY <2>2 DEF NetInv, SentInv, Ascends, Gone, SentInOrder
  <2> QED
    BY <2>1, <2>2
<1> QED
  BY <1>1, NetInvariant, PTL

-----------------------------------------------------------------------------
(* Refinement.                                                             *)

LEMMA InitTxContract == NetInit => TxContract!ContractInit
BY DEF NetInit, TX!QueueInit, TxContract!ContractInit, TX!Visible, TxDealt,
       TX!HandedBack, TxActive

(* The heads in the used ring of the transmit queue, after add_used.       *)
LEMMA TxHandedBackGrows ==
  ASSUME NetInv, TxUse
  PROVE  TX!HandedBack' = Append(TX!HandedBack, tx_next)
<1>1. /\ net_pc = "tx_use"
      /\ tx_used' = Append(tx_used, [id |-> tx_next, len |-> 1])
  BY DEF TxUse, TX!AddUsed
<1>2. tx_next \in 1 .. NetChains /\ tx_next \in Nat
  BY <1>1, Counters DEF NetInv, InHand
<1>3. /\ Len(tx_used) \in Nat /\ DOMAIN tx_used = 1 .. Len(tx_used)
      /\ DOMAIN tx_used' = 1 .. Len(tx_used) + 1
      /\ \A k \in 1 .. Len(tx_used) : tx_used'[k] = tx_used[k]
      /\ tx_used'[Len(tx_used) + 1].id = tx_next
  BY <1>1, <1>2, UsedGrows, Counters DEF NetInv
<1>4. TX!HandedBack \in Seq(Nat) /\ Len(TX!HandedBack) = Len(tx_used)
  <2>1. TX!HandedBack = [k \in 1 .. Len(tx_used) |-> tx_used[k].id]
    BY <1>3 DEF TX!HandedBack
  <2>2. \A k \in 1 .. Len(tx_used) : tx_used[k].id \in Nat
    BY <1>3, Counters DEF NetInv
  <2> QED
    BY <1>3, <2>1, <2>2
<1>5. \A k \in 1 .. Len(tx_used) : tx_used'[k].id = TX!HandedBack[k]
  BY <1>3 DEF TX!HandedBack
<1> QED
  BY <1>2, <1>3, <1>4, <1>5 DEF TX!HandedBack

LEMMA NextTxContract ==
  NetInv /\ [NetNext]_netVars =>
    [TxContract!ContractNext]_(TxContract!contractVars)
<1> SUFFICES ASSUME NetInv, [NetNext]_netVars
             PROVE  [TxContract!ContractNext]_(TxContract!contractVars)
  OBVIOUS
<1> USE DEF TxContract!ContractNext, TxContract!contractVars
<1>1. CASE NetDriver
  <2>1. TX!HandedBack' = TX!HandedBack /\ TxDealt' = TxDealt
    BY <1>1 DEF NetDriver, TX!SetUp, TX!Offer, TX!HandedBack, TxDealt, txVars
  <2>2. TxActive' = TxActive
    BY <1>1 DEF NetDriver, TxActive
  <2>3. TX!Visible' > TX!Visible \/ TX!Visible' = TX!Visible
    BY <1>1, Counters
       DEF NetDriver, TX!SetUp, TX!Offer, TX!Visible, txVars, NetInv
  <2> QED
    BY <2>1, <2>2, <2>3 DEF TxContract!Publish
<1>2. CASE net_process_queue
  <2>1. UNCHANGED <<TX!Visible, TxDealt, TX!HandedBack>>
    BY <1>2 DEF net_process_queue, txVars, TX!Visible, TxDealt, TX!HandedBack
  <2>2. CASE net_pc' = "tx"
    <3>1. ~TxActive /\ (TxActive' = TRUE)
      BY <1>2, <2>2 DEF net_process_queue, TxActive
    <3> QED
      BY <2>1, <3>1 DEF TxContract!Start
  <2>3. CASE net_pc' = "rx"
    <3>1. TxActive' = TxActive
      BY <1>2, <2>3 DEF net_process_queue, TxActive
    <3> QED
      BY <2>1, <3>1
  <2> QED
    BY <1>2, <2>2, <2>3 DEF net_process_queue
<1>3. CASE TxLoop
  <2>1. CASE ~TX!Pop
    <3>1. /\ UNCHANGED <<TX!Visible, TX!HandedBack, TxDealt>>
          /\ TxDealt = TX!Visible
      BY <1>3, <2>1
         DEF TxLoop, txVars, TX!Visible, TX!HandedBack, TxDealt,
             TX!IterFails, TX!NoChain, NetInv, InHand
    <3>2. TxActive /\ (TxActive' = FALSE)
      BY <1>3, <2>1 DEF TxLoop, TxActive
    <3> QED
      BY <3>1, <3>2 DEF TxContract!Finish
  <2>2. CASE TX!Pop
    <3>1. net_pc = "tx" /\ net_pc' = "send"
      BY <1>3, <2>2, Counters DEF TxLoop, TX!Pop, TX!IterFails, TX!NoChain,
                                  NetInv
    <3>2. UNCHANGED <<TX!Visible, TX!HandedBack>>
      BY <2>2 DEF TX!Pop, TX!Visible, TX!HandedBack
    <3>3. TxDealt' = TxDealt
      BY <2>2, <3>1, Counters DEF TX!Pop, TxDealt, NetInv
    <3>4. TxActive' = TxActive
      BY <3>1 DEF TxActive
    <3> QED
      BY <3>2, <3>3, <3>4
  <2> QED
    BY <2>1, <2>2
<1>4. CASE TxUse
  <2>1. /\ net_pc = "tx_use" /\ net_pc' = "tx"
        /\ UNCHANGED <<tx_ready, tx_avail, tx_next>>
    BY <1>4 DEF TxUse, TX!AddUsed
  <2>2. tx_ready /\ tx_next > 0
    BY <2>1 DEF NetInv, InHand
  <2>3. TX!HandedBack' = Append(TX!HandedBack, tx_next)
    BY <1>4, TxHandedBackGrows
  <2>4. /\ TxDealt + 1 = tx_next /\ TxDealt' = TxDealt + 1
        /\ TxDealt < TX!Visible
    BY <2>1, <2>2, Counters DEF TxDealt, TX!Visible, NetInv
  <2>5. UNCHANGED TX!Visible /\ TxActive /\ (TxActive' = TxActive)
    BY <2>1 DEF TX!Visible, TxActive
  <2> QED
    BY <2>3, <2>4, <2>5 DEF TxContract!Serve
<1>5. CASE Send \/ Arrive \/ RxLoop \/ Recv \/ RxUse \/ UNCHANGED netVars
  <2>1. /\ UNCHANGED txVars
        /\ \/ net_pc' = net_pc
           \/ net_pc = "send" /\ net_pc' = "tx_use"
           \/ /\ net_pc \in {"rx", "recv", "rx_use"}
              /\ net_pc' \in {"idle", "rx", "recv", "rx_use"}
    BY <1>5 DEF Send, Arrive, RxLoop, Recv, RxUse, netVars
  <2>2. UNCHANGED <<TX!Visible, TX!HandedBack, TxDealt>>
    BY <2>1 DEF txVars, TX!Visible, TX!HandedBack, TxDealt
  <2>3. TxActive' = TxActive
    BY <2>1 DEF TxActive
  <2> QED
    BY <2>2, <2>3
<1> QED
  BY <1>1, <1>2, <1>3, <1>4, <1>5 DEF NetNext

(* process_tx_queue implements the contract of a virtqueue and keeps no    *)
(* chain, whether or not the frames can be sent.                           *)
THEOREM TransmitServesQueue == NetSpec => TxServesQueue
BY NetInvariant, InitTxContract, NextTxContract, PTL
   DEF NetSpec, TxServesQueue, TxContract!ContractSpec

-----------------------------------------------------------------------------
(* Both handlers come to an end.                                           *)

\* The chains the handlers have yet to pop, and the place in the loop.
NetChainsLeft == (rx_avail - rx_next) + (tx_avail - tx_next)

NetPlace == CASE net_pc \in {"recv", "send"} -> 3
              [] net_pc \in {"rx_use", "tx_use"} -> 2
              [] net_pc \in {"rx", "tx"} -> 1 [] OTHER -> 0

\* A step while a handler is at work: the driver's or a packet's arrival,
\* which change nothing the handler has, or its own.
NetWorkFalls ==
  net_pc # "idle" =>
    \/ UNCHANGED <<rx_next, rx_used, tx_next, tx_used, net_pc, taken, sent>>
    \/ /\ UNCHANGED <<rx_avail, tx_avail>>
       /\ \/ NetChainsLeft' < NetChainsLeft
          \/ NetChainsLeft' = NetChainsLeft /\ NetPlace' < NetPlace

(* Every step of process_rx_queue and process_tx_queue brings it closer to *)
(* its end, however many packets arrive meanwhile; only a chain that the   *)
(* driver publishes takes it further from it.                              *)
THEOREM HandlersWindDown == NetSpec => [][NetWorkFalls]_netVars
<1>1. ASSUME NetInv, NetNext, net_pc # "idle"
      PROVE  NetWorkFalls
  <2>1. /\ rx_avail \in Nat /\ rx_next \in Nat
        /\ tx_avail \in Nat /\ tx_next \in Nat
    BY <1>1, Counters DEF NetInv
  <2>2. CASE NetDriver \/ Arrive
    BY <2>2 DEF NetDriver, RX!SetUp, RX!Offer, TX!SetUp, TX!Offer, Arrive,
                NetWorkFalls, rxVars, txVars, socket
  <2>3. CASE RxLoop /\ RX!Pop
    BY <2>1, <2>3 DEF RxLoop, RX!Pop, txVars, NetWorkFalls, NetChainsLeft
  <2>4. CASE TxLoop /\ TX!Pop
    BY <2>1, <2>4 DEF TxLoop, TX!Pop, rxVars, NetWorkFalls, NetChainsLeft
  <2>5. CASE \/ RxLoop /\ ~RX!Pop
             \/ TxLoop /\ ~TX!Pop
             \/ Recv \/ RxUse \/ Send \/ TxUse
    <3>1. UNCHANGED <<rx_avail, rx_next, tx_avail, tx_next>>
      BY <2>5 DEF RxLoop, TxLoop, Recv, RxUse, Send, TxUse, RX!AddUsed,
                  TX!AddUsed, rxVars, txVars
    <3>2. \/ net_pc \in {"rx", "tx"} /\ net_pc' = "idle"
          \/ /\ net_pc \in {"recv", "send"}
             /\ net_pc' \in {"idle", "rx_use", "tx_use"}
          \/ net_pc \in {"rx_use", "tx_use"} /\ net_pc' \in {"rx", "tx"}
      BY <2>5 DEF RxLoop, TxLoop, Recv, RxUse, Send, TxUse
    <3>3. /\ NetPlace \in 0 .. 3 /\ NetPlace' \in 0 .. 3
          /\ NetPlace' < NetPlace
      BY <3>2 DEF NetPlace
    <3> QED
      BY <2>1, <3>1, <3>3 DEF NetWorkFalls, NetChainsLeft
  <2> QED
    BY <1>1, <2>2, <2>3, <2>4, <2>5 DEF NetNext, net_process_queue
<1>2. NetInv /\ [NetNext]_netVars => [NetWorkFalls]_netVars
  BY <1>1 DEF NetWorkFalls
<1> QED
  BY <1>2, NetInvariant, PTL DEF NetSpec

-----------------------------------------------------------------------------
(* The two devices of the run, in any one behaviour: a machine has both,   *)
(* and what is proved of each alone is true of each there.                 *)

(* The block device behaves as in VirtioBlock; a handler whose thread has  *)
(* panicked stands still.                                                  *)
THEOREM DevicesAreBlock == DevicesSpec => Spec
<1>1. DevicesInit => Init
  BY DEF DevicesInit
<1>2. [DevicesNext]_<<part, vars, netVars>> => [Next]_vars
  BY DEF DevicesNext, Stopped
<1> QED
  BY <1>1, <1>2, PTL DEF DevicesSpec, Spec

(* The network device behaves as in VirtioNet.                             *)
THEOREM DevicesAreNet == DevicesSpec => NetSpec
<1>1. DevicesInit => NetInit
  BY DEF DevicesInit
<1>2. [DevicesNext]_<<part, vars, netVars>> => [NetNext]_netVars
  BY DEF DevicesNext
<1> QED
  BY <1>1, <1>2, PTL DEF DevicesSpec, NetSpec

(* Both devices keep their types in every behaviour the run explores, for  *)
(* any queues and any layouts of the block requests.                       *)
THEOREM DevicesTypeCorrect == DevicesSpec => []DevicesTypeOK
<1>1. TypeOK /\ NetTypeOK => DevicesTypeOK
  BY DEF DevicesTypeOK
<1> QED
  BY <1>1, DevicesAreBlock, DevicesAreNet, TypeCorrect, NetTypeCorrect, PTL

=============================================================================

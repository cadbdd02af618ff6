--------------------------- MODULE MmioBusProofs ---------------------------
(***************************************************************************)
(* Proofs about the console of VirtioConsole and the bus of MmioBus, for   *)
(* any chains, any number of them and any number of vCPUs: what stdout has *)
(* taken, that the console's handler implements the contract of a          *)
(* virtqueue, and what a vCPU knows when its notification returns.         *)
(***************************************************************************)
EXTENDS MCRunLoop, VmRunProofs

Used == [id : 1 .. MaxChains, len : Nat]

-----------------------------------------------------------------------------
(* The inductive invariant of the console.                                 *)

\* Nothing was taken from a queue that is not set up, and the handler holds
\* a chain only after it has popped one, at one of its descriptors or past
\* the last.
InHand ==
  /\ ~ready => next_avail = 0 /\ used = <<>> /\ handler \in {"idle", "loop"}
  /\ handler \in {"desc", "use"} => next_avail > 0 /\ used_any
  /\ handler = "desc" => di \in 1 .. Len(layout[next_avail]) + 1

\* Descriptor d of chain c has text, and a is the text of a descriptor.
Reads(chains, c, d) == d \in DOMAIN chains[c] /\ ~chains[c][d].write_only

IsText(chains, a) ==
  /\ Reads(chains, a.chain, a.desc)
  /\ a = [chain |-> a.chain, desc |-> a.desc,
          zeros |-> ~chains[a.chain][a.desc].inRam]

Ordered(q) == \A j, k \in DOMAIN q : j < k => Before(q[j], q[k])

\* q is the text of the first n descriptors of chain c.
Gathered(q, chains, c, n) ==
  /\ Ordered(q)
  /\ \A k \in DOMAIN q :
       q[k].chain = c /\ q[k].desc <= n /\ IsText(chains, q[k])
  /\ \A d \in 1 .. n : Reads(chains, c, d) => \E k \in DOMAIN q : q[k].desc = d

\* q is the text of the first n chains, of the ones in bad perhaps not all.
Printed(q, chains, n, bad) ==
  /\ Ordered(q)
  /\ \A k \in DOMAIN q : q[k].chain \in 1 .. n /\ IsText(chains, q[k])
  /\ \A c \in (1 .. n) \ bad : \A d \in DOMAIN chains[c] :
       Reads(chains, c, d) =>
         \E k \in DOMAIN q : q[k].chain = c /\ q[k].desc = d

Taken == IF handler = "desc" THEN next_avail - 1 ELSE next_avail

TextInv ==
  /\ handler = "desc" => Gathered(buf, layout, next_avail, di - 1)
  /\ Printed(output, layout, Taken, refused)

\* The chains handed back are the ones dealt with, and what is not announced
\* is the handler's present work.
UsedInv ==
  /\ {used[k].id : k \in DOMAIN used} = 1 .. ConsoleDealt
  /\ interrupt_evt /\ (handler = "idle" \/ (handler = "loop" /\ ~used_any))
       => announced = Len(used)

ConsoleInv == ConsoleTypeOK /\ InHand /\ TextInv /\ UsedInv

-----------------------------------------------------------------------------
(* Text that grows.                                                        *)

LEMMA Appended ==
  ASSUME NEW S, NEW q \in Seq(S), NEW e \in S
  PROVE  /\ Append(q, e) \in Seq(S)
         /\ Len(q) \in Nat /\ DOMAIN q = 1 .. Len(q)
         /\ Len(Append(q, e)) = Len(q) + 1
         /\ DOMAIN Append(q, e) = (1 .. Len(q)) \cup {Len(q) + 1}
         /\ \A k \in 1 .. Len(q) : Append(q, e)[k] = q[k]
         /\ Append(q, e)[Len(q) + 1] = e
OBVIOUS

LEMMA Joined ==
  ASSUME NEW S, NEW q \in Seq(S), NEW p \in Seq(S)
  PROVE  /\ q \o p \in Seq(S)
         /\ Len(q) \in Nat /\ DOMAIN q = 1 .. Len(q)
         /\ Len(p) \in Nat /\ DOMAIN p = 1 .. Len(p)
         /\ DOMAIN (q \o p) = 1 .. Len(q) + Len(p)
         /\ \A k \in 1 .. Len(q) : (q \o p)[k] = q[k]
         /\ \A k \in 1 .. Len(p) : (q \o p)[Len(q) + k] = p[k]
OBVIOUS

LEMMA AtomFields ==
  ASSUME NEW q \in Seq(Atom)
  PROVE  \A k \in DOMAIN q : q[k].chain \in Nat /\ q[k].desc \in Nat
<1>1. \A a \in Atom : a.chain \in Nat /\ a.desc \in Nat
  BY VirtqueueAssumption DEF Atom, Ids
<1> QED
  BY <1>1

(* One more descriptor of the chain in hand: with text, and without.       *)
LEMMA GatherMore ==
  ASSUME NEW q \in Seq(Atom), NEW chains, NEW c \in Nat, NEW n \in Nat,
         Gathered(q, chains, c, n), NEW e \in Atom, e.chain = c,
         e.desc = n + 1, IsText(chains, e)
  PROVE  Gathered(Append(q, e), chains, c, n + 1)
<1> DEFINE p == Append(q, e)
           m == Len(q)
<1>1. /\ m \in Nat /\ DOMAIN q = 1 .. m
      /\ DOMAIN p = (1 .. m) \cup {m + 1}
      /\ \A k \in 1 .. m : p[k] = q[k]
      /\ p[m + 1] = e
  BY Appended
<1>2. \A k \in 1 .. m : q[k].chain \in Nat /\ q[k].desc \in Nat
  BY <1>1, AtomFields
<1> HIDE DEF p, m
<1>3. Ordered(p)
  <2> SUFFICES ASSUME NEW j \in DOMAIN p, NEW k \in DOMAIN p, j < k
               PROVE  Before(p[j], p[k])
    BY DEF Ordered
  <2>1. j \in 1 .. m
    BY <1>1
  <2>2. CASE k \in 1 .. m
    BY <1>1, <2>1, <2>2 DEF Gathered, Ordered
  <2>3. CASE k = m + 1
    <3>1. p[j] = q[j] /\ p[k] = e
      BY <1>1, <2>1, <2>3
    <3>2. q[j].chain = c /\ q[j].desc <= n /\ q[j].desc \in Nat
      BY <1>1, <1>2, <2>1 DEF Gathered
    <3> QED
      BY <3>1, <3>2 DEF Before
  <2> QED
    BY <1>1, <2>2, <2>3
<1>4. \A k \in DOMAIN p :
        p[k].chain = c /\ p[k].desc <= n + 1 /\ IsText(chains, p[k])
  BY <1>1, <1>2 DEF Gathered
<1>5. \A d \in 1 .. n + 1 : Reads(chains, c, d) =>
        \E k \in DOMAIN p : p[k].desc = d
  <2> SUFFICES ASSUME NEW d \in 1 .. n + 1, Reads(chains, c, d)
               PROVE  \E k \in DOMAIN p : p[k].desc = d
    OBVIOUS
  <2>1. CASE d = n + 1
    BY <1>1, <2>1
  <2>2. CASE d \in 1 .. n
    BY <1>1, <2>2 DEF Gathered
  <2> QED
    BY <2>1, <2>2
<1> QED
  BY <1>3, <1>4, <1>5 DEF Gathered, p

LEMMA GatherNothing ==
  ASSUME NEW q \in Seq(Atom), NEW chains, NEW c \in Nat, NEW n \in Nat,
         Gathered(q, chains, c, n), ~Reads(chains, c, n + 1)
  PROVE  Gathered(q, chains, c, n + 1)
<1>1. \A k \in DOMAIN q : q[k].desc \in Nat
  BY AtomFields
<1>2. \A k \in DOMAIN q : q[k].desc <= n + 1
  BY <1>1 DEF Gathered
<1>3. \A d \in 1 .. n + 1 : Reads(chains, c, d) => d \in 1 .. n
  <2> SUFFICES ASSUME NEW d \in 1 .. n + 1, Reads(chains, c, d)
               PROVE  d # n + 1
    OBVIOUS
  <2> QED
    OBVIOUS
<1> QED
  BY <1>2, <1>3 DEF Gathered

(* The text of a chain, or the beginning of it, after the text of the      *)
(* chains before it.                                                       *)
LEMMA PrintMore ==
  ASSUME NEW q \in Seq(Atom), NEW chains, NEW n \in Nat, NEW bad, NEW more,
         Printed(q, chains, n, bad), NEW p \in Seq(Atom), Ordered(p),
         \A k \in DOMAIN p : p[k].chain = n + 1 /\ IsText(chains, p[k]),
         bad \subseteq more,
         n + 1 \notin more =>
           \A d \in DOMAIN chains[n + 1] : Reads(chains, n + 1, d) =>
             \E k \in DOMAIN p : p[k].desc = d
  PROVE  Printed(q \o p, chains, n + 1, more)
<1> DEFINE r == q \o p
           m == Len(q)
           l == Len(p)
<1>1. /\ m \in Nat /\ DOMAIN q = 1 .. m
      /\ l \in Nat /\ DOMAIN p = 1 .. l
      /\ DOMAIN r = 1 .. m + l
      /\ \A k \in 1 .. m : r[k] = q[k]
      /\ \A k \in 1 .. l : r[m + k] = p[k]
  BY Joined
<1> HIDE DEF r, m, l
<1>2. \A k \in DOMAIN r : k \in 1 .. m \/ \E i \in 1 .. l : k = m + i
  <2> SUFFICES ASSUME NEW k \in DOMAIN r, k \notin 1 .. m
               PROVE  \E i \in 1 .. l : k = m + i
    OBVIOUS
  <2>1. k - m \in 1 .. l /\ k = m + (k - m)
    BY <1>1
  <2> QED
    BY <2>1
<1>3. \A k \in 1 .. m : q[k].chain \in 1 .. n /\ IsText(chains, q[k])
  BY <1>1 DEF Printed
<1>4. \A k \in 1 .. l : p[k].chain = n + 1 /\ IsText(chains, p[k])
  BY <1>1
<1>5. Ordered(r)
  <2> SUFFICES ASSUME NEW j \in DOMAIN r, NEW k \in DOMAIN r, j < k
               PROVE  Before(r[j], r[k])
    BY DEF Ordered
  <2>1. CASE k \in 1 .. m
    <3>1. j \in 1 .. m
      BY <1>1, <2>1
    <3> QED
      BY <1>1, <2>1, <3>1 DEF Printed, Ordered
  <2>2. CASE k \notin 1 .. m /\ j \in 1 .. m
    <3>1. PICK i \in 1 .. l : k = m + i
      BY <1>2, <2>2
    <3>2. r[j] = q[j] /\ r[k] = p[i]
      BY <1>1, <2>2, <3>1
    <3>3. q[j].chain \in 1 .. n /\ p[i].chain = n + 1
      BY <1>3, <1>4, <2>2
    <3> QED
      BY <3>2, <3>3 DEF Before
  <2>3. CASE k \notin 1 .. m /\ j \notin 1 .. m
    <3>1. PICK i \in 1 .. l : k = m + i
      BY <1>2, <2>3
    <3>2. PICK h \in 1 .. l : j = m + h
      BY <1>2, <2>3
    <3>3. h < i /\ r[j] = p[h] /\ r[k] = p[i]
      BY <1>1, <3>1, <3>2
    <3> QED
      BY <1>1, <3>3 DEF Ordered
  <2> QED
    BY <2>1, <2>2, <2>3
<1>6. \A k \in DOMAIN r : r[k].chain \in 1 .. n + 1 /\ IsText(chains, r[k])
  <2> SUFFICES ASSUME NEW k \in DOMAIN r
               PROVE  r[k].chain \in 1 .. n + 1 /\ IsText(chains, r[k])
    OBVIOUS
  <2>1. CASE k \in 1 .. m
    BY <1>1, <1>3, <2>1
  <2>2. CASE k \notin 1 .. m
    <3>1. PICK i \in 1 .. l : k = m + i
      BY <1>2, <2>2
    <3>2. r[k] = p[i]
      BY <1>1, <3>1
    <3>3. n + 1 \in 1 .. n + 1
      OBVIOUS
    <3> QED
      BY <1>4, <3>2, <3>3
  <2> QED
    BY <2>1, <2>2
<1>7. ASSUME NEW c \in (1 .. n + 1) \ more, NEW d \in DOMAIN chains[c],
             Reads(chains, c, d)
      PROVE  \E k \in DOMAIN r : r[k].chain = c /\ r[k].desc = d
  <2>1. CASE c = n + 1
    <3>1. PICK i \in 1 .. l : p[i].desc = d
      BY <1>1, <1>7, <2>1
    <3>2. m + i \in DOMAIN r /\ r[m + i] = p[i]
      BY <1>1
    <3> QED
      BY <1>4, <2>1, <3>1, <3>2
  <2>2. CASE c \in 1 .. n
    <3>0. c \in (1 .. n) \ bad
      BY <1>7, <2>2
    <3>1. PICK k \in 1 .. m : q[k].chain = c /\ q[k].desc = d
      <4>1. \E k \in DOMAIN q : q[k].chain = c /\ q[k].desc = d
        BY <1>7, <3>0, Zenon DEF Printed
      <4> QED
        BY <1>1, <4>1
    <3>2. k \in DOMAIN r /\ r[k] = q[k]
      BY <1>1
    <3> QED
      BY <3>1, <3>2
  <2> QED
    BY <2>1, <2>2
<1> QED
  BY <1>5, <1>6, <1>7 DEF Printed, r

-----------------------------------------------------------------------------
(* The invariant of the console.                                           *)

LEMMA Counters ==
  ASSUME ConsoleTypeOK
  PROVE  /\ ready \in BOOLEAN /\ avail_idx \in Nat /\ next_avail \in Nat
         /\ next_avail <= avail_idx /\ avail_idx <= MaxChains
         /\ MaxChains \in Nat
         /\ used \in Seq(Used) /\ Len(used) \in Nat
         /\ DOMAIN used = 1 .. Len(used)
         /\ announced \in Nat /\ announced <= Len(used)
<1>1. used \in Seq(Used)
  BY DEF ConsoleTypeOK, QueueTypeOK, Used
<1>2. Len(used) \in Nat /\ DOMAIN used = 1 .. Len(used)
  BY <1>1
<1> QED
  BY <1>1, <1>2, VirtqueueAssumption DEF ConsoleTypeOK, QueueTypeOK

(* The chain in hand: a sequence of descriptors, one of the chains.        *)
LEMMA ChainInHand ==
  ASSUME ConsoleInv, handler \in {"desc", "use"}
  PROVE  /\ next_avail \in Ids /\ ready
         /\ layout[next_avail] \in Seq(Descriptor)
         /\ Len(layout[next_avail]) \in Nat
         /\ DOMAIN layout[next_avail] = 1 .. Len(layout[next_avail])
<1>1. next_avail \in Ids /\ ready
  BY Counters DEF ConsoleInv, InHand, Ids
<1>2. layout[next_avail] \in Seq(Descriptor)
  BY <1>1, ConsoleAssumption DEF ConsoleInv, ConsoleTypeOK
<1> QED
  BY <1>1, <1>2

LEMMA InitConsoleInv == ConsoleInit => ConsoleInv
<1> SUFFICES ASSUME ConsoleInit PROVE ConsoleInv
  OBVIOUS
<1>1. ConsoleTypeOK
  <2>1. QueueTypeOK
    <3>1. avail_idx \in 0 .. MaxChains /\ next_avail \in 0 .. avail_idx
      BY VirtqueueAssumption DEF ConsoleInit, QueueInit
    <3>2. used \in Seq([id : 1 .. MaxChains, len : Nat])
      BY DEF ConsoleInit, QueueInit
    <3> QED
      BY <3>1, <3>2 DEF ConsoleInit, QueueInit, QueueTypeOK
  <2>2. announced \in 0 .. Len(used)
    BY DEF ConsoleInit, QueueInit
  <2>3. buf \in Seq(Atom) /\ output \in Seq(Atom)
    BY DEF ConsoleInit
  <2> QED
    BY <2>1, <2>2, <2>3 DEF ConsoleInit, ConsoleTypeOK
<1>2. InHand
  BY DEF ConsoleInit, QueueInit, InHand
<1>3. TextInv
  BY DEF ConsoleInit, QueueInit, TextInv, Taken, Printed, Ordered
<1>4. UsedInv
  BY DEF ConsoleInit, QueueInit, UsedInv, ConsoleDealt
<1> QED
  BY <1>1, <1>2, <1>3, <1>4 DEF ConsoleInv

LEMMA DriverStep == ASSUME ConsoleInv, ConsoleDriver PROVE ConsoleInv'
<1>1. /\ UNCHANGED <<next_avail, used, layout, interrupt_evt, handler,
                     used_any, di, buf, output, refused, announced>>
      /\ ready => ready'
  BY DEF ConsoleDriver, SetUp, Offer
<1>2. ConsoleTypeOK'
  <2>1. ready' \in BOOLEAN
    BY Counters DEF ConsoleDriver, SetUp, Offer, ConsoleInv
  <2>2. avail_idx' \in 0 .. MaxChains /\ next_avail \in 0 .. avail_idx'
    BY Counters DEF ConsoleDriver, SetUp, Offer, ConsoleInv
  <2> QED
    BY <1>1, <2>1, <2>2 DEF ConsoleInv, ConsoleTypeOK, QueueTypeOK
<1>3. InHand'
  BY <1>1 DEF ConsoleInv, InHand
<1>4. TextInv' /\ UsedInv'
  BY <1>1 DEF ConsoleInv, TextInv, Taken, UsedInv, ConsoleDealt
<1> QED
  BY <1>2, <1>3, <1>4 DEF ConsoleInv

LEMMA ProcessStep == ASSUME ConsoleInv, process_tx PROVE ConsoleInv'
<1> USE DEF process_tx, queueVars
<1>1. ConsoleTypeOK'
  BY DEF ConsoleInv, ConsoleTypeOK, QueueTypeOK
<1>2. InHand'
  BY DEF ConsoleInv, InHand
<1>3. TextInv'
  BY DEF ConsoleInv, TextInv, Taken
<1>4. UsedInv'
  BY DEF ConsoleInv, UsedInv, ConsoleDealt
<1> QED
  BY <1>1, <1>2, <1>3, <1>4 DEF ConsoleInv

LEMMA LoopStep == ASSUME ConsoleInv, Loop PROVE ConsoleInv'
<1>1. CASE ~ready \/ next_avail = avail_idx
  <2>1. /\ UNCHANGED <<queueVars, used_any, di, buf, layout, interrupt_evt,
                       output, refused, announced>>
        /\ handler = "loop" /\ handler' \in {"idle", "signal"}
        /\ handler' = "signal" => ready
        /\ ready /\ handler' = "idle" => ~(used_any /\ interrupt_evt)
    BY <1>1, Counters DEF Loop, IterFails, NoChain, Pop, ConsoleInv
  <2>2. ConsoleTypeOK'
    BY <2>1 DEF ConsoleInv, ConsoleTypeOK, QueueTypeOK, queueVars
  <2>3. InHand'
    BY <2>1 DEF ConsoleInv, InHand, queueVars
  <2>4. TextInv'
    BY <2>1 DEF ConsoleInv, TextInv, Taken, queueVars
  <2>5. announced' = announced /\ Len(used') = Len(used)
    BY <2>1 DEF queueVars
  <2>6. ~ready => announced = Len(used)
    BY Counters DEF ConsoleInv, InHand
  <2>7. UsedInv'
    BY <2>1, <2>5, <2>6 DEF ConsoleInv, UsedInv, ConsoleDealt, queueVars
  <2> QED
    BY <2>2, <2>3, <2>4, <2>7 DEF ConsoleInv
<1>2. CASE ready /\ next_avail # avail_idx
  <2>1. /\ UNCHANGED <<ready, avail_idx, used, layout, interrupt_evt, output,
                       refused, announced>>
        /\ handler = "loop" /\ handler' = "desc"
        /\ next_avail < avail_idx /\ next_avail' = next_avail + 1
        /\ used_any' = TRUE /\ di' = 1 /\ buf' = <<>>
    BY <1>2, Counters DEF Loop, IterFails, NoChain, Pop, ConsoleInv
  <2>2. ConsoleTypeOK'
    BY <2>1, Counters DEF ConsoleInv, ConsoleTypeOK, QueueTypeOK
  <2>3. Len(layout[next_avail + 1]) \in Nat
    <3>1. next_avail + 1 \in Ids
      BY <2>1, Counters DEF ConsoleInv, Ids
    <3>2. layout[next_avail + 1] \in Seq(Descriptor)
      BY <3>1, ConsoleAssumption DEF ConsoleInv, ConsoleTypeOK
    <3> QED
      BY <3>2
  <2>4. InHand'
    BY <1>2, <2>1, <2>3, Counters DEF ConsoleInv, InHand
  <2>5. Gathered(<<>>, layout, next_avail + 1, 0)
    BY DEF Gathered, Ordered
  <2>6. TextInv'
    BY <2>1, <2>5, Counters DEF ConsoleInv, TextInv, Taken
  <2>7. ConsoleDealt' = ConsoleDealt
    BY <2>1, Counters DEF ConsoleInv, ConsoleDealt
  <2>8. UsedInv'
    BY <2>1, <2>7 DEF ConsoleInv, UsedInv
  <2> QED
    BY <2>2, <2>4, <2>6, <2>8 DEF ConsoleInv
<1> QED
  BY <1>1, <1>2

LEMMA CollectStep == ASSUME ConsoleInv, Collect PROVE ConsoleInv'
<1> DEFINE c == next_avail
<1>1. /\ handler = "desc" /\ di <= Len(layout[c]) /\ di' = di + 1
      /\ UNCHANGED <<queueVars, layout, interrupt_evt, handler, used_any,
                     output, refused, announced>>
      /\ layout[c][di].write_only => buf' = buf
      /\ ~layout[c][di].write_only => buf' = Append(buf, Text(c, di))
  BY DEF Collect, head_index
<1>2. /\ c \in Ids /\ c \in Nat /\ ready
      /\ layout[c] \in Seq(Descriptor) /\ Len(layout[c]) \in Nat
      /\ DOMAIN layout[c] = 1 .. Len(layout[c])
  BY <1>1, ChainInHand, Counters DEF ConsoleInv
<1>3. di \in 1 .. Len(layout[c]) /\ di - 1 \in Nat /\ (di - 1) + 1 = di
  BY <1>1, <1>2 DEF ConsoleInv, InHand
<1>4. buf \in Seq(Atom) /\ Gathered(buf, layout, c, di - 1)
  BY <1>1 DEF ConsoleInv, ConsoleTypeOK, TextInv
<1>5. buf' \in Seq(Atom) /\ Gathered(buf', layout, c, di)
  <2>1. CASE layout[c][di].write_only
    <3>1. ~Reads(layout, c, (di - 1) + 1)
      BY <1>3, <2>1 DEF Reads
    <3>2. Gathered(buf, layout, c, (di - 1) + 1)
      BY <1>2, <1>3, <1>4, <3>1, GatherNothing
    <3> QED
      BY <1>1, <1>3, <1>4, <2>1, <3>2
  <2>2. CASE ~layout[c][di].write_only
    <3> DEFINE e == Text(c, di)
    <3>1. /\ e = [chain |-> c, desc |-> di, zeros |-> ~layout[c][di].inRam]
          /\ e.chain = c /\ e.desc = di
      BY DEF Text
    <3>2. e \in Atom
      <4>1. di \in Nat
        BY <1>2, <1>3
      <4>2. (~layout[c][di].inRam) \in BOOLEAN
        OBVIOUS
      <4> QED
        BY <1>2, <3>1, <4>1, <4>2 DEF Atom
    <3>3. IsText(layout, e)
      BY <1>2, <1>3, <2>2, <3>1 DEF IsText, Reads
    <3> HIDE DEF e
    <3>4. e.desc = (di - 1) + 1
      BY <1>3, <3>1
    <3>5. Gathered(Append(buf, e), layout, c, (di - 1) + 1)
      BY <1>2, <1>3, <1>4, <3>1, <3>2, <3>3, <3>4, GatherMore
    <3>6. Append(buf, e) \in Seq(Atom)
      BY <1>4, <3>2
    <3> QED
      BY <1>1, <1>3, <2>2, <3>5, <3>6 DEF e
  <2> QED
    BY <2>1, <2>2
<1>6. ConsoleTypeOK'
  BY <1>1, <1>3, <1>5 DEF ConsoleInv, ConsoleTypeOK, QueueTypeOK, queueVars
<1>7. InHand'
  <2>1. di' \in 1 .. Len(layout[c]) + 1
    BY <1>1, <1>2, <1>3
  <2>2. /\ ready' = ready /\ next_avail' = next_avail /\ used' = used
        /\ handler' = handler /\ used_any' = used_any /\ layout' = layout
    BY <1>1 DEF queueVars
  <2> QED
    BY <2>1, <2>2, Zenon DEF ConsoleInv, InHand
<1>8. TextInv'
  <2>1. di' - 1 = di
    BY <1>1, <1>2, <1>3
  <2> QED
    BY <1>1, <1>5, <2>1 DEF ConsoleInv, TextInv, Taken, queueVars
<1>9. UsedInv'
  BY <1>1 DEF ConsoleInv, UsedInv, ConsoleDealt, queueVars
<1> QED
  BY <1>6, <1>7, <1>8, <1>9 DEF ConsoleInv

LEMMA WriteAllStep == ASSUME ConsoleInv, WriteAll PROVE ConsoleInv'
<1> DEFINE c == next_avail
           n == next_avail - 1
<1>1. /\ handler = "desc" /\ di > Len(layout[c]) /\ handler' = "use"
      /\ UNCHANGED <<queueVars, layout, interrupt_evt, used_any, di, buf,
                     announced>>
  BY DEF WriteAll, head_index
<1>2. /\ c \in Ids /\ ready
      /\ layout[c] \in Seq(Descriptor) /\ Len(layout[c]) \in Nat
      /\ DOMAIN layout[c] = 1 .. Len(layout[c])
  BY <1>1, ChainInHand
<1>3. n \in Nat /\ n + 1 = c
  BY <1>1, Counters DEF ConsoleInv, InHand
<1>4. di \in Nat /\ di - 1 = Len(layout[c])
  BY <1>1, <1>2 DEF ConsoleInv, InHand
<1>5. /\ buf \in Seq(Atom) /\ output \in Seq(Atom) /\ refused \in SUBSET Ids
      /\ Gathered(buf, layout, c, Len(layout[c]))
      /\ Printed(output, layout, n, refused)
  BY <1>1, <1>4 DEF ConsoleInv, ConsoleTypeOK, TextInv, Taken
<1> HIDE DEF n, c
<1>6. /\ output' \in Seq(Atom) /\ refused' \in SUBSET Ids
      /\ Printed(output', layout, c, refused')
  <2>1. CASE output' = output \o buf /\ refused' = refused
    <3>1. /\ Ordered(buf)
          /\ \A k \in DOMAIN buf :
               buf[k].chain = n + 1 /\ IsText(layout, buf[k])
          /\ \A d \in DOMAIN layout[n + 1] : Reads(layout, n + 1, d) =>
               \E k \in DOMAIN buf : buf[k].desc = d
      BY <1>2, <1>3, <1>5 DEF Gathered
    <3>2. Printed(output \o buf, layout, n + 1, refused)
      BY <1>3, <1>5, <3>1, PrintMore
    <3>3. output \o buf \in Seq(Atom)
      BY <1>5
    <3> QED
      BY <1>3, <1>5, <2>1, <3>2, <3>3
  <2>2. ASSUME NEW m \in 0 .. Len(buf) - 1,
               output' = output \o SubSeq(buf, 1, m),
               refused' = refused \cup {c}
        PROVE  /\ output' \in Seq(Atom) /\ refused' \in SUBSET Ids
               /\ Printed(output', layout, c, refused')
    <3> DEFINE p == SubSeq(buf, 1, m)
    <3>1. /\ p \in Seq(Atom) /\ DOMAIN p = 1 .. m
          /\ 1 .. m \subseteq DOMAIN buf
          /\ \A k \in 1 .. m : p[k] = buf[k]
      BY <1>5
    <3> HIDE DEF p
    <3>2. /\ Ordered(p)
          /\ \A k \in DOMAIN p : p[k].chain = n + 1 /\ IsText(layout, p[k])
      BY <1>3, <1>5, <3>1 DEF Gathered, Ordered
    <3>3. refused \subseteq refused \cup {c} /\ n + 1 \in refused \cup {c}
      BY <1>3
    <3>4. Printed(output \o p, layout, n + 1, refused \cup {c})
      BY <1>3, <1>5, <3>1, <3>2, <3>3, PrintMore
    <3>5. output \o p \in Seq(Atom)
      BY <1>5, <3>1
    <3> QED
      BY <1>2, <1>3, <1>5, <2>2, <3>4, <3>5 DEF p
  <2> QED
    BY <2>1, <2>2 DEF WriteAll, head_index, c
<1> USE DEF c
<1>7. ConsoleTypeOK'
  BY <1>1, <1>6 DEF ConsoleInv, ConsoleTypeOK, QueueTypeOK, queueVars
<1>8. InHand'
  BY <1>1, <1>2 DEF ConsoleInv, InHand, queueVars
<1>9. TextInv'
  BY <1>1, <1>6 DEF TextInv, Taken, queueVars
<1>10. UsedInv'
  BY <1>1 DEF ConsoleInv, UsedInv, ConsoleDealt, queueVars
<1> QED
  BY <1>7, <1>8, <1>9, <1>10 DEF ConsoleInv

(* The used ring after add_used: the chain in hand is handed back next.    *)
LEMMA UsedGrows ==
  ASSUME ConsoleInv, Use
  PROVE  /\ used' \in Seq(Used) /\ Len(used') = Len(used) + 1
         /\ DOMAIN used' = (1 .. Len(used)) \cup {Len(used) + 1}
         /\ \A k \in 1 .. Len(used) : used'[k] = used[k]
         /\ used'[Len(used) + 1].id = next_avail
<1> DEFINE e == [id |-> next_avail, len |-> Len(buf)]
<1>1. handler = "use" /\ used' = Append(used, e)
  BY DEF Use, AddUsed, head_index
<1>2. Len(buf) \in Nat
  BY DEF ConsoleInv, ConsoleTypeOK
<1>3. e \in Used /\ e.id = next_avail
  BY <1>1, <1>2, ChainInHand DEF Used, Ids
<1>4. used \in Seq(Used)
  BY Counters DEF ConsoleInv
<1> HIDE DEF e
<1> QED
  BY <1>1, <1>3, <1>4, Appended

LEMMA UseStep == ASSUME ConsoleInv, Use PROVE ConsoleInv'
<1>1. /\ handler = "use" /\ handler' = "loop"
      /\ UNCHANGED <<ready, avail_idx, next_avail, layout, interrupt_evt,
                     used_any, di, buf, output, refused, announced>>
  BY DEF Use, AddUsed
<1>2. next_avail \in Nat /\ next_avail > 0 /\ ready /\ used_any
  BY <1>1, Counters DEF ConsoleInv, InHand
<1>3. ConsoleTypeOK'
  <2>1. announced' \in 0 .. Len(used')
    BY <1>1, UsedGrows, Counters DEF ConsoleInv
  <2>2. used' \in Seq([id : 1 .. MaxChains, len : Nat])
    BY UsedGrows DEF Used
  <2> QED
    BY <1>1, <2>1, <2>2 DEF ConsoleInv, ConsoleTypeOK, QueueTypeOK
<1>4. InHand'
  BY <1>1, <1>2 DEF InHand
<1>5. TextInv'
  BY <1>1 DEF ConsoleInv, TextInv, Taken
<1>6. UsedInv'
  <2>1. ConsoleDealt = next_avail - 1 /\ ConsoleDealt' = next_avail
    BY <1>1 DEF ConsoleDealt
  <2>2. {used[k].id : k \in 1 .. Len(used)} = 1 .. next_avail - 1
    BY <2>1, Counters DEF ConsoleInv, UsedInv
  <2>3. {used'[k].id : k \in DOMAIN used'} =
          {used[k].id : k \in 1 .. Len(used)} \cup {next_avail}
    BY UsedGrows
  <2>4. (1 .. next_avail - 1) \cup {next_avail} = 1 .. next_avail
    BY <1>2
  <2> QED
    BY <1>1, <1>2, <2>1, <2>2, <2>3, <2>4 DEF UsedInv
<1> QED
  BY <1>3, <1>4, <1>5, <1>6 DEF ConsoleInv

LEMMA SignalStep == ASSUME ConsoleInv, Signal PROVE ConsoleInv'
<1> USE DEF Signal, queueVars
<1>1. ConsoleTypeOK'
  <2>1. announced' \in 0 .. Len(used')
    BY Counters DEF ConsoleInv
  <2> QED
    BY <2>1 DEF ConsoleInv, ConsoleTypeOK, QueueTypeOK
<1>2. InHand'
  BY DEF ConsoleInv, InHand
<1>3. TextInv'
  BY DEF ConsoleInv, TextInv, Taken
<1>4. UsedInv'
  BY DEF ConsoleInv, UsedInv, ConsoleDealt
<1> QED
  BY <1>1, <1>2, <1>3, <1>4 DEF ConsoleInv

LEMMA NextConsoleInv == ConsoleInv /\ [ConsoleNext]_consoleVars => ConsoleInv'
<1> SUFFICES ASSUME ConsoleInv, [ConsoleNext]_consoleVars PROVE ConsoleInv'
  OBVIOUS
<1>1. CASE UNCHANGED consoleVars
  BY <1>1 DEF consoleVars, queueVars, ConsoleInv, ConsoleTypeOK, QueueTypeOK,
              InHand, TextInv, Taken, UsedInv, ConsoleDealt
<1> QED
  BY <1>1, DriverStep, ProcessStep, LoopStep, CollectStep, WriteAllStep,
     UseStep, SignalStep DEF ConsoleNext, Handler

LEMMA ConsoleInvariant == ConsoleSpec => []ConsoleInv
BY InitConsoleInv, NextConsoleInv, PTL DEF ConsoleSpec

-----------------------------------------------------------------------------
(* The console's theorems.                                                 *)

(* The console's state, its handler's local variables and the rings keep   *)
(* their types, for any chains and any number of them.                     *)
THEOREM ConsoleTypeCorrect == ConsoleSpec => []ConsoleTypeOK
BY ConsoleInvariant, PTL DEF ConsoleInv

LEMMA TextIsOutput == ConsoleInv => OutputIsText
<1> SUFFICES ASSUME ConsoleInv PROVE OutputIsText
  OBVIOUS
<1>1. Printed(output, layout, Taken, refused)
  BY DEF ConsoleInv, TextInv
<1>2. \A j, k \in DOMAIN output : j < k => Before(output[j], output[k])
  BY <1>1 DEF Printed, Ordered
<1>3. \A k \in DOMAIN output :
        /\ output[k].chain \in 1 .. Taken
        /\ output[k].desc \in {d \in DOMAIN layout[output[k].chain] :
                                 ~layout[output[k].chain][d].write_only}
        /\ output[k] = Text(output[k].chain, output[k].desc)
  BY <1>1 DEF Printed, IsText, Reads, Text
<1>4. \A c \in (1 .. Taken) \ refused :
        {d \in DOMAIN layout[c] : ~layout[c][d].write_only} \subseteq
          {output[k].desc : k \in {i \in DOMAIN output : output[i].chain = c}}
  BY <1>1 DEF Printed, Reads
<1> QED
  BY <1>2, <1>3, <1>4 DEF OutputIsText, Taken

(* stdout gets the text of the chains in the order of their publication,   *)
(* each descriptor's once, and all of it unless stdout refused some.       *)
THEOREM OutputInOrder == ConsoleSpec => []OutputIsText
BY ConsoleInvariant, TextIsOutput, PTL

LEMMA InitConsoleContract == ConsoleInit => ConsoleContract!ContractInit
BY DEF ConsoleInit, QueueInit, ConsoleContract!ContractInit, Visible,
       ConsoleDealt, HandedBack, ConsoleActive

LEMMA HandedBackGrows ==
  ASSUME ConsoleInv, Use
  PROVE  HandedBack' = Append(HandedBack, next_avail)
<1>1. next_avail \in Nat
  BY Counters DEF ConsoleInv
<1>2. used \in Seq(Used)
  BY Counters DEF ConsoleInv
<1>3. /\ Len(used) \in Nat /\ DOMAIN used = 1 .. Len(used)
      /\ DOMAIN used' = 1 .. Len(used) + 1
      /\ \A k \in 1 .. Len(used) : used'[k] = used[k]
      /\ used'[Len(used) + 1].id = next_avail
  BY UsedGrows, Counters DEF ConsoleInv
<1>4. HandedBack \in Seq(Nat) /\ Len(HandedBack) = Len(used)
  <2>1. HandedBack = [k \in 1 .. Len(used) |-> used[k].id]
    BY <1>3 DEF HandedBack
  <2>2. \A k \in 1 .. Len(used) : used[k].id \in Nat
    <3>1. \A u \in Used : u.id \in Nat
      BY VirtqueueAssumption DEF Used
    <3> QED
      BY <1>2, <3>1
  <2> QED
    BY <1>3, <2>1, <2>2
<1>5. \A k \in 1 .. Len(used) : used'[k].id = HandedBack[k]
  BY <1>3 DEF HandedBack
<1> QED
  BY <1>1, <1>3, <1>4, <1>5 DEF HandedBack

LEMMA NextConsoleContract ==
  ConsoleInv /\ [ConsoleNext]_consoleVars =>
    [ConsoleContract!ContractNext]_(ConsoleContract!contractVars)
<1> SUFFICES ASSUME ConsoleInv, [ConsoleNext]_consoleVars
      PROVE  [ConsoleContract!ContractNext]_(ConsoleContract!contractVars)
  OBVIOUS
<1> USE DEF ConsoleContract!ContractNext, ConsoleContract!contractVars
<1>1. CASE ConsoleDriver
  <2>1. UNCHANGED <<HandedBack, ConsoleDealt>>
    BY <1>1 DEF ConsoleDriver, SetUp, Offer, HandedBack, ConsoleDealt
  <2>2. ConsoleActive' = ConsoleActive
    BY <1>1 DEF ConsoleDriver, ConsoleActive
  <2>3. Visible' > Visible \/ Visible' = Visible
    BY <1>1, Counters DEF ConsoleDriver, SetUp, Offer, Visible, ConsoleInv
  <2> QED
    BY <2>1, <2>2, <2>3 DEF ConsoleContract!Publish
<1>2. CASE process_tx
  <2>1. UNCHANGED <<Visible, HandedBack, ConsoleDealt>>
    BY <1>2 DEF process_tx, queueVars, Visible, HandedBack, ConsoleDealt
  <2>2. ~ConsoleActive /\ (ConsoleActive' = TRUE)
    BY <1>2 DEF process_tx, ConsoleActive
  <2> QED
    BY <2>1, <2>2 DEF ConsoleContract!Start
<1>3. CASE Loop
  <2>1. CASE ~ready \/ next_avail = avail_idx
    <3>1. /\ UNCHANGED queueVars
          /\ handler = "loop" /\ handler' \in {"idle", "signal"}
      BY <1>3, <2>1, Counters DEF Loop, IterFails, NoChain, Pop, ConsoleInv
    <3>2. UNCHANGED <<Visible, HandedBack>>
      BY <3>1 DEF queueVars, Visible, HandedBack
    <3>3. ConsoleDealt' = ConsoleDealt /\ ConsoleDealt = Visible
      BY <2>1, <3>1 DEF queueVars, ConsoleDealt, Visible, ConsoleInv, InHand
    <3>4. ConsoleActive /\ (ConsoleActive' = FALSE)
      BY <3>1 DEF ConsoleActive
    <3> QED
      BY <3>2, <3>3, <3>4 DEF ConsoleContract!Finish
  <2>2. CASE ready /\ next_avail # avail_idx
    <3>1. /\ handler = "loop" /\ handler' = "desc"
          /\ next_avail' = next_avail + 1
          /\ UNCHANGED <<ready, avail_idx, used>>
      BY <1>3, <2>2, Counters DEF Loop, IterFails, NoChain, Pop, ConsoleInv
    <3>2. UNCHANGED <<Visible, HandedBack>>
      BY <3>1 DEF Visible, HandedBack
    <3>3. ConsoleDealt' = ConsoleDealt
      BY <3>1, Counters DEF ConsoleDealt, ConsoleInv
    <3>4. ConsoleActive' = ConsoleActive
      BY <3>1 DEF ConsoleActive
    <3> QED
      BY <3>2, <3>3, <3>4
  <2> QED
    BY <2>1, <2>2
<1>4. CASE Use
  <2>1. /\ handler = "use" /\ handler' = "loop"
        /\ UNCHANGED <<ready, avail_idx, next_avail>>
    BY <1>4 DEF Use, AddUsed
  <2>2. ready /\ next_avail > 0
    BY <2>1 DEF ConsoleInv, InHand
  <2>3. HandedBack' = Append(HandedBack, next_avail)
    BY <1>4, HandedBackGrows
  <2>4. /\ ConsoleDealt + 1 = next_avail
        /\ ConsoleDealt' = ConsoleDealt + 1 /\ ConsoleDealt < Visible
    BY <2>1, <2>2, Counters DEF ConsoleDealt, Visible, ConsoleInv
  <2>5. UNCHANGED Visible /\ ConsoleActive /\ (ConsoleActive' = ConsoleActive)
    BY <2>1 DEF Visible, ConsoleActive
  <2> QED
    BY <2>3, <2>4, <2>5 DEF ConsoleContract!Serve
<1>5. CASE Collect \/ WriteAll \/ Signal \/ UNCHANGED consoleVars
  <2>1. /\ UNCHANGED queueVars
        /\ \/ handler' = handler
           \/ handler = "desc" /\ handler' = "use"
           \/ handler = "signal" /\ handler' = "idle"
    BY <1>5 DEF Collect, WriteAll, Signal, consoleVars
  <2>2. UNCHANGED <<Visible, HandedBack, ConsoleDealt>>
    BY <2>1 DEF queueVars, Visible, HandedBack, ConsoleDealt
  <2>3. ConsoleActive' = ConsoleActive
    BY <2>1 DEF ConsoleActive
  <2> QED
    BY <2>2, <2>3
<1> QED
  BY <1>1, <1>2, <1>3, <1>4, <1>5 DEF ConsoleNext, Handler

(* process_queue of the console implements the contract of a virtqueue and *)
(* keeps no chain, whatever its descriptors and whatever stdout takes.     *)
THEOREM ConsoleServesQueue == ConsoleSpec => ServesQueue
BY ConsoleInvariant, InitConsoleContract, NextConsoleContract, PTL
   DEF ConsoleSpec, ServesQueue, ConsoleContract!ContractSpec

-----------------------------------------------------------------------------
(* The bus in front of the console.                                        *)

\* A vCPU with a notification at the bus knows no more chains than the device
\* can see, none while the queue is not set up; the console's handler runs
\* only for such a vCPU, and signals only when it has popped all that the
\* vCPU knows.
NotifyInv ==
  \A v \in BusVcpus :
    /\ vpc[v] \in {"lock", "serve", "handler"} /\ NotifiesTx(req[v])
         => seen[v] <= Visible
    /\ vpc[v] = "handler" => NotifiesTx(req[v])
    /\ vpc[v] = "handler" /\ handler = "signal" => seen[v] <= next_avail

BusControl ==
  /\ vpc \in [BusVcpus -> {"guest", "lock", "serve", "handler", "dead"}]
  /\ req \in [BusVcpus -> Access]
  /\ mutex_poisoned \in BOOLEAN
  /\ queue_sel \in 0 .. Queues
  /\ seen \in [BusVcpus -> 0 .. MaxChains]

BusInv == ConsoleInv /\ BusControl /\ NotifyInv

(* Whatever the vCPUs do at the bus, the console sees steps of its own.    *)
LEMMA BusStepIsConsoleStep ==
  BusNext \/ UNCHANGED deviceVars => [ConsoleNext]_consoleVars
BY DEF BusNext, deviceVars, BusDriver, Exit, Lock, Serve, QueueSel,
       ReadRegister, OtherWrite, QueueNotify, Handle, ServeOther, Panic,
       ConsoleNext

(* The bus drives the console only as the console's specification allows:  *)
(* what is proved of ConsoleSpec holds behind the bus, with any number of  *)
(* vCPUs, register accesses and panics of the other device.                *)
THEOREM BusDrivesConsole == BusSafetySpec => ConsoleSpec
<1>1. BusInit => ConsoleInit
  BY DEF BusInit
<1>2. [BusNext]_deviceVars => [ConsoleNext]_consoleVars
  BY BusStepIsConsoleStep
<1> QED
  BY <1>1, <1>2, PTL DEF BusSafetySpec, ConsoleSpec

LEMMA InitBusInv == BusInit => BusInv
<1> SUFFICES ASSUME BusInit PROVE BusInv
  OBVIOUS
<1>1. ConsoleInv
  BY InitConsoleInv DEF BusInit
<1>2. BusControl
  <2>1. seen \in [BusVcpus -> 0 .. MaxChains]
    BY VirtqueueAssumption DEF BusInit
  <2>2. queue_sel \in 0 .. Queues
    BY DEF BusInit, Queues
  <2> QED
    BY <2>1, <2>2 DEF BusInit, BusControl, Access
<1>3. NotifyInv
  BY DEF BusInit, NotifyInv
<1> QED
  BY <1>1, <1>2, <1>3 DEF BusInv

(* The queue's counters only grow, and the handler turns to the signal     *)
(* only when it has popped every chain.                                    *)
LEMMA CountersGrow ==
  ASSUME ConsoleInv, [ConsoleNext]_consoleVars
  PROVE  /\ Visible <= Visible' /\ Visible' <= avail_idx'
         /\ Visible \in Nat /\ Visible' \in Nat
         /\ avail_idx <= avail_idx' /\ next_avail <= next_avail'
         /\ avail_idx' \in Nat /\ next_avail' \in Nat
         /\ handler' = "signal" =>
              handler = "signal" \/ next_avail' = avail_idx'
<1>1. avail_idx \in Nat /\ next_avail \in Nat
  BY Counters DEF ConsoleInv
<1> DEFINE Grows ==
  /\ ready => ready'
  /\ avail_idx <= avail_idx' /\ next_avail <= next_avail'
  /\ avail_idx' \in Nat /\ next_avail' \in Nat
  /\ handler' = "signal" => handler = "signal" \/ next_avail' = avail_idx'
<1>2. ConsoleDriver => Grows
  BY <1>1 DEF ConsoleDriver, SetUp, Offer
<1>3. Loop => Grows
  BY <1>1 DEF Loop, IterFails, NoChain, Pop, queueVars
<1>4. process_tx \/ Collect \/ WriteAll \/ Signal => Grows
  BY <1>1 DEF process_tx, Collect, WriteAll, Signal, queueVars
<1>5. Use => Grows
  BY <1>1 DEF Use, AddUsed
<1>6. UNCHANGED consoleVars => Grows
  BY <1>1 DEF consoleVars, queueVars
<1>7. Grows
  BY <1>2, <1>3, <1>4, <1>5, <1>6 DEF ConsoleNext, Handler
<1> QED
  BY <1>1, <1>7 DEF Visible

(* What one vCPU thread's step does to the vCPUs: the others stay where    *)
(* they are, and the thread itself moves along its path.                   *)
AlongPath(v) ==
  /\ \A w \in BusVcpus \ {v} :
       vpc'[w] = vpc[w] /\ req'[w] = req[w] /\ seen'[w] = seen[w]
  /\ \/ UNCHANGED <<vpc, req, seen>>
     \/ vpc'[v] \in {"guest", "dead"}
     \/ /\ vpc'[v] = "lock"
        /\ NotifiesTx(req'[v]) => seen'[v] = Visible
     \/ /\ vpc[v] = "lock" /\ vpc'[v] = "serve"
        /\ req'[v] = req[v] /\ seen'[v] = seen[v]
     \/ /\ vpc[v] = "serve" /\ vpc'[v] = "handler" /\ handler' = "loop"
        /\ NotifiesTx(req[v])
        /\ req'[v] = req[v] /\ seen'[v] = seen[v]

LEMMA DoneStep ==
  ASSUME BusControl, NEW v \in BusVcpus, Done(v)
  PROVE  /\ vpc' \in [BusVcpus ->
                        {"guest", "lock", "serve", "handler", "dead"}]
         /\ req' \in [BusVcpus -> Access]
         /\ seen' \in [BusVcpus -> 0 .. MaxChains]
         /\ vpc'[v] = "guest"
         /\ AlongPath(v)
<1>1. /\ vpc' \in [BusVcpus -> {"guest", "lock", "serve", "handler", "dead"}]
      /\ vpc'[v] = "guest"
      /\ \A w \in BusVcpus \ {v} : vpc'[w] = vpc[w]
  BY DEF BusControl, Done
<1>2. /\ req' \in [BusVcpus -> Access]
      /\ \A w \in BusVcpus \ {v} : req'[w] = req[w]
  BY DEF BusControl, Done, Access
<1>3. /\ seen' \in [BusVcpus -> 0 .. MaxChains]
      /\ \A w \in BusVcpus \ {v} : seen'[w] = seen[w]
  BY VirtqueueAssumption DEF BusControl, Done
<1> QED
  BY <1>1, <1>2, <1>3 DEF AlongPath

LEMMA ExitStep ==
  ASSUME ConsoleInv, BusControl,
         NEW v \in BusVcpus, NEW r \in Access, Exit(v, r)
  PROVE  BusControl' /\ AlongPath(v)
<1>1. /\ vpc' \in [BusVcpus -> {"guest", "lock", "serve", "handler", "dead"}]
      /\ vpc'[v] = "lock"
      /\ \A w \in BusVcpus \ {v} : vpc'[w] = vpc[w]
  BY DEF BusControl, Exit
<1>2. /\ req' \in [BusVcpus -> Access]
      /\ req'[v] = r
      /\ \A w \in BusVcpus \ {v} : req'[w] = req[w]
  BY DEF BusControl, Exit
<1>3. Visible \in 0 .. MaxChains /\ 0 \in 0 .. MaxChains
  BY Counters DEF ConsoleInv, Visible
<1>4. /\ seen' \in [BusVcpus -> 0 .. MaxChains]
      /\ NotifiesTx(r) => seen'[v] = Visible
      /\ \A w \in BusVcpus \ {v} : seen'[w] = seen[w]
  BY <1>3 DEF BusControl, Exit
<1>5. BusControl'
  BY <1>1, <1>2, <1>4 DEF BusControl, Exit
<1>6. AlongPath(v)
  BY <1>1, <1>2, <1>4 DEF AlongPath, Exit
<1> QED
  BY <1>5, <1>6

LEMMA LockStep ==
  ASSUME BusControl, NEW v \in BusVcpus, Lock(v) \/ Panic(v)
  PROVE  BusControl' /\ AlongPath(v)
<1>1. /\ vpc' \in [BusVcpus -> {"guest", "lock", "serve", "handler", "dead"}]
      /\ vpc'[v] = "dead" \/ (vpc[v] = "lock" /\ vpc'[v] = "serve")
      /\ \A w \in BusVcpus \ {v} : vpc'[w] = vpc[w]
  BY DEF BusControl, Lock, Panic
<1>2. UNCHANGED <<req, seen, queue_sel>> /\ mutex_poisoned' \in BOOLEAN
  BY DEF BusControl, Lock, Panic
<1>3. BusControl'
  BY <1>1, <1>2 DEF BusControl
<1>4. AlongPath(v)
  BY <1>1, <1>2 DEF AlongPath
<1> QED
  BY <1>3, <1>4

LEMMA AccessFields ==
  ASSUME NEW r \in Access
  PROVE  /\ r.dev = "console" /\ r.reg = "QueueSel" => r.val \in 0 .. Queues
         /\ r.dev = "console" /\ r.reg = "QueueNotify" /\ r.val = 1
              => NotifiesTx(r)
<1>1. CASE r \in [dev : {"console"}, reg : {"Read", "GuestFeatures"},
                  val : {0}]
  BY <1>1
<1>2. CASE r \in [dev : {"console"}, reg : {"QueueSel"}, val : {1, Queues}]
  BY <1>2 DEF Queues
<1>3. CASE r \in [dev : {"console"}, reg : {"QueueNotify"}, val : {0, 1}]
  BY <1>3 DEF NotifiesTx
<1>4. CASE r \in [dev : {"block"}, reg : {"QueueNotify"}, val : {0}]
  BY <1>4
<1>5. CASE r = NoAccess
  BY <1>5 DEF NoAccess
<1> QED
  BY <1>1, <1>2, <1>3, <1>4, <1>5 DEF Access

LEMMA ServeStep ==
  ASSUME BusControl, NEW v \in BusVcpus, Serve(v)
  PROVE  BusControl' /\ AlongPath(v)
<1>1. CASE Done(v) /\ queue_sel' \in 0 .. Queues /\ UNCHANGED mutex_poisoned
  BY <1>1, DoneStep DEF BusControl
<1>2. CASE QueueSel(v)
  <2>1. queue_sel' \in 0 .. Queues
    BY <1>2, AccessFields DEF QueueSel, Serving, BusControl
  <2> QED
    BY <1>1, <1>2, <2>1 DEF QueueSel
<1>3. CASE ReadRegister(v) \/ OtherWrite(v) \/ ServeOther(v)
  BY <1>1, <1>3 DEF ReadRegister, OtherWrite, ServeOther, BusControl
<1>4. CASE QueueNotify(v) /\ req[v].val = 1
  <2>1. /\ vpc[v] = "serve" /\ NotifiesTx(req[v])
        /\ vpc' = [vpc EXCEPT ![v] = "handler"] /\ handler' = "loop"
        /\ UNCHANGED <<req, seen, mutex_poisoned, queue_sel>>
    BY <1>4, AccessFields DEF QueueNotify, Serving, process_tx, BusControl
  <2>2. /\ vpc' \in [BusVcpus ->
                       {"guest", "lock", "serve", "handler", "dead"}]
        /\ vpc'[v] = "handler"
        /\ \A w \in BusVcpus \ {v} : vpc'[w] = vpc[w]
    BY <2>1 DEF BusControl
  <2>3. BusControl'
    BY <2>1, <2>2 DEF BusControl
  <2>4. AlongPath(v)
    BY <2>1, <2>2 DEF AlongPath
  <2> QED
    BY <2>3, <2>4
<1>5. CASE QueueNotify(v) /\ req[v].val # 1
  BY <1>1, <1>5 DEF QueueNotify, BusControl
<1>6. CASE Handle(v) /\ handler' = "idle"
  BY <1>1, <1>6 DEF Handle, BusControl
<1>7. CASE Handle(v) /\ handler' # "idle"
  BY <1>7 DEF Handle, BusControl, AlongPath
<1> QED
  BY <1>2, <1>3, <1>4, <1>5, <1>6, <1>7 DEF Serve

LEMMA NotifyKept ==
  ASSUME BusInv, BusControl', [ConsoleNext]_consoleVars,
         NEW v \in BusVcpus, AlongPath(v)
  PROVE  NotifyInv'
<1>1. /\ Visible <= Visible' /\ Visible' <= avail_idx'
      /\ Visible \in Nat /\ Visible' \in Nat
      /\ avail_idx <= avail_idx' /\ next_avail <= next_avail'
      /\ avail_idx \in Nat /\ next_avail \in Nat
      /\ avail_idx' \in Nat /\ next_avail' \in Nat
      /\ handler' = "signal" =>
           handler = "signal" \/ next_avail' = avail_idx'
  BY CountersGrow, Counters DEF BusInv, ConsoleInv
<1>2. \A w \in BusVcpus : seen[w] \in Nat /\ seen'[w] \in Nat
  BY VirtqueueAssumption DEF BusInv, BusControl
<1>3. ASSUME NEW w \in BusVcpus, vpc'[w] = vpc[w], req'[w] = req[w],
             seen'[w] = seen[w]
      PROVE  /\ vpc'[w] \in {"lock", "serve", "handler"}
                  /\ NotifiesTx(req'[w]) => seen'[w] <= Visible'
             /\ vpc'[w] = "handler" => NotifiesTx(req'[w])
             /\ vpc'[w] = "handler" /\ handler' = "signal"
                  => seen'[w] <= next_avail'
  <2>1. /\ vpc[w] \in {"lock", "serve", "handler"} /\ NotifiesTx(req[w])
             => seen[w] <= Visible
        /\ vpc[w] = "handler" => NotifiesTx(req[w])
        /\ vpc[w] = "handler" /\ handler = "signal" => seen[w] <= next_avail
    BY DEF BusInv, NotifyInv
  <2>2. ASSUME vpc'[w] \in {"lock", "serve", "handler"}, NotifiesTx(req'[w])
        PROVE  seen'[w] <= Visible'
    <3>1. seen[w] <= Visible
      BY <1>3, <2>1, <2>2
    <3> QED
      BY <1>1, <1>2, <1>3, <3>1
  <2>3. vpc'[w] = "handler" => NotifiesTx(req'[w])
    BY <1>3, <2>1
  <2>4. ASSUME vpc'[w] = "handler", handler' = "signal"
        PROVE  seen'[w] <= next_avail'
    <3>1. CASE handler = "signal"
      <4>1. seen[w] <= next_avail
        BY <1>3, <2>1, <2>4, <3>1
      <4> QED
        BY <1>1, <1>2, <1>3, <4>1
    <3>2. CASE next_avail' = avail_idx'
      <4>1. seen'[w] <= Visible'
        BY <2>2, <2>3, <2>4
      <4> QED
        BY <1>1, <1>2, <3>2, <4>1
    <3> QED
      BY <1>1, <2>4, <3>1, <3>2
  <2> QED
    BY <2>2, <2>3, <2>4
<1>4. /\ vpc'[v] \in {"lock", "serve", "handler"}
           /\ NotifiesTx(req'[v]) => seen'[v] <= Visible'
      /\ vpc'[v] = "handler" => NotifiesTx(req'[v])
      /\ vpc'[v] = "handler" /\ handler' = "signal"
           => seen'[v] <= next_avail'
  <2>1. CASE UNCHANGED <<vpc, req, seen>>
    BY <1>3, <2>1
  <2>2. CASE vpc'[v] \in {"guest", "dead"}
    BY <2>2
  <2>3. CASE /\ vpc'[v] = "lock"
             /\ NotifiesTx(req'[v]) => seen'[v] = Visible
    BY <1>1, <2>3
  <2>4. CASE /\ vpc[v] = "lock" /\ vpc'[v] = "serve"
             /\ req'[v] = req[v] /\ seen'[v] = seen[v]
    BY <1>1, <1>2, <2>4 DEF BusInv, NotifyInv
  <2>5. CASE /\ vpc[v] = "serve" /\ vpc'[v] = "handler" /\ handler' = "loop"
             /\ NotifiesTx(req[v])
             /\ req'[v] = req[v] /\ seen'[v] = seen[v]
    BY <1>1, <1>2, <2>5 DEF BusInv, NotifyInv
  <2> QED
    BY <2>1, <2>2, <2>3, <2>4, <2>5 DEF AlongPath
<1>5. \A w \in BusVcpus \ {v} :
        vpc'[w] = vpc[w] /\ req'[w] = req[w] /\ seen'[w] = seen[w]
  BY DEF AlongPath
<1> QED
  BY <1>3, <1>4, <1>5 DEF NotifyInv

LEMMA NextBusInv == BusInv /\ [BusNext]_deviceVars => BusInv'
<1> SUFFICES ASSUME BusInv, [BusNext]_deviceVars PROVE BusInv'
  OBVIOUS
<1>1. [ConsoleNext]_consoleVars /\ ConsoleInv'
  BY BusStepIsConsoleStep, NextConsoleInv DEF BusInv
<1>2. CASE UNCHANGED busVars
  <2>1. BusControl'
    BY <1>2 DEF BusInv, BusControl, busVars
  <2>2. /\ Visible <= Visible' /\ Visible' <= avail_idx'
        /\ Visible \in Nat /\ Visible' \in Nat
        /\ avail_idx <= avail_idx' /\ next_avail <= next_avail'
        /\ avail_idx \in Nat /\ next_avail \in Nat
        /\ avail_idx' \in Nat /\ next_avail' \in Nat
        /\ handler' = "signal" =>
             handler = "signal" \/ next_avail' = avail_idx'
    BY <1>1, CountersGrow, Counters DEF BusInv, ConsoleInv
  <2>3. \A w \in BusVcpus : seen[w] \in Nat
    BY VirtqueueAssumption DEF BusInv, BusControl
  <2>4. NotifyInv'
    BY <1>2, <2>2, <2>3 DEF BusInv, NotifyInv, busVars
  <2> QED
    BY <1>1, <2>1, <2>4 DEF BusInv
<1>3. ASSUME NEW v \in BusVcpus,
             (\E r \in Access : Exit(v, r)) \/ Lock(v) \/ Serve(v) \/ Panic(v)
      PROVE  BusInv'
  <2>1. BusControl' /\ AlongPath(v)
    BY <1>3, ExitStep, LockStep, ServeStep DEF BusInv
  <2>2. NotifyInv'
    BY <1>1, <2>1, NotifyKept
  <2> QED
    BY <1>1, <2>1, <2>2 DEF BusInv
<1> QED
  BY <1>2, <1>3 DEF BusNext, BusDriver, deviceVars

LEMMA BusInvariant == BusSafetySpec => []BusInv
BY InitBusInv, NextBusInv, PTL DEF BusSafetySpec

(* The bus, the registers and the console behind them keep their types.    *)
THEOREM BusTypeCorrect == BusSafetySpec => []BusTypeOK
<1>1. BusInv => BusTypeOK
  BY DEF BusInv, ConsoleInv, BusControl, BusTypeOK
<1> QED
  BY <1>1, BusInvariant, PTL

(* Only the handler's last step brings a vCPU back from its notification,  *)
(* and then all that the vCPU knew of is handed back and announced.        *)
LEMMA NotificationEnds ==
  ASSUME BusInv, [BusNext]_deviceVars, NEW v \in BusVcpus,
         NotifiesTx(req[v]), vpc[v] # "guest", vpc'[v] = "guest"
  PROVE  /\ 1 .. seen[v] \subseteq {used'[k].id : k \in DOMAIN used'}
         /\ interrupt_evt => announced' = Len(used')
         /\ ~ready' => next_avail' = 0 /\ used' = <<>>
<1>1. /\ req[v].dev = "console" /\ req[v].reg = "QueueNotify"
      /\ req[v].val = 1
  BY DEF NotifiesTx
<1>2. Handle(v) /\ handler' = "idle"
  <2>1. PICK w \in BusVcpus :
          (\E r \in Access : Exit(w, r)) \/ Lock(w) \/ Serve(w) \/ Panic(w)
    BY DEF BusNext, BusDriver, deviceVars, busVars
  <2>2. w = v
    <3>1. AlongPath(w)
      BY <2>1, ExitStep, LockStep, ServeStep DEF BusInv
    <3> QED
      BY <3>1 DEF AlongPath
  <2>3. Serve(v)
    BY <2>1, <2>2 DEF Exit, Lock, Panic, BusInv, BusControl
  <2>4. CASE QueueSel(v) \/ ReadRegister(v) \/ OtherWrite(v) \/ ServeOther(v)
    BY <1>1, <2>4 DEF QueueSel, ReadRegister, OtherWrite, ServeOther, Serving
  <2>5. CASE QueueNotify(v)
    BY <1>1, <2>5 DEF QueueNotify, BusInv, BusControl
  <2>6. CASE Handle(v)
    BY <2>6 DEF Handle
  <2> QED
    BY <2>3, <2>4, <2>5, <2>6 DEF Serve
<1>3. vpc[v] = "handler" /\ seen[v] <= Visible /\ seen[v] \in Nat
  BY <1>2, VirtqueueAssumption
     DEF Handle, BusInv, NotifyInv, BusControl
<1>4. ConsoleInv' /\ interrupt_evt' = interrupt_evt
  BY <1>2, BusStepIsConsoleStep, NextConsoleInv
     DEF BusInv, Handle, Handler, Loop, Collect, WriteAll, Use, Signal
<1>5. seen[v] <= next_avail' /\ next_avail' \in Nat
  <2>1. CASE Loop
    BY <1>2, <1>3, <2>1, Counters
       DEF Loop, IterFails, NoChain, Pop, queueVars, Visible, BusInv,
           ConsoleInv
  <2>2. CASE Signal
    BY <1>3, <2>2, Counters
       DEF Signal, queueVars, BusInv, ConsoleInv, NotifyInv
  <2> QED
    BY <1>2, <2>1, <2>2 DEF Handle, Handler, Collect, WriteAll, Use
<1>6. {used'[k].id : k \in DOMAIN used'} = 1 .. next_avail'
  BY <1>2, <1>4 DEF ConsoleInv, UsedInv, ConsoleDealt
<1>7. 1 .. seen[v] \subseteq 1 .. next_avail'
  BY <1>3, <1>5
<1>8. interrupt_evt => announced' = Len(used')
  BY <1>2, <1>4 DEF ConsoleInv, UsedInv
<1>9. ~ready' => next_avail' = 0 /\ used' = <<>>
  BY <1>4 DEF ConsoleInv, InHand
<1> QED
  BY <1>6, <1>7, <1>8, <1>9

(* A vCPU comes back from its notification of the transmit queue only when *)
(* every chain the device could see at its exit has been handed back and   *)
(* announced, and with a queue that is not set up no chain has left the    *)
(* ring; with any number of vCPUs at the bus.                              *)
THEOREM NotificationServesAll == BusSafetySpec => NotifyServesAll
<1> DEFINE Comes ==
  \A v \in BusVcpus :
    NotifiesTx(req[v]) /\ vpc[v] # "guest" /\ vpc'[v] = "guest"
      => /\ 1 .. seen[v] \subseteq {used'[k].id : k \in DOMAIN used'}
         /\ interrupt_evt => announced' = Len(used')
         /\ ~ready' => next_avail' = 0 /\ used' = <<>>
<1>1. BusInv /\ [BusNext]_deviceVars => Comes
  BY NotificationEnds
<1> QED
  BY <1>1, BusInvariant, PTL DEF BusSafetySpec, NotifyServesAll

-----------------------------------------------------------------------------
(* The devices mutex, and what MutexReleased rests on.                     *)

Holds(v) == vpc[v] \in {"serve", "handler"}

\* One vCPU at most holds the mutex, and the console's handler is at work
\* exactly while a vCPU is in it.
MutexInv ==
  /\ \A v, w \in BusVcpus : Holds(v) /\ Holds(w) => v = w
  /\ handler # "idle" <=> \E v \in BusVcpus : vpc[v] = "handler"

(* Every step keeps the exclusion.                                         *)
LEMMA MutexStep ==
  ASSUME BusInv, MutexInv, [BusNext]_deviceVars PROVE MutexInv'
<1> vpc \in [BusVcpus -> {"guest", "lock", "serve", "handler", "dead"}]
  BY DEF BusInv, BusControl
<1>1. CASE UNCHANGED <<vpc, handler>>
  BY <1>1 DEF MutexInv, Holds
<1>2. ASSUME NEW v \in BusVcpus, vpc[v] # "handler", UNCHANGED handler,
             NEW l \in {"guest", "lock", "dead"},
             vpc' = [vpc EXCEPT ![v] = l]
      PROVE  MutexInv'
  BY <1>2 DEF MutexInv, Holds
<1>3. ASSUME NEW v \in BusVcpus, Lock(v), ~mutex_poisoned PROVE MutexInv'
  BY <1>3 DEF Lock, Free, consoleVars, MutexInv, Holds
<1>4. ASSUME NEW v \in BusVcpus, vpc[v] = "serve", handler' = "loop",
             vpc' = [vpc EXCEPT ![v] = "handler"]
      PROVE  MutexInv'
  BY <1>4 DEF MutexInv, Holds
<1>5. ASSUME NEW v \in BusVcpus, vpc[v] = "handler", handler' = "idle",
             vpc' = [vpc EXCEPT ![v] = "guest"]
      PROVE  MutexInv'
  BY <1>5 DEF MutexInv, Holds
<1>6. ASSUME NEW v \in BusVcpus, vpc[v] = "handler", handler' # "idle",
             vpc' = vpc
      PROVE  MutexInv'
  BY <1>6 DEF MutexInv, Holds
<1>7. CASE BusDriver
  BY <1>1, <1>7 DEF BusDriver, ConsoleDriver, busVars
<1>8. ASSUME NEW v \in BusVcpus, NEW r \in Access, Exit(v, r) PROVE MutexInv'
  BY <1>2, <1>8 DEF Exit, consoleVars
<1>9. ASSUME NEW v \in BusVcpus, Lock(v) \/ Panic(v) PROVE MutexInv'
  BY <1>2, <1>3, <1>9 DEF Lock, Panic, consoleVars
<1>10. ASSUME NEW v \in BusVcpus, Serve(v) PROVE MutexInv'
  <2>1. CASE QueueSel(v) \/ ReadRegister(v) \/ OtherWrite(v) \/ ServeOther(v)
    BY <1>2, <2>1 DEF QueueSel, ReadRegister, OtherWrite, ServeOther,
                      Serving, Done, consoleVars
  <2>2. CASE QueueNotify(v)
    BY <1>2, <1>4, <2>2
       DEF QueueNotify, Serving, Done, process_tx, consoleVars
  <2>3. CASE Handle(v)
    BY <1>5, <1>6, <2>3 DEF Handle, Done
  <2> QED
    BY <1>10, <2>1, <2>2, <2>3 DEF Serve
<1>11. CASE UNCHANGED deviceVars
  BY <1>1, <1>11 DEF deviceVars, busVars, consoleVars
<1> QED
  BY <1>7, <1>8, <1>9, <1>10, <1>11 DEF BusNext

(* The mutex of the device list keeps the handlers apart: one vCPU at most *)
(* is at a device, and the console's handler, whose loop leaves the queue  *)
(* half served, is never found at work by another vCPU.                    *)
THEOREM BusMutex == BusSafetySpec => []MutexInv
<1>1. BusInit => MutexInv
  BY DEF BusInit, ConsoleInit, MutexInv, Holds
<1> QED
  BY <1>1, MutexStep, BusInvariant, PTL DEF BusSafetySpec

\* Nobody is at the devices once the mutex is poisoned.
PoisonInv == mutex_poisoned => Free

LEMMA PoisonStep ==
  ASSUME BusInv, MutexInv, PoisonInv, [BusNext]_deviceVars
  PROVE  /\ PoisonInv'
         /\ mutex_poisoned =>
              /\ mutex_poisoned'
              /\ UNCHANGED <<next_avail, used, output, handler, announced,
                             queue_sel>>
<1> vpc \in [BusVcpus -> {"guest", "lock", "serve", "handler", "dead"}]
  BY DEF BusInv, BusControl
<1> DEFINE Rest == UNCHANGED <<next_avail, used, output, handler, announced,
                               queue_sel>>
<1> SUFFICES PoisonInv' /\ (mutex_poisoned => mutex_poisoned' /\ Rest)
  OBVIOUS
<1>1. CASE UNCHANGED <<vpc, mutex_poisoned>> /\ Rest
  BY <1>1 DEF PoisonInv, Free
<1>2. CASE BusDriver
  <2>1. UNCHANGED <<vpc, mutex_poisoned>> /\ Rest
    BY <1>2 DEF BusDriver, busVars, ConsoleDriver, SetUp, Offer
  <2> QED
    BY <1>1, <2>1
<1>3. ASSUME NEW v \in BusVcpus, NEW r \in Access, Exit(v, r)
      PROVE  PoisonInv' /\ UNCHANGED mutex_poisoned /\ Rest
  <2>1. PoisonInv'
    BY <1>3 DEF Exit, PoisonInv, Free
  <2> QED
    BY <1>3, <2>1 DEF Exit, consoleVars, queueVars
<1>4. ASSUME NEW v \in BusVcpus, Lock(v)
      PROVE  PoisonInv' /\ UNCHANGED mutex_poisoned /\ Rest
  <2>1. PoisonInv'
    BY <1>4 DEF Lock, PoisonInv, Free
  <2> QED
    BY <1>4, <2>1 DEF Lock, consoleVars, queueVars
<1>5. ASSUME NEW v \in BusVcpus, Serve(v)
      PROVE  ~mutex_poisoned /\ PoisonInv'
  <2>1. Holds(v) /\ UNCHANGED mutex_poisoned
    BY <1>5 DEF Serve, QueueSel, ReadRegister, OtherWrite, QueueNotify,
                Handle, ServeOther, Serving, Holds
  <2> QED
    BY <2>1 DEF PoisonInv, Free, Holds
<1>6. ASSUME NEW v \in BusVcpus, Panic(v)
      PROVE  PoisonInv' /\ ~mutex_poisoned
  <2>1. vpc[v] = "serve" /\ vpc' = [vpc EXCEPT ![v] = "dead"]
    BY <1>6 DEF Panic
  <2>2. \A w \in BusVcpus : Holds(w) => w = v
    BY <2>1 DEF MutexInv, Holds
  <2> QED
    BY <2>1, <2>2 DEF PoisonInv, Free, Holds
<1>7. CASE UNCHANGED deviceVars
  <2>1. UNCHANGED <<vpc, mutex_poisoned>> /\ Rest
    BY <1>7 DEF deviceVars, busVars, consoleVars, queueVars
  <2> QED
    BY <1>1, <2>1
<1> HIDE DEF Rest
<1> QED
  BY <1>2, <1>3, <1>4, <1>5, <1>6, <1>7 DEF BusNext

(* A panic in a handler ends the service of every device for good, with    *)
(* the state it left: no vCPU was in another handler at that time, and     *)
(* none gets to one later.                                                 *)
THEOREM PanicIsTheEnd == BusSafetySpec => PanicEndsService
<1> DEFINE Inv == BusInv /\ MutexInv /\ PoisonInv
           Frozen == mutex_poisoned =>
             /\ mutex_poisoned'
             /\ UNCHANGED <<next_avail, used, output, handler, announced,
                            queue_sel>>
<1>1. BusInit => PoisonInv
  BY DEF BusInit, PoisonInv
<1>2. Inv /\ [BusNext]_deviceVars => PoisonInv' /\ Frozen
  BY PoisonStep
<1> QED
  BY <1>1, <1>2, BusInvariant, BusMutex, PTL
     DEF BusSafetySpec, PanicEndsService

\* The access of a vCPU that holds the mutex is one that a step serves: a
\* notification finds the console's handler idle, as process_tx needs it, and
\* a vCPU in the handler finds it at work.
HolderGoesOn ==
  \A v \in BusVcpus :
    /\ vpc[v] = "serve" /\ req[v].dev = "console" =>
         /\ req[v].reg \in {"QueueSel", "Read", "GuestFeatures", "QueueNotify"}
         /\ handler = "idle"
    /\ vpc[v] = "handler" => handler # "idle"

(* A vCPU that holds the devices mutex is never stuck with it: nobody      *)
(* waits for a lock that a thread keeps while it waits itself.             *)
THEOREM HolderNeverWaits == BusSafetySpec => []HolderGoesOn
<1>1. ASSUME BusInv, MutexInv PROVE HolderGoesOn
  <2>1. ASSUME NEW v \in BusVcpus, vpc[v] = "serve", req[v].dev = "console"
        PROVE  req[v].reg \in {"QueueSel", "Read", "GuestFeatures",
                                "QueueNotify"}
    <3>1. req[v] \in Access
      BY <1>1 DEF BusInv, BusControl
    <3> QED
      BY <2>1, <3>1 DEF Access, NoAccess
  <2> QED
    BY <1>1, <2>1 DEF HolderGoesOn, MutexInv, Holds
<1> QED
  BY <1>1, BusInvariant, BusMutex, PTL

\* How far the handler is from its end: the chains it has yet to pop, then
\* its place, with the descriptors it has yet to look at.
ChainsLeft == avail_idx - next_avail

Place == CASE handler = "desc" -> 5 + Len(layout[next_avail]) - di
           [] handler = "use" -> 3 [] handler = "loop" -> 2
           [] handler = "signal" -> 1 [] OTHER -> 0

\* A step while the handler is at work: the driver's, which it may not
\* notice, or its own.
WorkFalls ==
  handler # "idle" =>
    \/ UNCHANGED <<next_avail, used, handler, di, buf, output, announced>>
    \/ /\ UNCHANGED avail_idx
       /\ \/ ChainsLeft' < ChainsLeft
          \/ ChainsLeft' = ChainsLeft /\ Place' < Place

(* Every step of the console's handler brings it closer to its end, and    *)
(* only a chain that the driver publishes takes it further from it: the    *)
(* loop of process_queue ends unless the driver publishes for ever.        *)
THEOREM HandlerWindsDown == ConsoleSpec => [][WorkFalls]_consoleVars
<1>1. ASSUME ConsoleInv, ConsoleInv', ConsoleNext, handler # "idle"
      PROVE  WorkFalls
  <2>1. avail_idx \in Nat /\ next_avail \in Nat /\ next_avail' \in Nat
    BY <1>1, Counters, CountersGrow DEF ConsoleInv
  <2>2. CASE ConsoleDriver
    BY <2>2 DEF ConsoleDriver, SetUp, Offer, WorkFalls
  <2>3. CASE Loop
    <3>1. CASE Pop
      BY <2>1, <2>3, <3>1 DEF Pop, WorkFalls, ChainsLeft
    <3>2. CASE ~Pop
      <4>1. /\ UNCHANGED <<avail_idx, next_avail>> /\ handler = "loop"
            /\ handler' \in {"signal", "idle"}
        BY <2>3, <3>2 DEF Loop, queueVars
      <4>2. Place = 2 /\ Place' \in {0, 1}
        BY <4>1 DEF Place
      <4> QED
        BY <2>1, <4>1, <4>2 DEF WorkFalls, ChainsLeft
    <3> QED
      BY <3>1, <3>2
  <2>4. CASE Collect \/ WriteAll
    <3>1. /\ UNCHANGED <<avail_idx, next_avail, layout>> /\ handler = "desc"
          /\ \/ handler' = "desc" /\ di' = di + 1
             \/ handler' = "use" /\ di' = di
      BY <2>4 DEF Collect, WriteAll, queueVars
    <3>2. /\ di \in 1 .. Len(layout[next_avail]) + 1
          /\ Len(layout[next_avail]) \in Nat
      BY <1>1, <3>1, ChainInHand DEF ConsoleInv, InHand
    <3>3. Place = 5 + Len(layout[next_avail]) - di
      BY <3>1 DEF Place
    <3>4. \/ Place' = 5 + Len(layout[next_avail]) - (di + 1)
          \/ Place' = 3
      BY <3>1 DEF Place
    <3> QED
      BY <2>1, <3>1, <3>2, <3>3, <3>4 DEF WorkFalls, ChainsLeft
  <2>5. CASE Use \/ Signal
    <3>1. /\ UNCHANGED <<avail_idx, next_avail>>
          /\ \/ handler = "use" /\ handler' = "loop"
             \/ handler = "signal" /\ handler' = "idle"
      BY <2>5 DEF Use, AddUsed, Signal, queueVars
    <3>2. (Place = 3 /\ Place' = 2) \/ (Place = 1 /\ Place' = 0)
      BY <3>1 DEF Place
    <3> QED
      BY <2>1, <3>1, <3>2 DEF WorkFalls, ChainsLeft
  <2> QED
    BY <1>1, <2>2, <2>3, <2>4, <2>5 DEF ConsoleNext, Handler, process_tx
<1>2. ConsoleInv /\ ConsoleInv' /\ [ConsoleNext]_consoleVars
        => [WorkFalls]_consoleVars
  BY <1>1 DEF WorkFalls
<1> QED
  BY <1>2, ConsoleInvariant, PTL DEF ConsoleSpec

-----------------------------------------------------------------------------
(* The specification that TLC explores (MCRunLoop) moves one part at a     *)
(* time.  Seen from each part it is a behaviour of that part.              *)

(* The thread that calls run() and the vCPU threads behave as in VmRun.    *)
THEOREM RunLoopIsRun == RunLoopSpec => Spec
<1>1. RunLoopInit => Init
  BY DEF RunLoopInit
<1>2. [RunLoopNext]_<<part, vars, consoleVars, busVars>> => [Next]_vars
  BY DEF RunLoopNext
<1> QED
  BY <1>1, <1>2, PTL DEF RunLoopSpec, Spec, SafetySpec

(* The console behaves as in VirtioConsole, behind the bus or alone.       *)
THEOREM RunLoopIsConsole == RunLoopSpec => ConsoleSpec
<1>1. RunLoopInit => ConsoleInit
  BY DEF RunLoopInit, BusInit
<1>2. [RunLoopNext]_<<part, vars, consoleVars, busVars>>
        => [ConsoleNext]_consoleVars
  BY BusStepIsConsoleStep DEF RunLoopNext
<1> QED
  BY <1>1, <1>2, PTL DEF RunLoopSpec, ConsoleSpec

(* The vCPUs at the bus behave as in MmioBus, unless the console is driven *)
(* alone.                                                                  *)
THEOREM RunLoopIsBus == RunLoopSpec => part = "console" \/ BusSpec
<1> DEFINE Atbus == part # "console"
<1>1. RunLoopInit => BusInit
  BY DEF RunLoopInit
<1>2. [RunLoopNext]_<<part, vars, consoleVars, busVars>>
        => (Atbus => Atbus')
  BY DEF RunLoopNext
<1>3. Atbus /\ [RunLoopNext]_<<part, vars, consoleVars, busVars>>
        => [BusNext]_deviceVars
  BY DEF RunLoopNext, deviceVars
<1>4. Atbus \/ part = "console"
  OBVIOUS
<1> HIDE DEF Atbus
<1> QED
  BY <1>1, <1>2, <1>3, <1>4, PTL DEF RunLoopSpec, BusSpec, BusSafetySpec

(* run(), the bus, its registers and the console keep their types in every *)
(* behaviour the run explores, for any chains and any number of vCPUs.     *)
THEOREM RunLoopTypeCorrect == RunLoopSpec => []RunLoopTypeOK
<1> DEFINE Keeps == ConsoleInv /\ BusControl
<1>1. RunLoopInit => Keeps
  BY InitBusInv DEF RunLoopInit, BusInv
<1>2. ASSUME Keeps, [RunLoopNext]_<<part, vars, consoleVars, busVars>>
      PROVE  Keeps'
  <2>1. [ConsoleNext]_consoleVars
    BY <1>2, BusStepIsConsoleStep DEF RunLoopNext
  <2>2. ConsoleInv'
    BY <1>2, <2>1, NextConsoleInv
  <2>3. CASE UNCHANGED busVars
    BY <1>2, <2>2, <2>3 DEF BusControl, busVars
  <2>4. ASSUME NEW v \in BusVcpus,
               \/ \E r \in Access : Exit(v, r)
               \/ Lock(v) \/ Serve(v) \/ Panic(v)
        PROVE  Keeps'
    BY <1>2, <2>2, <2>4, ExitStep, LockStep, ServeStep
  <2> QED
    BY <1>2, <2>3, <2>4 DEF RunLoopNext, BusNext, BusDriver
<1>3. Keeps /\ TypeOK => RunLoopTypeOK
  BY DEF ConsoleInv, BusControl, BusTypeOK, RunLoopTypeOK
<1> HIDE DEF Keeps
<1> QED
  BY <1>1, <1>2, <1>3, RunLoopIsRun, TypeCorrect, PTL DEF RunLoopSpec

=============================================================================

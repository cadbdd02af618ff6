------------------------- MODULE VirtioBlockProofs -------------------------
(***************************************************************************)
(* Proofs about VirtioBlock, for any chains, any number of them and any    *)
(* size of the disk: what its sectors hold, what the status of a chain is, *)
(* when the interrupt is raised, and that the handler implements the       *)
(* contract of a virtqueue.                                                *)
(***************************************************************************)
EXTENDS VirtioBlock, TLAPS

Used == [id : 1 .. MaxChains, len : Nat]

LogEntry == [chain : Ids, desc : Nat, at : 0 .. OffsetLimit, data : Nat,
             took : BOOLEAN]

-----------------------------------------------------------------------------
(* The inductive invariant.                                                *)

\* Nothing was taken from a queue that is not set up, and the handler holds
\* a chain only after it has popped one, at one of its descriptors or past
\* the last.
QueueInHand ==
  /\ ~ready => next_avail = 0 /\ used = <<>> /\ pc \in {"idle", "loop"}
  /\ pc \in {"desc", "use"} => next_avail > 0
  /\ pc = "desc" => di \in 1 .. Len(layout[next_avail]) + 1

\* Entry e of the history is a write that reached sector s.
Reaches(e, chains, s) ==
  chains[e.chain][e.desc].type = "OUT" /\ e.took /\ e.at = s

\* The first n entries of history q that are writes to sector s.
Writes(q, chains, s, n) == {j \in 1 .. n : Reaches(q[j], chains, s)}

\* v is what the first n entries of history q leave in sector s.
Leaves(q, chains, s, n, v) ==
  LET writes == Writes(q, chains, s, n) IN
  \/ writes = {} /\ v = InitialData(s)
  \/ \E m \in writes : (\A k \in writes : k <= m) /\ v = q[m].data

\* The disk holds what the history left there.
DiskInv ==
  /\ disk \in [0 .. OffsetLimit -> Nat]
  /\ file_len \in 0 .. MaxOffset /\ cursor \in 0 .. MaxOffset
  /\ \A s \in 0 .. OffsetLimit : s >= file_len => disk[s] = 0
  /\ \A s \in 0 .. OffsetLimit : Leaves(log, layout, s, Len(log), disk[s])

\* Entry n of history q was no request to refuse; it worked where it says, if
\* the seek succeeded, and a read found what the entries before it left there.
EntryFits(q, chains, ro, n) ==
  LET e == q[n]
      request == chains[e.chain][e.desc]
  IN /\ e.desc \in DOMAIN chains[e.chain]
     /\ request.type # "other" /\ (request.type = "OUT" => ro = FALSE)
     /\ request.type \in {"IN", "OUT"} /\ Seekable(request)
          => e.at = sector(request) % OffsetLimit
     /\ request.type = "IN" /\ request.hasData
          => Leaves(q, chains, e.at, n - 1, e.data)

EntriesInv == \A i \in DOMAIN log : EntryFits(log, layout, read_only, i)

\* The descriptors of chain c that history q has attempted.
Did(q, c) == {q[i].desc : i \in {j \in DOMAIN q : q[j].chain = c}}

LogInv ==
  /\ log \in Seq(LogEntry)
  /\ \A i \in DOMAIN log : log[i].chain <= next_avail

\* The answer `answer` tells the truth about chain c: all of it was attempted,
\* or all before the descriptor d that was refused.
Truthful(q, chains, ro, c, answer) ==
  \/ answer = S_OK /\ Did(q, c) = 1 .. Len(chains[c])
  \/ \E d \in DOMAIN chains[c] :
       /\ Did(q, c) = 1 .. d - 1
       /\ \/ answer = S_IOERR /\ ro = TRUE /\ chains[c][d].type = "OUT"
          \/ answer = S_UNSUPP /\ chains[c][d].type = "other"

OutcomeInv ==
  /\ pc = "desc" => status = S_OK /\ Did(log, next_avail) = 1 .. di - 1
  /\ pc = "use" => Truthful(log, layout, read_only, next_avail, status)
  /\ \A k \in DOMAIN used :
       /\ used[k].id <= next_avail
       /\ pc \in {"desc", "use"} => used[k].id < next_avail
       /\ Truthful(log, layout, read_only, used[k].id, used[k].len)

IInv ==
  /\ TypeOK /\ layout \in [Ids -> Layouts] /\ read_only \in BOOLEAN
  /\ QueueInHand
  /\ LogInv /\ DiskInv /\ EntriesInv /\ OutcomeInv
  /\ UnannouncedOnlyOnError

-----------------------------------------------------------------------------
(* One more entry in the history.                                          *)

LEMMA Appended ==
  ASSUME NEW S, NEW q \in Seq(S), NEW e \in S
  PROVE  /\ Append(q, e) \in Seq(S)
         /\ Len(q) \in Nat /\ DOMAIN q = 1 .. Len(q)
         /\ Len(Append(q, e)) = Len(q) + 1
         /\ DOMAIN Append(q, e) = 1 .. Len(q) + 1
         /\ \A k \in 1 .. Len(q) : Append(q, e)[k] = q[k]
         /\ Append(q, e)[Len(q) + 1] = e
OBVIOUS

LEMMA WritesSame ==
  ASSUME NEW S, NEW q \in Seq(S), NEW e \in S, NEW chains, NEW s,
         NEW n \in 0 .. Len(q)
  PROVE  Writes(Append(q, e), chains, s, n) = Writes(q, chains, s, n)
<1>1. \A k \in 1 .. n : Append(q, e)[k] = q[k]
  BY Appended
<1> QED
  BY <1>1 DEF Writes

LEMMA WritesGrow ==
  ASSUME NEW S, NEW q \in Seq(S), NEW e \in S, NEW chains, NEW s
  PROVE  /\ Reaches(e, chains, s) =>
              Writes(Append(q, e), chains, s, Len(q) + 1)
                = Writes(q, chains, s, Len(q)) \cup {Len(q) + 1}
         /\ ~Reaches(e, chains, s) =>
              Writes(Append(q, e), chains, s, Len(q) + 1)
                = Writes(q, chains, s, Len(q))
<1>1. /\ Len(q) \in Nat
      /\ \A k \in 1 .. Len(q) : Append(q, e)[k] = q[k]
      /\ Append(q, e)[Len(q) + 1] = e
  BY Appended
<1>2. 1 .. Len(q) + 1 = (1 .. Len(q)) \cup {Len(q) + 1}
  BY <1>1
<1> QED
  BY <1>1, <1>2 DEF Writes

(* What the first entries leave in a sector does not change with one more. *)
LEMMA LeavesKept ==
  ASSUME NEW S, NEW q \in Seq(S), NEW e \in S, NEW chains, NEW s, NEW v,
         NEW n \in 0 .. Len(q), Leaves(q, chains, s, n, v)
  PROVE  Leaves(Append(q, e), chains, s, n, v)
<1>1. Writes(Append(q, e), chains, s, n) = Writes(q, chains, s, n)
  BY WritesSame
<1>2. \A m \in Writes(q, chains, s, n) : Append(q, e)[m] = q[m]
  BY Appended DEF Writes
<1> QED
  BY <1>1, <1>2 DEF Leaves

(* An entry that is no write to a sector leaves there what it found, and a *)
(* write leaves its data.                                                  *)
LEMMA LeavesSame ==
  ASSUME NEW S, NEW q \in Seq(S), NEW e \in S, NEW chains, NEW s, NEW v,
         Leaves(q, chains, s, Len(q), v), ~Reaches(e, chains, s)
  PROVE  Leaves(Append(q, e), chains, s, Len(q) + 1, v)
<1>1. Writes(Append(q, e), chains, s, Len(q) + 1)
        = Writes(q, chains, s, Len(q))
  BY WritesGrow
<1>2. \A m \in Writes(q, chains, s, Len(q)) : Append(q, e)[m] = q[m]
  BY Appended DEF Writes
<1> QED
  BY <1>1, <1>2 DEF Leaves

LEMMA LeavesData ==
  ASSUME NEW S, NEW q \in Seq(S), NEW e \in S, NEW chains, NEW s,
         Reaches(e, chains, s)
  PROVE  Leaves(Append(q, e), chains, s, Len(q) + 1, e.data)
<1> DEFINE m == Len(q) + 1
           writes == Writes(Append(q, e), chains, s, m)
<1>1. writes = Writes(q, chains, s, Len(q)) \cup {m}
  BY WritesGrow
<1>2. m \in Nat /\ Append(q, e)[m] = e
  BY Appended
<1>3. \A k \in writes : k <= m
  BY <1>2 DEF Writes
<1> QED
  BY <1>1, <1>2, <1>3 DEF Leaves

(* What a history leaves in a sector is the data of the last write to it.  *)
LEMMA LastWrite ==
  ASSUME NEW q, NEW chains, NEW s, NEW n \in Nat, NEW v,
         Leaves(q, chains, s, n, v), NEW writes,
         writes = Writes(q, chains, s, n)
  PROVE  v = IF writes = {} THEN InitialData(s)
             ELSE q[CHOOSE j \in writes : \A k \in writes : k <= j].data
<1>1. CASE writes = {}
  BY <1>1 DEF Leaves
<1>2. CASE writes # {}
  <2>1. PICK m \in writes : (\A k \in writes : k <= m) /\ v = q[m].data
    BY <1>2 DEF Leaves
  <2>2. writes \subseteq Nat
    BY DEF Writes
  <2>3. \A j \in writes : (\A k \in writes : k <= j) => j = m
    BY <2>1, <2>2
  <2>4. (CHOOSE j \in writes : \A k \in writes : k <= j) = m
    BY <2>1, <2>3
  <2>5. v = q[CHOOSE j \in writes : \A k \in writes : k <= j].data
    BY <2>1, <2>4, Zenon
  <2> QED
    BY <1>2, <2>5
<1> QED
  BY <1>1, <1>2

(* An entry that fitted still does when the history has grown.             *)
LEMMA EntryFitsKept ==
  ASSUME NEW S, NEW q \in Seq(S), NEW e \in S, NEW chains, NEW ro,
         NEW i \in 1 .. Len(q), EntryFits(q, chains, ro, i)
  PROVE  EntryFits(Append(q, e), chains, ro, i)
<1>1. Append(q, e)[i] = q[i] /\ i - 1 \in 0 .. Len(q)
  BY Appended
<1>2. \A s, v : Leaves(q, chains, s, i - 1, v)
                => Leaves(Append(q, e), chains, s, i - 1, v)
  BY <1>1, LeavesKept
<1> QED
  BY <1>1, <1>2 DEF EntryFits

LEMMA DidGrows ==
  ASSUME NEW S, NEW q \in Seq(S), NEW e \in S, NEW c
  PROVE  Did(Append(q, e), c) =
           IF e.chain = c THEN Did(q, c) \cup {e.desc} ELSE Did(q, c)
<1> DEFINE p == Append(q, e)
           at(r) == {j \in DOMAIN r : r[j].chain = c}
<1>1. /\ Len(q) \in Nat /\ DOMAIN q = 1 .. Len(q)
      /\ DOMAIN p = (1 .. Len(q)) \cup {Len(q) + 1}
      /\ \A k \in 1 .. Len(q) : p[k] = q[k]
      /\ p[Len(q) + 1] = e
  BY Appended
<1> HIDE DEF p
<1>2. \A k \in at(q) : p[k] = q[k]
  BY <1>1
<1>3. at(p) = IF e.chain = c THEN at(q) \cup {Len(q) + 1} ELSE at(q)
  BY <1>1
<1>4. /\ Did(p, c) = {p[i].desc : i \in at(p)}
      /\ Did(q, c) = {q[i].desc : i \in at(q)}
  BY DEF Did
<1> HIDE DEF at
<1>5. Did(p, c) = IF e.chain = c THEN Did(q, c) \cup {e.desc} ELSE Did(q, c)
  BY <1>1, <1>2, <1>3, <1>4
<1> QED
  BY <1>5 DEF p

LEMMA TruthfulKept ==
  ASSUME NEW S, NEW q \in Seq(S), NEW e \in S, NEW chains, NEW ro, NEW c,
         NEW answer, e.chain # c, Truthful(q, chains, ro, c, answer)
  PROVE  Truthful(Append(q, e), chains, ro, c, answer)
<1>1. Did(Append(q, e), c) = Did(q, c)
  BY DidGrows
<1> QED
  BY <1>1 DEF Truthful

-----------------------------------------------------------------------------
(* The chain and the request in hand.                                      *)

LEMMA Sizes ==
  /\ OffsetLimit \in Nat /\ OffsetLimit > 1
  /\ WordLimit \in Nat /\ DiskSectors \in Nat
  /\ MaxOffset \in Nat /\ MaxOffset <= OffsetLimit
  /\ DiskSectors <= MaxOffset
BY BlockAssumption DEF MaxOffset

LEMMA InHandType ==
  ASSUME IInv, pc \in {"desc", "use"}
  PROVE  /\ ready
         /\ next_avail \in Ids /\ next_avail \in Nat
         /\ layout[next_avail] \in Seq(Descriptor)
         /\ Len(layout[next_avail]) \in Nat
         /\ DOMAIN layout[next_avail] = 1 .. Len(layout[next_avail])
<1>1. ready /\ next_avail \in Ids /\ next_avail \in Nat
  BY VirtqueueAssumption
     DEF IInv, TypeOK, QueueTypeOK, QueueInHand, Ids
<1>2. layout[next_avail] \in Seq(Descriptor)
  BY <1>1, BlockAssumption DEF IInv
<1> QED
  BY <1>1, <1>2

LEMMA UsedType ==
  ASSUME IInv
  PROVE  /\ used \in Seq(Used)
         /\ \A k \in DOMAIN used : used[k].id \in Ids /\ used[k].id \in Nat
<1>1. used \in Seq(Used)
  BY DEF IInv, TypeOK, QueueTypeOK, Used
<1>2. \A k \in DOMAIN used : used[k] \in Used
  BY <1>1
<1>3. \A u \in Used : u.id \in Ids /\ u.id \in Nat
  BY VirtqueueAssumption DEF Used, Ids
<1> QED
  BY <1>1, <1>2, <1>3

LEMMA DescType ==
  ASSUME IInv, AtDescriptor
  PROVE  /\ di \in DOMAIN layout[next_avail] /\ di \in Nat /\ di > 0
         /\ desc = layout[next_avail][di] /\ desc \in Descriptor
         /\ sector(desc) \in Nat
<1>1. pc = "desc" /\ di <= Len(layout[next_avail])
  BY DEF AtDescriptor, head_index
<1>2. di \in 1 .. Len(layout[next_avail]) + 1
  BY <1>1 DEF IInv, QueueInHand
<1>3. di \in 1 .. Len(layout[next_avail]) /\ di \in Nat /\ di > 0
  BY <1>1, <1>2, InHandType
<1>4. desc = layout[next_avail][di] /\ desc \in Descriptor
  BY <1>1, <1>3, InHandType DEF desc, head_index
<1>5. sector(desc) \in Nat
  <2>1. desc.reserved \in Nat
    BY <1>4 DEF Descriptor
  <2>2. WordLimit * desc.reserved \in Nat
    BY <2>1, Sizes
  <2> QED
    BY <2>2 DEF sector
<1> QED
  BY <1>1, <1>3, <1>4, <1>5, InHandType

LEMMA SeekType ==
  ASSUME IInv, AtDescriptor
  PROVE  /\ seek(desc) \in 0 .. MaxOffset
         /\ seek(desc) \in 0 .. OffsetLimit
         /\ Seekable(desc) => seek(desc) = sector(desc) % OffsetLimit
<1>1. sector(desc) % OffsetLimit \in Nat
  BY DescType, Sizes
<1>2. cursor \in 0 .. MaxOffset
  BY DEF IInv, DiskInv
<1> QED
  BY <1>1, <1>2, Sizes DEF seek, Seekable

-----------------------------------------------------------------------------
(* The invariant at the start.                                             *)

LEMMA InitIInv == Init => IInv
<1> SUFFICES ASSUME Init PROVE IInv
  OBVIOUS
<1>1. /\ used \in Seq(Used) /\ Len(used) = 0 /\ DOMAIN used = {}
      /\ log \in Seq(LogEntry) /\ Len(log) = 0 /\ DOMAIN log = {}
  BY DEF Init, QueueInit
<1>2. disk \in [0 .. OffsetLimit -> Nat]
  <2>1. \A s \in 0 .. OffsetLimit : InitialData(s) \in Nat
    BY Sizes DEF InitialData
  <2> QED
    BY <2>1 DEF Init
<1>3. \A s \in 0 .. OffsetLimit : s >= file_len => disk[s] = 0
  BY Sizes DEF Init, InitialData
<1>4. file_len \in 0 .. MaxOffset /\ cursor \in 0 .. MaxOffset
  BY Sizes DEF Init
<1>5. TypeOK
  <2>1. QueueTypeOK
    <3>1. avail_idx \in 0 .. MaxChains /\ next_avail \in 0 .. avail_idx
      BY VirtqueueAssumption DEF Init, QueueInit
    <3> QED
      BY <1>1, <3>1 DEF Init, QueueInit, QueueTypeOK, Used
  <2>2. file_len \in 0 .. OffsetLimit /\ cursor \in 0 .. OffsetLimit
    BY <1>4, Sizes
  <2>3. announced \in 0 .. Len(used)
    BY <1>1 DEF Init
  <2> QED
    BY <1>3, <2>1, <2>2, <2>3 DEF Init, TypeOK
<1>6. DiskInv
  <2>1. \A s \in 0 .. OffsetLimit : Leaves(log, layout, s, Len(log), disk[s])
    BY <1>1 DEF Init, Leaves, Writes
  <2> QED
    BY <1>2, <1>3, <1>4, <2>1 DEF DiskInv
<1>7. LogInv /\ EntriesInv /\ OutcomeInv /\ UnannouncedOnlyOnError
  BY <1>1 DEF Init, LogInv, EntriesInv, OutcomeInv, UnannouncedOnlyOnError
<1>8. QueueInHand /\ layout \in [Ids -> Layouts] /\ read_only \in BOOLEAN
  BY DEF Init, QueueInit, QueueInHand
<1> QED
  BY <1>5, <1>6, <1>7, <1>8 DEF IInv

-----------------------------------------------------------------------------
(* The invariant across a step.                                            *)

ControlTypeOK ==
  /\ pc \in {"idle", "loop", "desc", "use", "signal", "dead"}
  /\ di \in Nat
  /\ status \in {S_OK, S_IOERR, S_UNSUPP}
  /\ failed \in BOOLEAN
  /\ announced \in 0 .. Len(used)

LEMMA TypeParts ==
  ASSUME QueueTypeOK', ControlTypeOK', DiskInv'
  PROVE  TypeOK'
<1>1. file_len' \in 0 .. OffsetLimit /\ cursor' \in 0 .. OffsetLimit
  BY Sizes DEF DiskInv
<1> QED
  BY <1>1 DEF TypeOK, ControlTypeOK, DiskInv

(* A step that leaves the disk alone keeps what is known about it.         *)
LEMMA DiskKept ==
  ASSUME IInv, UNCHANGED <<fixed, diskVars>>
  PROVE  /\ layout' \in [Ids -> Layouts] /\ read_only' \in BOOLEAN
         /\ DiskInv' /\ EntriesInv'
BY DEF IInv, DiskInv, EntriesInv, fixed, diskVars

(* A step that leaves the chain in hand and the used ring alone keeps what *)
(* is known about the chains.                                              *)
LEMMA ChainsKept ==
  ASSUME IInv, UNCHANGED <<fixed, diskVars, next_avail, used, status, di>>,
         pc' = pc \/ pc' \notin {"desc", "use"}
  PROVE  LogInv' /\ OutcomeInv'
<1>1. LogInv'
  BY DEF IInv, LogInv, diskVars
<1>2. OutcomeInv'
  BY DEF IInv, OutcomeInv, diskVars, fixed
<1> QED
  BY <1>1, <1>2

LEMMA DriverStep == ASSUME IInv, Driver PROVE IInv'
<1>1. /\ UNCHANGED <<next_avail, used, fixed, diskVars, pc, di, status>>
      /\ UNCHANGED <<failed, announced>>
  BY DEF Driver, SetUp, Offer
<1>2. ready' \in BOOLEAN /\ (ready => ready')
  BY DEF Driver, SetUp, Offer, IInv, TypeOK, QueueTypeOK
<1>3. QueueTypeOK'
  <2>1. avail_idx' \in 0 .. MaxChains /\ next_avail' \in 0 .. avail_idx'
    BY VirtqueueAssumption DEF Driver, SetUp, Offer, IInv, TypeOK, QueueTypeOK
  <2> QED
    BY <1>1, <1>2, <2>1 DEF IInv, TypeOK, QueueTypeOK
<1>4. ControlTypeOK'
  BY <1>1 DEF IInv, TypeOK, ControlTypeOK
<1>5. QueueInHand'
  BY <1>1, <1>2 DEF IInv, QueueInHand, fixed
<1>6. UnannouncedOnlyOnError'
  BY <1>1 DEF IInv, UnannouncedOnlyOnError, fixed
<1> QED
  BY <1>1, <1>3, <1>4, <1>5, <1>6, DiskKept, ChainsKept, TypeParts DEF IInv

(* The steps that change only where the handler is.                        *)
LEMMA ControlStep ==
  ASSUME IInv, UNCHANGED <<queueVars, fixed, diskVars, di, status>>,
         pc' \in {"idle", "loop", "signal", "dead"},
         ~ready => pc' \in {"idle", "loop"},
         ControlTypeOK', UnannouncedOnlyOnError'
  PROVE  IInv'
<1>1. QueueTypeOK'
  BY DEF IInv, TypeOK, QueueTypeOK, queueVars
<1>2. QueueInHand'
  BY DEF IInv, QueueInHand, queueVars
<1>3. LogInv' /\ OutcomeInv'
  BY ChainsKept DEF queueVars
<1> QED
  BY <1>1, <1>2, <1>3, DiskKept, TypeParts DEF IInv

LEMMA ProcessQueueStep == ASSUME IInv, process_queue PROVE IInv'
<1>1. ControlTypeOK' /\ UnannouncedOnlyOnError'
  BY DEF process_queue, IInv, TypeOK, ControlTypeOK, UnannouncedOnlyOnError,
         queueVars
<1> QED
  BY <1>1, ControlStep DEF process_queue

LEMMA SignalStep == ASSUME IInv, Signal PROVE IInv'
<1>1. ControlTypeOK' /\ UnannouncedOnlyOnError'
  BY DEF Signal, IInv, TypeOK, QueueTypeOK, ControlTypeOK,
         UnannouncedOnlyOnError, queueVars
<1> QED
  BY <1>1, ControlStep DEF Signal

LEMMA BadAddressStep == ASSUME IInv, BadAddress PROVE IInv'
<1>1. ControlTypeOK' /\ UnannouncedOnlyOnError'
  BY DEF BadAddress, IInv, TypeOK, ControlTypeOK, UnannouncedOnlyOnError,
         queueVars
<1> QED
  BY <1>1, ControlStep DEF BadAddress

LEMMA PanicStep == ASSUME IInv, Panic PROVE IInv'
<1>1. ControlTypeOK' /\ UnannouncedOnlyOnError'
  BY DEF Panic, IInv, TypeOK, ControlTypeOK, UnannouncedOnlyOnError,
         queueVars
<1>2. ready
  BY InHandType DEF Panic, AtDescriptor
<1> QED
  BY <1>1, <1>2, ControlStep DEF Panic

LEMMA LoopStep == ASSUME IInv, Loop PROVE IInv'
<1>1. CASE ~Pop
  <2>1. UNCHANGED <<queueVars, fixed, diskVars, di, status, announced>>
    BY <1>1 DEF Loop
  <2>2. /\ pc' \in {"idle", "signal"} /\ failed' \in BOOLEAN
        /\ ~ready => pc' = "idle"
        /\ pc' = "idle" /\ interrupt_evt => (failed' = TRUE)
    BY <1>1 DEF Loop, IterFails, NoChain
  <2>3. ControlTypeOK' /\ UnannouncedOnlyOnError'
    BY <2>1, <2>2 DEF IInv, TypeOK, ControlTypeOK, UnannouncedOnlyOnError,
                      queueVars, fixed
  <2> QED
    BY <2>1, <2>2, <2>3, ControlStep
<1>2. CASE Pop
  <2> DEFINE c == next_avail + 1
  <2>1. /\ ready /\ next_avail' = c
        /\ UNCHANGED <<ready, avail_idx, used, fixed, diskVars, announced>>
        /\ UNCHANGED failed
    BY <1>2 DEF Pop, Loop, IterFails, NoChain, IInv, TypeOK, QueueTypeOK
  <2>2. pc' = "desc" /\ di' = 1 /\ status' = S_OK
    BY <1>2 DEF Pop, Loop, IterFails, NoChain, IInv, TypeOK, QueueTypeOK
  <2>3. next_avail \in Nat /\ c \in Ids /\ c \in 0 .. avail_idx /\ c > 0
    BY <1>2, VirtqueueAssumption
       DEF Pop, IInv, TypeOK, QueueTypeOK, Ids
  <2>4. QueueTypeOK'
    BY <2>1, <2>3 DEF IInv, TypeOK, QueueTypeOK
  <2>5. ControlTypeOK'
    BY <2>1, <2>2 DEF IInv, TypeOK, ControlTypeOK
  <2>6. Len(layout[c]) \in Nat
    BY <2>3, BlockAssumption DEF IInv
  <2>7. QueueInHand'
    <3>1. 1 \in 1 .. Len(layout[c]) + 1
      BY <2>6
    <3> QED
      BY <2>1, <2>2, <2>3, <3>1 DEF QueueInHand, fixed
  <2>8. log \in Seq(LogEntry) /\ \A i \in DOMAIN log :
          log[i].chain \in Nat /\ log[i].chain <= next_avail
    <3>1. \A i \in DOMAIN log : log[i] \in LogEntry
      BY DEF IInv, LogInv
    <3>2. \A e \in LogEntry : e.chain \in Nat
      BY DEF LogEntry, Ids
    <3> QED
      BY <3>1, <3>2 DEF IInv, LogInv
  <2>9. LogInv'
    BY <2>1, <2>3, <2>8 DEF LogInv, diskVars
  <2>10. Did(log, c) = {}
    BY <2>3, <2>8 DEF Did
  <2>11. \A k \in DOMAIN used : used[k].id \in Nat
    BY UsedType
  <2>12. \A k \in DOMAIN used : used[k].id <= c /\ used[k].id < c
    BY <2>3, <2>11 DEF IInv, OutcomeInv
  <2>13. OutcomeInv'
    <3>1. 1 .. 1 - 1 = {}
      OBVIOUS
    <3> QED
      BY <2>1, <2>2, <2>10, <2>12, <3>1 DEF IInv, OutcomeInv, fixed, diskVars
  <2>14. UnannouncedOnlyOnError'
    BY <2>2 DEF UnannouncedOnlyOnError
  <2> QED
    BY <2>1, <2>4, <2>5, <2>7, <2>9, <2>13, <2>14, DiskKept, TypeParts
       DEF IInv
<1> QED
  BY <1>1, <1>2

(* The end of a chain, and a refused request: the status says which.       *)
LEMMA AnswerStep ==
  ASSUME IInv, pc = "desc", pc' = "use",
         UNCHANGED <<queueVars, fixed, di, diskVars, failed, announced>>,
         status' \in {S_OK, S_IOERR, S_UNSUPP},
         Truthful(log, layout, read_only, next_avail, status')
  PROVE  IInv'
<1>1. QueueTypeOK' /\ ControlTypeOK'
  BY DEF IInv, TypeOK, QueueTypeOK, ControlTypeOK, queueVars
<1>2. QueueInHand'
  BY DEF IInv, QueueInHand, queueVars
<1>3. LogInv' /\ UnannouncedOnlyOnError'
  BY DEF IInv, LogInv, UnannouncedOnlyOnError, queueVars, diskVars
<1>4. OutcomeInv'
  BY DEF IInv, OutcomeInv, queueVars, diskVars, fixed
<1> QED
  BY <1>1, <1>2, <1>3, <1>4, DiskKept, TypeParts DEF IInv

LEMMA ChainEndStep == ASSUME IInv, ChainEnd PROVE IInv'
<1>1. pc = "desc" /\ di > Len(layout[next_avail])
  BY DEF ChainEnd, head_index
<1>2. di = Len(layout[next_avail]) + 1 /\ di - 1 = Len(layout[next_avail])
  BY <1>1, InHandType DEF IInv, QueueInHand
<1>3. status = S_OK /\ Did(log, next_avail) = 1 .. di - 1
  BY <1>1 DEF IInv, OutcomeInv
<1>4. Truthful(log, layout, read_only, next_avail, status')
  BY <1>2, <1>3 DEF ChainEnd, Truthful
<1> QED
  BY <1>1, <1>3, <1>4, AnswerStep DEF ChainEnd

LEMMA RefuseStep == ASSUME IInv, Refuse PROVE IInv'
<1>1. AtDescriptor /\ pc = "desc"
  BY DEF Refuse, AtDescriptor
<1>2. di \in DOMAIN layout[next_avail] /\ desc = layout[next_avail][di]
  BY <1>1, DescType
<1>3. Did(log, next_avail) = 1 .. di - 1
  BY <1>1 DEF IInv, OutcomeInv
<1>4. \/ status' = S_IOERR /\ read_only = TRUE /\ desc.type = "OUT"
      \/ status' = S_UNSUPP /\ desc.type = "other"
  BY DEF Refuse
<1>5. Truthful(log, layout, read_only, next_avail, status')
  BY <1>2, <1>3, <1>4 DEF Truthful
<1> QED
  BY <1>1, <1>4, <1>5, AnswerStep DEF Refuse

LEMMA UseStep == ASSUME IInv, Use PROVE IInv'
<1> DEFINE u == [id |-> next_avail, len |-> status]
<1>1. /\ pc = "use" /\ pc' = "loop" /\ used' = Append(used, u)
      /\ UNCHANGED <<ready, avail_idx, next_avail, fixed, di, status>>
      /\ UNCHANGED <<diskVars, failed, announced>>
  BY DEF Use, AddUsed, head_index
<1>2. ready /\ next_avail \in Ids /\ next_avail \in Nat
  BY <1>1, InHandType
<1>3. u \in Used /\ u.id = next_avail /\ u.len = status
  BY <1>2 DEF IInv, TypeOK, Used, Ids, S_OK, S_IOERR, S_UNSUPP
<1> HIDE DEF u
<1>4. /\ used' \in Seq(Used)
      /\ Len(used) \in Nat /\ Len(used') = Len(used) + 1
      /\ DOMAIN used = 1 .. Len(used)
      /\ DOMAIN used' = (1 .. Len(used)) \cup {Len(used) + 1}
      /\ \A k \in 1 .. Len(used) : used'[k] = used[k]
      /\ used'[Len(used) + 1] = u
  BY <1>1, <1>3, UsedType, Appended
<1>5. QueueTypeOK'
  BY <1>1, <1>4 DEF IInv, TypeOK, QueueTypeOK, Used
<1>6. ControlTypeOK'
  <2>1. announced \in 0 .. Len(used) + 1
    BY <1>4 DEF IInv, TypeOK
  <2> QED
    BY <1>1, <1>4, <2>1 DEF IInv, TypeOK, ControlTypeOK
<1>7. QueueInHand' /\ LogInv' /\ UnannouncedOnlyOnError'
  BY <1>1, <1>2 DEF IInv, QueueInHand, LogInv, UnannouncedOnlyOnError,
                    diskVars
<1>8. OutcomeInv'
  <2>1. \A k \in 1 .. Len(used) :
          /\ used'[k].id <= next_avail
          /\ Truthful(log, layout, read_only, used'[k].id, used'[k].len)
    BY <1>4 DEF IInv, OutcomeInv
  <2>2. /\ used'[Len(used) + 1].id <= next_avail
        /\ Truthful(log, layout, read_only, used'[Len(used) + 1].id,
                    used'[Len(used) + 1].len)
    BY <1>1, <1>2, <1>3, <1>4 DEF IInv, OutcomeInv
  <2> QED
    BY <1>1, <1>4, <2>1, <2>2 DEF OutcomeInv, fixed, diskVars
<1> QED
  BY <1>1, <1>5, <1>6, <1>7, <1>8, DiskKept, TypeParts DEF IInv

(* A request that was attempted, whatever it was.                          *)
LEMMA AttemptStep ==
  ASSUME IInv, AtDescriptor, NEW e \in LogEntry,
         e.chain = next_avail, e.desc = di, log' = Append(log, e),
         UNCHANGED <<queueVars, fixed, pc, status, failed, announced>>,
         di' = di + 1, DiskInv',
         EntryFits(Append(log, e), layout, read_only, Len(log) + 1)
  PROVE  IInv'
<1>1. pc = "desc" /\ next_avail \in Nat
  BY InHandType DEF AtDescriptor
<1>2. di \in 1 .. Len(layout[next_avail]) /\ di \in Nat
  BY <1>1, InHandType, DescType
<1>3. /\ log \in Seq(LogEntry) /\ log' \in Seq(LogEntry)
      /\ Len(log) \in Nat /\ DOMAIN log = 1 .. Len(log)
      /\ DOMAIN log' = (1 .. Len(log)) \cup {Len(log) + 1}
      /\ \A k \in 1 .. Len(log) : log'[k] = log[k]
      /\ log'[Len(log) + 1] = e
  <2>1. log \in Seq(LogEntry)
    BY DEF IInv, LogInv
  <2> QED
    BY <2>1, Appended
<1>4. QueueTypeOK' /\ ControlTypeOK'
  BY <1>2 DEF IInv, TypeOK, QueueTypeOK, ControlTypeOK, queueVars
<1>5. QueueInHand'
  <2>1. di + 1 \in 1 .. Len(layout[next_avail]) + 1
    BY <1>1, <1>2, InHandType
  <2> QED
    BY <1>1, <2>1 DEF IInv, QueueInHand, queueVars, fixed
<1>6. UnannouncedOnlyOnError'
  BY <1>1 DEF UnannouncedOnlyOnError
<1>7. LogInv'
  BY <1>1, <1>3 DEF IInv, LogInv, queueVars
<1>8. EntriesInv'
  <2>1. \A i \in 1 .. Len(log) : EntryFits(log', layout, read_only, i)
    BY <1>3, EntryFitsKept DEF IInv, EntriesInv
  <2> QED
    BY <1>3, <2>1 DEF EntriesInv, fixed
<1>9. OutcomeInv'
  <2>1. Did(log, next_avail) = 1 .. di - 1 /\ status = S_OK
    BY <1>1 DEF IInv, OutcomeInv
  <2>2. Did(log', next_avail) = (1 .. di - 1) \cup {di}
    <3>1. Did(Append(log, e), next_avail) = Did(log, next_avail) \cup {e.desc}
      BY <1>3, DidGrows
    <3> QED
      BY <2>1, <3>1
  <2>3. Did(log', next_avail) = 1 .. (di + 1) - 1
    BY <1>2, <2>2
  <2>4. \A k \in DOMAIN used :
          /\ used[k].id <= next_avail /\ used[k].id < next_avail
          /\ Truthful(log, layout, read_only, used[k].id, used[k].len)
    BY <1>1 DEF IInv, OutcomeInv
  <2>5. ASSUME NEW k \in DOMAIN used PROVE e.chain # used[k].id
    <3>1. used[k].id \in Nat
      BY UsedType
    <3>2. used[k].id < next_avail
      BY <2>4
    <3> QED
      BY <1>1, <3>1, <3>2
  <2>6. \A k \in DOMAIN used :
          Truthful(log', layout, read_only, used[k].id, used[k].len)
    BY <1>3, <2>4, <2>5, TruthfulKept
  <2> QED
    BY <1>1, <2>1, <2>3, <2>4, <2>6 DEF OutcomeInv, queueVars, fixed
<1>10. layout' \in [Ids -> Layouts] /\ read_only' \in BOOLEAN
  BY DEF IInv, fixed
<1> QED
  BY <1>4, <1>5, <1>6, <1>7, <1>8, <1>9, <1>10, TypeParts DEF IInv

(* A request that writes nothing.                                          *)
LEMMA NotWritten ==
  ASSUME IInv, NEW e \in LogEntry, log' = Append(log, e),
         \A s \in 0 .. OffsetLimit : ~Reaches(e, layout, s),
         UNCHANGED <<disk, file_len, fixed>>, cursor' \in 0 .. MaxOffset
  PROVE  DiskInv'
<1>1. log \in Seq(LogEntry) /\ Len(log') = Len(log) + 1
  BY Appended DEF IInv, LogInv
<1>2. \A s \in 0 .. OffsetLimit : Leaves(log, layout, s, Len(log), disk[s])
  BY DEF IInv, DiskInv
<1>3. \A s \in 0 .. OffsetLimit :
        Leaves(log', layout, s, Len(log'), disk[s])
  BY <1>1, <1>2, LeavesSame
<1> QED
  BY <1>3 DEF IInv, DiskInv, fixed

LEMMA DoInStep == ASSUME IInv, Attempt, DoIn PROVE IInv'
<1> DEFINE at == seek(desc)
           hit == desc.hasData /\ at < file_len
           data == IF hit THEN disk[at] ELSE 0
           e == Entry(at, data, hit)
<1>1. /\ AtDescriptor /\ pc = "desc" /\ desc.type = "IN" /\ di' = di + 1
      /\ cursor' = (IF hit THEN at + 1 ELSE at) /\ log' = Append(log, e)
      /\ UNCHANGED <<disk, file_len>>
      /\ UNCHANGED <<queueVars, fixed, pc, status, failed, announced>>
  BY DEF Attempt, DoIn, AtDescriptor
<1>2. /\ next_avail \in Ids /\ di \in Nat /\ desc = layout[next_avail][di]
      /\ di \in DOMAIN layout[next_avail]
  BY <1>1, InHandType, DescType
<1>3. /\ at \in 0 .. MaxOffset /\ at \in 0 .. OffsetLimit
      /\ Seekable(desc) => at = sector(desc) % OffsetLimit
  BY <1>1, SeekType
<1>4. /\ disk \in [0 .. OffsetLimit -> Nat] /\ file_len \in 0 .. MaxOffset
      /\ \A s \in 0 .. OffsetLimit : s >= file_len => disk[s] = 0
      /\ \A s \in 0 .. OffsetLimit : Leaves(log, layout, s, Len(log), disk[s])
  BY DEF IInv, DiskInv
<1>5. data \in Nat
  BY <1>3, <1>4
<1>6. hit \in BOOLEAN
  OBVIOUS
<1>7. /\ e \in LogEntry /\ e.chain = next_avail /\ e.desc = di
      /\ e.at = at /\ e.data = data
  <2> HIDE DEF at, hit, data
  <2> QED
    BY <1>2, <1>3, <1>5, <1>6 DEF Entry, LogEntry, head_index
<1>8. cursor' \in 0 .. MaxOffset
  BY <1>1, <1>3, <1>4, Sizes
<1>9. desc.hasData => data = disk[at]
  BY <1>3, <1>4, Sizes
<1> HIDE DEF at, hit, data, e
<1>10. \A s \in 0 .. OffsetLimit : ~Reaches(e, layout, s)
  BY <1>1, <1>2, <1>7 DEF Reaches
<1>11. DiskInv'
  BY <1>1, <1>7, <1>8, <1>10, NotWritten
<1>12. EntryFits(Append(log, e), layout, read_only, Len(log) + 1)
  <2>1. log \in Seq(LogEntry)
    BY DEF IInv, LogInv
  <2>2. Append(log, e)[Len(log) + 1] = e /\ Len(log) \in Nat
    BY <1>7, <2>1, Appended
  <2>3. Leaves(Append(log, e), layout, at, Len(log), disk[at])
    BY <1>3, <1>4, <1>7, <2>1, <2>2, LeavesKept
  <2>4. (Len(log) + 1) - 1 = Len(log)
    BY <2>2
  <2> QED
    BY <1>1, <1>2, <1>3, <1>7, <1>9, <2>2, <2>3, <2>4 DEF EntryFits
<1> QED
  BY <1>1, <1>7, <1>11, <1>12, AttemptStep

(* A request that is no read fits whatever the disk holds, if it worked    *)
(* where it says.                                                          *)
LEMMA NoRead ==
  ASSUME IInv, AtDescriptor, NEW e \in LogEntry, e.chain = next_avail,
         e.desc = di, desc.type \in {"OUT", "FLUSH"},
         desc.type = "OUT" => e.at = seek(desc) /\ read_only = FALSE
  PROVE  EntryFits(Append(log, e), layout, read_only, Len(log) + 1)
<1>1. Append(log, e)[Len(log) + 1] = e
  BY Appended DEF IInv, LogInv
<1>2. layout[e.chain][e.desc] = desc /\ e.desc \in DOMAIN layout[e.chain]
  BY DescType
<1>3. Seekable(desc) => seek(desc) = sector(desc) % OffsetLimit
  BY SeekType
<1> QED
  BY <1>1, <1>2, <1>3 DEF EntryFits

LEMMA DoFlushStep == ASSUME IInv, Attempt, DoFlush PROVE IInv'
<1> DEFINE e == Entry(0, 0, FALSE)
<1>1. /\ AtDescriptor /\ pc = "desc" /\ desc.type = "FLUSH" /\ di' = di + 1
      /\ log' = Append(log, e) /\ UNCHANGED <<disk, file_len, cursor>>
      /\ UNCHANGED <<queueVars, fixed, pc, status, failed, announced>>
  BY DEF Attempt, DoFlush, AtDescriptor
<1>2. next_avail \in Ids /\ di \in Nat /\ desc = layout[next_avail][di]
  BY <1>1, InHandType, DescType
<1>3. e \in LogEntry /\ e.chain = next_avail /\ e.desc = di
  BY <1>2, Sizes DEF Entry, LogEntry, head_index
<1> HIDE DEF e
<1>4. \A s \in 0 .. OffsetLimit : ~Reaches(e, layout, s)
  BY <1>1, <1>2, <1>3 DEF Reaches
<1>5. DiskInv'
  <2>1. cursor' \in 0 .. MaxOffset
    BY <1>1 DEF IInv, DiskInv
  <2> QED
    BY <1>1, <1>3, <1>4, <2>1, NotWritten
<1>6. EntryFits(Append(log, e), layout, read_only, Len(log) + 1)
  BY <1>1, <1>3, NoRead
<1> QED
  BY <1>1, <1>3, <1>5, <1>6, AttemptStep

LEMMA DoOutStep == ASSUME IInv, Attempt, DoOut PROVE IInv'
<1> DEFINE at == seek(desc)
           data == WriteData(next_avail, di)
<1>1. /\ AtDescriptor /\ pc = "desc" /\ desc.type = "OUT" /\ di' = di + 1
      /\ UNCHANGED <<queueVars, fixed, pc, status, failed, announced>>
  BY DEF Attempt, DoOut, AtDescriptor
<1>0. read_only = FALSE
  BY DEF DoOut, IInv
<1>2. /\ next_avail \in Ids /\ next_avail \in Nat /\ di \in Nat
      /\ desc = layout[next_avail][di]
  BY <1>1, InHandType, DescType
<1>3. at \in 0 .. MaxOffset /\ at \in 0 .. OffsetLimit
  BY <1>1, SeekType
<1>4. data \in Nat
  BY <1>2 DEF WriteData
<1>5. \A took \in BOOLEAN : LET e == Entry(at, data, took) IN
        /\ e \in LogEntry /\ e.chain = next_avail /\ e.desc = di
        /\ e.at = at /\ e.data = data /\ e.took = took
  <2> HIDE DEF at, data
  <2> QED
    BY <1>2, <1>3, <1>4 DEF Entry, LogEntry, head_index
<1>6. \/ /\ at < MaxOffset
         /\ disk' = [disk EXCEPT ![at] = data]
         /\ file_len' = (IF at < file_len THEN file_len ELSE at + 1)
         /\ cursor' = at + 1
         /\ log' = Append(log, Entry(at, data, TRUE))
      \/ /\ cursor' = at /\ log' = Append(log, Entry(at, data, FALSE))
         /\ UNCHANGED <<disk, file_len>>
  BY DEF DoOut, head_index
<1> HIDE DEF at, data
<1>7. PICK e \in LogEntry :
        /\ e.chain = next_avail /\ e.desc = di /\ e.at = at /\ e.data = data
        /\ log' = Append(log, e)
        /\ \/ /\ e.took = TRUE /\ at < MaxOffset
              /\ disk' = [disk EXCEPT ![at] = data]
              /\ file_len' = (IF at < file_len THEN file_len ELSE at + 1)
              /\ cursor' = at + 1
           \/ e.took = FALSE /\ cursor' = at /\ UNCHANGED <<disk, file_len>>
  BY <1>5, <1>6
<1>8. layout[e.chain][e.desc].type = "OUT"
  BY <1>1, <1>2, <1>7
<1>9. DiskInv'
  <2>1. CASE e.took = FALSE
    <3>1. \A s \in 0 .. OffsetLimit : ~Reaches(e, layout, s)
      BY <2>1 DEF Reaches
    <3> QED
      BY <1>1, <1>3, <1>7, <2>1, <3>1, NotWritten
  <2>2. CASE e.took = TRUE
    <3>1. /\ disk \in [0 .. OffsetLimit -> Nat] /\ file_len \in 0 .. MaxOffset
          /\ \A s \in 0 .. OffsetLimit : s >= file_len => disk[s] = 0
          /\ \A s \in 0 .. OffsetLimit :
               Leaves(log, layout, s, Len(log), disk[s])
      BY DEF IInv, DiskInv
    <3>2. /\ at < MaxOffset /\ disk' = [disk EXCEPT ![at] = data]
          /\ file_len' = (IF at < file_len THEN file_len ELSE at + 1)
          /\ cursor' = at + 1
      BY <1>7, <2>2
    <3>3. disk' \in [0 .. OffsetLimit -> Nat]
      BY <1>3, <1>4, <3>1, <3>2
    <3>4. /\ file_len' \in 0 .. MaxOffset /\ cursor' \in 0 .. MaxOffset
          /\ file_len' > at /\ file_len' >= file_len
      BY <1>3, <3>1, <3>2, Sizes
    <3>5. \A s \in 0 .. OffsetLimit : s >= file_len' => disk'[s] = 0
      BY <1>3, <3>1, <3>2, <3>4, Sizes
    <3>6. log \in Seq(LogEntry) /\ Len(log') = Len(log) + 1
      BY <1>7, Appended DEF IInv, LogInv
    <3>7. \A s \in 0 .. OffsetLimit :
            Leaves(log', layout, s, Len(log'), disk'[s])
      <4> SUFFICES ASSUME NEW s \in 0 .. OffsetLimit
                   PROVE  Leaves(Append(log, e), layout, s, Len(log) + 1,
                                 disk'[s])
        BY <1>7, <3>6
      <4>1. CASE s = at
        <5>1. Reaches(e, layout, s) /\ disk'[s] = e.data
          BY <1>7, <1>8, <2>2, <3>1, <3>2, <4>1 DEF Reaches
        <5> QED
          BY <3>6, <5>1, LeavesData
      <4>2. CASE s # at
        <5>1. ~Reaches(e, layout, s) /\ disk'[s] = disk[s]
          BY <1>7, <3>1, <3>2, <4>2 DEF Reaches
        <5> QED
          BY <3>1, <3>6, <5>1, LeavesSame
      <4> QED
        BY <4>1, <4>2
    <3> QED
      BY <1>1, <3>3, <3>4, <3>5, <3>7 DEF DiskInv, fixed
  <2> QED
    BY <1>7, <2>1, <2>2
<1>10. EntryFits(Append(log, e), layout, read_only, Len(log) + 1)
  BY <1>0, <1>1, <1>7, NoRead DEF at
<1> QED
  BY <1>1, <1>7, <1>9, <1>10, AttemptStep

LEMMA NextIInv == IInv /\ [Next]_vars => IInv'
<1> SUFFICES ASSUME IInv, [Next]_vars PROVE IInv'
  OBVIOUS
<1>1. CASE Attempt
  BY <1>1, DoInStep, DoOutStep, DoFlushStep DEF Attempt
<1>2. CASE UNCHANGED vars
  <2>1. QueueTypeOK' /\ ControlTypeOK'
    BY <1>2 DEF IInv, TypeOK, QueueTypeOK, ControlTypeOK, vars, queueVars
  <2>2. QueueInHand' /\ UnannouncedOnlyOnError'
    BY <1>2 DEF IInv, QueueInHand, UnannouncedOnlyOnError, vars, queueVars,
                fixed
  <2>3. UNCHANGED <<fixed, diskVars, next_avail, used, status, di, pc>>
    BY <1>2 DEF vars, queueVars
  <2> QED
    BY <2>1, <2>2, <2>3, DiskKept, ChainsKept, TypeParts DEF IInv
<1> QED
  BY <1>1, <1>2, DriverStep, ProcessQueueStep, LoopStep, BadAddressStep,
     PanicStep, RefuseStep, ChainEndStep, UseStep, SignalStep
     DEF Next, Handler

LEMMA Invariant == Spec => []IInv
BY InitIInv, NextIInv, PTL DEF Spec

-----------------------------------------------------------------------------
(* Theorems.                                                               *)

(* The state of process_queue, its disk image and its queue keeps its type.*)
THEOREM TypeCorrect == Spec => []TypeOK
<1>1. IInv => TypeOK
  BY DEF IInv
<1> QED
  BY <1>1, Invariant, PTL

LEMMA NamedType ==
  ASSUME IInv, NEW i \in DOMAIN log PROVE sector(Request(log[i])) \in Nat
<1>1. log[i] \in LogEntry
  BY DEF IInv, LogInv
<1>2. log[i].chain \in Ids
  BY <1>1 DEF LogEntry
<1>3. layout[log[i].chain] \in Seq(Descriptor)
  BY <1>2, BlockAssumption DEF IInv
<1>4. Request(log[i]) \in Descriptor
  <2>1. EntryFits(log, layout, read_only, i)
    BY DEF IInv, EntriesInv
  <2>2. log[i].desc \in DOMAIN layout[log[i].chain]
    BY <2>1 DEF EntryFits
  <2> QED
    BY <1>3, <2>2 DEF Request
<1>5. \A r \in Descriptor : sector(r) \in Nat
  BY Sizes DEF Descriptor, sector
<1> QED
  BY <1>4, <1>5

(* As long as every write that took had an offset a file position can be,  *)
(* the writes that reached a sector are the ones that name it.             *)
LEMMA NamedIsReached ==
  ASSUME IInv, NEW s, NEW n \in 0 .. Len(log),
         \A i \in DOMAIN log : IsWrite(log[i]) => Addressable(Request(log[i]))
  PROVE  {j \in 1 .. n : IsWrite(log[j]) /\ sector(Request(log[j])) = s}
           = Writes(log, layout, s, n)
<1>1. DOMAIN log = 1 .. Len(log) /\ Len(log) \in Nat
  <2>1. log \in Seq(LogEntry)
    BY DEF IInv, LogInv
  <2> QED
    BY <2>1
<1>2. ASSUME NEW j \in 1 .. n, IsWrite(log[j])
      PROVE  log[j].at = sector(Request(log[j]))
  <2> DEFINE r == Request(log[j])
  <2>1. j \in DOMAIN log /\ r.type = "OUT" /\ Addressable(r)
    BY <1>1, <1>2 DEF IsWrite
  <2>2. sector(r) \in Nat /\ sector(r) < MaxOffset
    BY <2>1, NamedType DEF Addressable
  <2>3. sector(r) % OffsetLimit = sector(r) /\ Seekable(r)
    BY <2>2, Sizes DEF Seekable
  <2>4. Seekable(r) => log[j].at = sector(r) % OffsetLimit
    BY <2>1 DEF IInv, EntriesInv, EntryFits, Request
  <2> QED
    BY <2>3, <2>4
<1>3. \A j \in 1 .. n : Reaches(log[j], layout, s)
        <=> IsWrite(log[j]) /\ sector(Request(log[j])) = s
  BY <1>2 DEF Reaches, IsWrite, Request
<1> QED
  BY <1>3 DEF Writes

(* So what they leave in a sector is what it should hold.                  *)
LEMMA LeavesHeld ==
  ASSUME IInv, NEW s, NEW n \in 0 .. Len(log), NEW v,
         \A i \in DOMAIN log : IsWrite(log[i]) => Addressable(Request(log[i])),
         Leaves(log, layout, s, n, v)
  PROVE  v = Held(s, n)
<1> DEFINE writes == {j \in 1 .. n : /\ IsWrite(log[j])
                                     /\ sector(Request(log[j])) = s}
<1>1. writes = Writes(log, layout, s, n)
  BY NamedIsReached
<1>2. n \in Nat
  <2>1. log \in Seq(LogEntry)
    BY DEF IInv, LogInv
  <2> QED
    BY <2>1
<1>3. Held(s, n) =
        IF writes = {} THEN InitialData(s)
        ELSE log[CHOOSE j \in writes : \A k \in writes : k <= j].data
  BY DEF Held
<1> HIDE DEF writes
<1> QED
  BY <1>1, <1>2, <1>3, LastWrite

(* By the code's own sector number the image is a disk, whatever position  *)
(* the requests that failed have left the file at, as long as no write had *)
(* an offset past every file position.                                     *)
THEOREM ImageIsDisk == Spec => []DiskFollowsRequests
<1>1. IInv => DiskFollowsRequests
  <2> SUFFICES ASSUME IInv,
                      \A i \in DOMAIN log :
                        IsWrite(log[i]) => Addressable(Request(log[i]))
               PROVE  /\ \A s \in 0 .. OffsetLimit :
                            disk[s] = Held(s, Len(log))
                      /\ \A i \in DOMAIN log :
                           LET r == Request(log[i]) IN
                           r.type = "IN" /\ r.hasData /\ Addressable(r)
                             => log[i].data = Held(sector(r), i - 1)
    BY DEF DiskFollowsRequests
  <2>1. DOMAIN log = 1 .. Len(log) /\ Len(log) \in Nat
    BY DEF IInv, LogInv
  <2>2. \A s \in 0 .. OffsetLimit : disk[s] = Held(s, Len(log))
    <3>1. Len(log) \in 0 .. Len(log)
      BY <2>1
    <3>2. \A s \in 0 .. OffsetLimit :
            Leaves(log, layout, s, Len(log), disk[s])
      BY DEF IInv, DiskInv
    <3> QED
      BY <3>1, <3>2, LeavesHeld
  <2>3. ASSUME NEW i \in DOMAIN log, Request(log[i]).type = "IN",
               Request(log[i]).hasData, Addressable(Request(log[i]))
        PROVE  log[i].data = Held(sector(Request(log[i])), i - 1)
    <3> DEFINE r == Request(log[i])
    <3>1. sector(r) \in Nat /\ sector(r) < MaxOffset
      BY <2>3, NamedType DEF Addressable
    <3>2. sector(r) % OffsetLimit = sector(r) /\ Seekable(r)
      BY <3>1, Sizes DEF Seekable
    <3>3. /\ Seekable(r) => log[i].at = sector(r) % OffsetLimit
          /\ Leaves(log, layout, log[i].at, i - 1, log[i].data)
      BY <2>3 DEF IInv, EntriesInv, EntryFits, Request
    <3>4. Leaves(log, layout, sector(r), i - 1, log[i].data)
      BY <3>2, <3>3
    <3>5. i - 1 \in 0 .. Len(log)
      BY <2>1
    <3> QED
      BY <3>4, <3>5, LeavesHeld
  <2> QED
    BY <2>2, <2>3
<1> QED
  BY <1>1, Invariant, PTL

(* The status a chain is handed back with names its first refused request: *)
(* those before it were attempted, it and those after it were not, and the *)
(* status is S_OK exactly when the chain has no such request.              *)
THEOREM StatusNamesRefusal == Spec => []StatusTellsRefusal
<1>1. IInv => StatusTellsRefusal
  <2> SUFFICES ASSUME IInv, NEW k \in DOMAIN used
               PROVE  LET c == used[k].id
                          tried == {log[i].desc :
                                      i \in {j \in DOMAIN log :
                                               log[j].chain = c}}
                          refused == {d \in DOMAIN layout[c] :
                                        Refused(layout[c][d])}
                      IN \/ /\ used[k].len = S_OK /\ refused = {}
                            /\ tried = DOMAIN layout[c]
                         \/ \E d \in refused :
                              /\ \A b \in refused : d <= b
                              /\ tried = 1 .. d - 1
                              /\ used[k].len =
                                   IF layout[c][d].type = "OUT" THEN S_IOERR
                                                                ELSE S_UNSUPP
    BY DEF StatusTellsRefusal
  <2> DEFINE c == used[k].id
             tried == {log[i].desc : i \in {j \in DOMAIN log :
                                              log[j].chain = c}}
             refused == {d \in DOMAIN layout[c] : Refused(layout[c][d])}
  <2>1. tried = Did(log, c)
    BY DEF Did
  <2>2. Truthful(log, layout, read_only, c, used[k].len)
    BY DEF IInv, OutcomeInv
  <2>3. Len(layout[c]) \in Nat /\ DOMAIN layout[c] = 1 .. Len(layout[c])
    <3>1. layout[c] \in Seq(Descriptor)
      BY UsedType, BlockAssumption DEF IInv
    <3> QED
      BY <3>1
  <2>4. \A b \in tried : ~Refused(layout[c][b])
    BY DEF IInv, EntriesInv, EntryFits, Refused
  <2> HIDE DEF c, tried
  <2>5. CASE used[k].len = S_OK /\ tried = 1 .. Len(layout[c])
    BY <2>3, <2>4, <2>5 DEF c, tried
  <2>6. ASSUME NEW d \in DOMAIN layout[c], tried = 1 .. d - 1,
               \/ /\ used[k].len = S_IOERR /\ read_only = TRUE
                  /\ layout[c][d].type = "OUT"
               \/ used[k].len = S_UNSUPP /\ layout[c][d].type = "other"
        PROVE  \E x \in refused :
                 /\ \A b \in refused : x <= b
                 /\ tried = 1 .. x - 1
                 /\ used[k].len = IF layout[c][x].type = "OUT" THEN S_IOERR
                                                              ELSE S_UNSUPP
    <3>1. d \in refused
      BY <2>6 DEF Refused
    <3>2. d \in Nat /\ \A b \in refused : b \in Nat /\ b > 0
      BY <2>3, <2>6
    <3>3. \A b \in refused : b \notin 1 .. d - 1
      BY <2>4, <2>6
    <3>4. \A b \in refused : d <= b
      BY <3>2, <3>3
    <3>5. used[k].len = IF layout[c][d].type = "OUT" THEN S_IOERR
                                                     ELSE S_UNSUPP
      BY <2>6
    <3> HIDE DEF refused
    <3> QED
      BY <2>6, <3>1, <3>4, <3>5
  <2> QED
    BY <2>1, <2>2, <2>5, <2>6 DEF Truthful, c, tried
<1> QED
  BY <1>1, Invariant, PTL

(* Once the handler has returned without an error, the driver has been     *)
(* told of every chain that was handed back.                               *)
THEOREM AnnouncedUnlessFailed == Spec => []UnannouncedOnlyOnError
<1>1. IInv => UnannouncedOnlyOnError
  BY DEF IInv
<1> QED
  BY <1>1, Invariant, PTL

-----------------------------------------------------------------------------
(* Refinement.                                                             *)

LEMMA InitContract == Init => Contract!ContractInit
BY DEF Init, QueueInit, Contract!ContractInit, Visible, Dealt, HandedBack,
       Active

(* The heads in the used ring, after add_used.                             *)
LEMMA HandedBackGrows ==
  ASSUME IInv, Use
  PROVE  HandedBack' = Append(HandedBack, next_avail)
<1> DEFINE u == [id |-> next_avail, len |-> status]
<1>1. pc = "use" /\ used' = Append(used, u)
  BY DEF Use, AddUsed, head_index
<1>2. next_avail \in Ids /\ next_avail \in Nat
  BY <1>1, InHandType
<1>3. u \in Used /\ u.id = next_avail
  BY <1>2 DEF IInv, TypeOK, Used, Ids, S_OK, S_IOERR, S_UNSUPP
<1> HIDE DEF u
<1>4. /\ Len(used) \in Nat /\ DOMAIN used = 1 .. Len(used)
      /\ DOMAIN used' = 1 .. Len(used) + 1
      /\ \A k \in 1 .. Len(used) : used'[k] = used[k]
      /\ used'[Len(used) + 1] = u
  BY <1>1, <1>3, UsedType, Appended
<1>5. HandedBack \in Seq(Nat) /\ Len(HandedBack) = Len(used)
  <2>1. HandedBack = [k \in 1 .. Len(used) |-> used[k].id]
    BY <1>4 DEF HandedBack
  <2>2. \A k \in 1 .. Len(used) : used[k].id \in Nat
    BY <1>4, UsedType
  <2> QED
    BY <1>4, <2>1, <2>2
<1>6. \A k \in 1 .. Len(used) : used'[k].id = HandedBack[k]
  BY <1>4 DEF HandedBack
<1>7. used'[Len(used) + 1].id = next_avail
  BY <1>3, <1>4
<1> QED
  BY <1>2, <1>4, <1>5, <1>6, <1>7 DEF HandedBack

LEMMA NextContract ==
  IInv /\ [Next]_vars => [Contract!ContractNext]_(Contract!contractVars)
<1> SUFFICES ASSUME IInv, [Next]_vars
             PROVE  [Contract!ContractNext]_(Contract!contractVars)
  OBVIOUS
<1> USE DEF Contract!ContractNext, Contract!contractVars
<1>0. Unreadable' = Unreadable
  <2>1. UNCHANGED <<layout, overflow_checks>>
    BY DEF Next, Driver, process_queue, Handler, Loop, BadAddress, Panic,
           Attempt, Refuse, ChainEnd, Use, Signal, vars, fixed
  <2> QED
    BY <2>1 DEF Unreadable
<1>1. CASE Driver
  <2>1. HandedBack' = HandedBack /\ Dealt' = Dealt
    BY <1>1 DEF Driver, SetUp, Offer, HandedBack, Dealt
  <2>2. (Active' = Active)
    BY <1>1 DEF Driver, Active
  <2>3. Visible' > Visible \/ Visible' = Visible
    BY <1>1, VirtqueueAssumption
       DEF Driver, SetUp, Offer, Visible, IInv, TypeOK, QueueTypeOK
  <2> QED
    BY <1>0, <2>1, <2>2, <2>3 DEF Contract!Publish
<1>2. CASE process_queue
  <2>1. UNCHANGED <<Visible, Dealt, HandedBack>>
    BY <1>2 DEF process_queue, queueVars, Visible, Dealt, HandedBack
  <2>2. ~Active /\ (Active' = TRUE)
    BY <1>2 DEF process_queue, Active
  <2> QED
    BY <1>0, <2>1, <2>2 DEF Contract!Start
<1>3. CASE Loop
  <2>1. CASE ~Pop
    <3>1. UNCHANGED <<Visible, HandedBack>> /\ pc' \in {"idle", "signal"}
      BY <1>3, <2>1 DEF Loop, queueVars, Visible, HandedBack
    <3>2. Dealt' = Dealt
      BY <1>3, <2>1, <3>1 DEF Loop, queueVars, Dealt
    <3>3. Dealt = Visible
      BY <1>3, <2>1
         DEF Loop, IterFails, NoChain, Dealt, Visible, IInv, QueueInHand
    <3>4. Active /\ (Active' = FALSE)
      BY <1>3, <3>1 DEF Loop, Active
    <3> QED
      BY <1>0, <3>1, <3>2, <3>3, <3>4 DEF Contract!Finish
  <2>2. CASE Pop
    <3>1. pc = "loop" /\ pc' = "desc"
      BY <1>3, <2>2 DEF Loop, Pop, IterFails, NoChain, IInv, TypeOK,
                        QueueTypeOK
    <3>2. UNCHANGED <<Visible, HandedBack>>
      BY <2>2 DEF Pop, Visible, HandedBack
    <3>3. Dealt' = Dealt
      BY <2>2, <3>1 DEF Pop, Dealt, IInv, TypeOK, QueueTypeOK
    <3>4. Active' = Active
      BY <3>1 DEF Active
    <3> QED
      BY <1>0, <3>2, <3>3, <3>4
  <2> QED
    BY <2>1, <2>2
<1>4. CASE BadAddress \/ Panic
  <2>1. /\ AtDescriptor /\ pc = "desc" /\ pc' \in {"idle", "dead"}
        /\ UNCHANGED queueVars
    BY <1>4 DEF BadAddress, Panic, AtDescriptor
  <2>2. ready /\ next_avail \in Ids
    BY <2>1, InHandType
  <2>3. di \in DOMAIN layout[next_avail] /\ desc = layout[next_avail][di]
    BY <2>1, DescType
  <2>4. next_avail \in Unreadable
    BY <1>4, <2>2, <2>3 DEF BadAddress, Panic, Unreadable
  <2>5. UNCHANGED <<Visible, HandedBack>>
    BY <2>1 DEF queueVars, Visible, HandedBack
  <2>6. Dealt + 1 = next_avail /\ Dealt' = Dealt + 1 /\ Dealt < Visible
    BY <2>1, <2>2
       DEF Dealt, Visible, queueVars, IInv, TypeOK, QueueTypeOK, Ids
  <2>7. Active /\ Active' \in BOOLEAN
    BY <2>1 DEF Active
  <2> QED
    BY <1>0, <2>4, <2>5, <2>6, <2>7 DEF Contract!Keep
<1>5. CASE Attempt \/ Refuse \/ ChainEnd
  <2>1. pc = "desc" /\ pc' \in {"desc", "use"} /\ UNCHANGED queueVars
    BY <1>5 DEF Attempt, Refuse, ChainEnd, AtDescriptor
  <2>2. UNCHANGED <<Visible, Dealt, HandedBack>>
    BY <2>1 DEF queueVars, Visible, Dealt, HandedBack
  <2>3. Active' = Active
    BY <2>1 DEF Active
  <2> QED
    BY <1>0, <2>2, <2>3
<1>6. CASE Use
  <2>1. /\ pc = "use" /\ pc' = "loop"
        /\ UNCHANGED <<ready, avail_idx, next_avail>>
    BY <1>6 DEF Use, AddUsed
  <2>2. ready /\ next_avail \in Ids
    BY <2>1, InHandType
  <2>3. HandedBack' = Append(HandedBack, next_avail)
    BY <1>6, HandedBackGrows
  <2>4. Dealt + 1 = next_avail /\ Dealt' = Dealt + 1 /\ Dealt < Visible
    BY <2>1, <2>2 DEF Dealt, Visible, IInv, TypeOK, QueueTypeOK, Ids
  <2>5. UNCHANGED Visible /\ Active /\ (Active' = Active)
    BY <2>1 DEF Visible, Active
  <2> QED
    BY <1>0, <2>3, <2>4, <2>5 DEF Contract!Serve
<1>7. CASE Signal \/ UNCHANGED vars
  <2>1. UNCHANGED queueVars
    BY <1>7 DEF Signal, vars
  <2>2. UNCHANGED <<Visible, Dealt, HandedBack>>
    BY <1>7, <2>1 DEF Signal, vars, queueVars, Visible, Dealt, HandedBack
  <2>3. Active' = Active
    BY <1>7 DEF Signal, vars, Active
  <2> QED
    BY <1>0, <2>2, <2>3
<1> QED
  BY <1>1, <1>2, <1>3, <1>4, <1>5, <1>6, <1>7 DEF Next, Handler

(* process_queue implements the contract of a virtqueue: chains are dealt  *)
(* with in order and handed back once; one is kept only if a request of it *)
(* lies outside guest memory or, in a debug build, overflows.              *)
THEOREM HandlerServesQueue == Spec => ServesQueue
BY Invariant, InitContract, NextContract, PTL
   DEF Spec, ServesQueue, Contract!ContractSpec

-----------------------------------------------------------------------------
(* The handler comes to an end.                                            *)

\* How far the handler is from its end: the chains it has yet to pop, then
\* its place, with the descriptors it has yet to look at.
ChainsLeft == avail_idx - next_avail

Place == CASE pc = "desc" -> 5 + Len(layout[next_avail]) - di
           [] pc = "use" -> 3 [] pc = "loop" -> 2
           [] pc = "signal" -> 1 [] OTHER -> 0

\* A step while the handler is at work: the driver's, which changes nothing
\* the handler has, or its own.
WorkFalls ==
  pc \notin {"idle", "dead"} =>
    \/ UNCHANGED <<next_avail, used, pc, di, status, diskVars, announced>>
    \/ /\ UNCHANGED avail_idx
       /\ \/ ChainsLeft' < ChainsLeft
          \/ ChainsLeft' = ChainsLeft /\ Place' < Place

(* Every step of the block device's handler brings it closer to its end,   *)
(* whichever requests are refused, lie outside RAM or overflow, and only a *)
(* chain that the driver publishes takes it further from it.               *)
THEOREM HandlerWindsDown == Spec => [][WorkFalls]_vars
<1>1. ASSUME IInv, Next, pc \notin {"idle", "dead"}
      PROVE  WorkFalls
  <2>1. avail_idx \in Nat /\ next_avail \in Nat
    BY <1>1, VirtqueueAssumption DEF IInv, TypeOK, QueueTypeOK
  <2>2. CASE Driver
    BY <2>2 DEF Driver, SetUp, Offer, WorkFalls
  <2>3. CASE Loop
    <3>1. CASE Pop
      BY <2>1, <3>1 DEF Pop, WorkFalls, ChainsLeft
    <3>2. CASE ~Pop
      <4>1. /\ UNCHANGED <<avail_idx, next_avail>> /\ pc = "loop"
            /\ pc' \in {"signal", "idle"}
        BY <2>3, <3>2 DEF Loop, queueVars
      <4>2. Place = 2 /\ Place' \in {0, 1}
        BY <4>1 DEF Place
      <4> QED
        BY <2>1, <4>1, <4>2 DEF WorkFalls, ChainsLeft
    <3> QED
      BY <3>1, <3>2
  <2>4. CASE BadAddress \/ Panic \/ Attempt \/ Refuse \/ ChainEnd
    <3>1. /\ UNCHANGED <<avail_idx, next_avail, layout>> /\ pc = "desc"
          /\ \/ pc' = "desc" /\ di' = di + 1
             \/ pc' \in {"use", "idle", "dead"}
      BY <2>4 DEF BadAddress, Panic, Attempt, Refuse, ChainEnd,
                  AtDescriptor, queueVars, fixed
    <3>2. /\ di \in 1 .. Len(layout[next_avail]) + 1
          /\ Len(layout[next_avail]) \in Nat
      BY <1>1, <3>1, InHandType DEF IInv, QueueInHand
    <3>3. Place = 5 + Len(layout[next_avail]) - di
      BY <3>1 DEF Place
    <3>4. \/ Place' = 5 + Len(layout[next_avail]) - (di + 1)
          \/ Place' \in {0, 3}
      BY <3>1 DEF Place
    <3> QED
      BY <2>1, <3>1, <3>2, <3>3, <3>4 DEF WorkFalls, ChainsLeft
  <2>5. CASE Use \/ Signal
    <3>1. /\ UNCHANGED <<avail_idx, next_avail>>
          /\ \/ pc = "use" /\ pc' = "loop"
             \/ pc = "signal" /\ pc' = "idle"
      BY <2>5 DEF Use, AddUsed, Signal, queueVars
    <3>2. (Place = 3 /\ Place' = 2) \/ (Place = 1 /\ Place' = 0)
      BY <3>1 DEF Place
    <3> QED
      BY <2>1, <3>1, <3>2 DEF WorkFalls, ChainsLeft
  <2> QED
    BY <1>1, <2>2, <2>3, <2>4, <2>5 DEF Next, Handler, process_queue
<1>2. IInv /\ [Next]_vars => [WorkFalls]_vars
  BY <1>1 DEF WorkFalls
<1> QED
  BY <1>2, Invariant, PTL DEF Spec

=============================================================================

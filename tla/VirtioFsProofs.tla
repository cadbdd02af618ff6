--------------------------- MODULE VirtioFsProofs ---------------------------
(***************************************************************************)
(* Proofs about the file-sharing device: the queue handler of VirtioFs,    *)
(* for any number of chains and messages; what check_permission grants,    *)
(* for every list; the table of lists, for any number of threads, paths    *)
(* and owners; and the MMIO buffer, for every size of the buffer, the word *)
(* and the access.                                                         *)
(***************************************************************************)
EXTENDS VirtioFs, Acl, FsAcls, FsMmio, TLAPS

-----------------------------------------------------------------------------
(* The queue handler: the interrupt, and the contract of a virtqueue.      *)

\* Nothing was taken from a queue that is not set up, and the handler holds
\* a chain only after it has popped one.
QueueInHand ==
  /\ ~ready => next_avail = 0 /\ used = <<>> /\ pc \in {"idle", "loop"}
  /\ pc \in {"read", "use"} => next_avail > 0

IInv == TypeOK /\ QueueInHand /\ Announced

Used == [id : 1 .. MaxChains, len : Nat]

(* What the type invariant says of the chain in hand.                      *)
LEMMA InHandType ==
  ASSUME TypeOK, QueueInHand, pc \in {"read", "use"}
  PROVE  /\ ready
         /\ next_avail \in Ids
         /\ msg \in Message
BY VirtqueueAssumption, MessagesAssumption
   DEF TypeOK, QueueTypeOK, QueueInHand, Ids, msg

(* add_used lengthens the used ring by one element.                        *)
LEMMA UsedGrows ==
  ASSUME TypeOK, QueueInHand, pc = "use", AddUsed(next_avail, msg.len)
  PROVE  /\ used' \in Seq(Used)
         /\ Len(used') = Len(used) + 1
<1>1. [id |-> next_avail, len |-> msg.len] \in Used
  BY InHandType DEF Message, Used, Ids
<1>2. used \in Seq(Used)
  BY DEF TypeOK, QueueTypeOK, Used
<1> QED
  BY <1>1, <1>2 DEF AddUsed

LEMMA InitIInv == Init => IInv
<1> SUFFICES ASSUME Init PROVE IInv
  OBVIOUS
<1>1. used \in Seq(Used) /\ Len(used) = 0
  BY DEF Init, QueueInit
<1>2. QueueTypeOK
  <2>1. ready \in BOOLEAN
    BY DEF Init, QueueInit
  <2>2. avail_idx \in 0 .. MaxChains /\ next_avail \in 0 .. avail_idx
    BY VirtqueueAssumption DEF Init, QueueInit
  <2> QED
    BY <1>1, <2>1, <2>2 DEF QueueTypeOK, Used
<1>3. TypeOK
  BY <1>1, <1>2 DEF Init, TypeOK
<1>4. QueueInHand /\ Announced
  BY <1>1 DEF Init, QueueInit, QueueInHand, Announced
<1> QED
  BY <1>3, <1>4 DEF IInv

LEMMA NextIInv == IInv /\ [Next]_vars => IInv'
<1> SUFFICES ASSUME IInv, [Next]_vars PROVE IInv'
  OBVIOUS
<1> USE VirtqueueAssumption
    DEF IInv, TypeOK, QueueTypeOK, QueueInHand, Announced
<1>1. CASE Driver
  <2>1. ready' \in BOOLEAN /\ (ready => ready')
    BY <1>1 DEF Driver, SetUp, Offer
  <2>2. avail_idx' \in 0 .. MaxChains /\ next_avail' \in 0 .. avail_idx'
    BY <1>1 DEF Driver, SetUp, Offer
  <2>3. UNCHANGED <<next_avail, used, message, pc, announced>>
    BY <1>1 DEF Driver, SetUp, Offer
  <2> QED
    BY <2>1, <2>2, <2>3
<1>2. CASE handle_event
  BY <1>2 DEF handle_event, queueVars
<1>3. CASE Loop
  <2>1. UNCHANGED <<ready, avail_idx, used, message, announced>>
    BY <1>3 DEF Loop, Pop, queueVars
  <2>2. /\ next_avail' \in 0 .. avail_idx
        /\ pc' \in {"idle", "irq", "read"}
        /\ pc' # "read" => next_avail' = next_avail
        /\ pc' = "read" => ready /\ next_avail' > 0
        /\ pc' = "idle" => ~ready
        /\ ~ready => pc' = "idle"
    BY <1>3 DEF Loop, IterFails, NoChain, Pop, queueVars
  <2>3. ~ready => announced = Len(used)
    OBVIOUS
  <2> QED
    BY <2>1, <2>2, <2>3
<1>4. CASE Skip
  BY <1>4 DEF Skip, queueVars
<1>5. CASE process_9p
  BY <1>5 DEF process_9p, queueVars
<1>6. CASE Use
  <2>1. used' \in Seq(Used) /\ Len(used') = Len(used) + 1
    BY <1>6, UsedGrows DEF Use
  <2>2. ready
    BY <1>6 DEF Use
  <2> QED
    BY <1>6, <2>1, <2>2 DEF Use, AddUsed, Used
<1>7. CASE Irq
  BY <1>7 DEF Irq, queueVars
<1>8. CASE UNCHANGED vars
  BY <1>8 DEF vars, queueVars
<1> QED
  BY <1>1, <1>2, <1>3, <1>4, <1>5, <1>6, <1>7, <1>8 DEF Next

(* The state of handle_event and its queue keeps its type.                 *)
THEOREM TypeCorrect == Spec => []TypeOK
<1>1. IInv => TypeOK
  BY DEF IInv
<1> QED
  BY <1>1, InitIInv, NextIInv, PTL DEF Spec

(* When handle_event has returned, irq_trigger was written after the last  *)
(* add_used.                                                               *)
THEOREM AllAnnounced == Spec => []Announced
<1>1. IInv => Announced
  BY DEF IInv
<1> QED
  BY <1>1, InitIInv, NextIInv, PTL DEF Spec

-----------------------------------------------------------------------------
(* Refinement.                                                             *)

LEMMA InitContract == Init => Contract!ContractInit
BY DEF Init, QueueInit, Contract!ContractInit, Visible, Dealt, HandedBack,
       Active

(* The heads in the used ring, after add_used.                             *)
LEMMA HandedBackGrows ==
  ASSUME TypeOK, QueueInHand, pc = "use", AddUsed(next_avail, msg.len)
  PROVE  HandedBack' = Append(HandedBack, next_avail)
<1>1. used \in Seq(Used)
  BY DEF TypeOK, QueueTypeOK, Used
<1>2. used' = Append(used, [id |-> next_avail, len |-> msg.len])
  BY DEF AddUsed
<1>3. DOMAIN used = 1 .. Len(used) /\ Len(used) \in Nat
  BY <1>1
<1>4. DOMAIN used' = 1 .. Len(used) + 1
  BY <1>1, <1>2
<1>5. HandedBack \in Seq(Nat) /\ Len(HandedBack) = Len(used)
  <2>1. \A k \in 1 .. Len(used) : used[k].id \in Nat
    <3>1. \A k \in 1 .. Len(used) : used[k] \in Used
      BY <1>1
    <3>2. \A u \in Used : u.id \in Nat
      BY VirtqueueAssumption DEF Used
    <3> QED
      BY <3>1, <3>2
  <2>2. HandedBack = [k \in 1 .. Len(used) |-> used[k].id]
    BY <1>3 DEF HandedBack
  <2> QED
    BY <1>3, <2>1, <2>2
<1>6. \A k \in 1 .. Len(used) : used'[k].id = HandedBack[k]
  BY <1>1, <1>2, <1>3 DEF HandedBack
<1>7. used'[Len(used) + 1].id = next_avail
  BY <1>1, <1>2
<1>8. next_avail \in Nat
  BY InHandType DEF Ids
<1> QED
  BY <1>3, <1>4, <1>5, <1>6, <1>7, <1>8 DEF HandedBack

LEMMA NextContract ==
  IInv /\ [Next]_vars => [Contract!ContractNext]_(Contract!contractVars)
<1> SUFFICES ASSUME IInv, [Next]_vars
             PROVE  [Contract!ContractNext]_(Contract!contractVars)
  OBVIOUS
<1> USE DEF IInv, Contract!ContractNext, Contract!contractVars
<1>1. CASE Driver
  <2>1. HandedBack' = HandedBack /\ Dealt' = Dealt
    BY <1>1 DEF Driver, SetUp, Offer, HandedBack, Dealt
  <2>2. (Active' = Active) /\ Unreadable' = Unreadable
    BY <1>1 DEF Driver, Active, Unreadable
  <2>3. Visible' > Visible \/ Visible' = Visible
    BY <1>1, VirtqueueAssumption
       DEF Driver, SetUp, Offer, Visible, TypeOK, QueueTypeOK
  <2> QED
    BY <2>1, <2>2, <2>3 DEF Contract!Publish
<1>2. CASE handle_event
  <2>1. UNCHANGED <<Visible, Dealt, HandedBack, Unreadable>>
    BY <1>2 DEF handle_event, queueVars, Visible, Dealt, HandedBack,
                Unreadable
  <2>2. ~Active /\ (Active' = TRUE)
    BY <1>2 DEF handle_event, Active
  <2> QED
    BY <2>1, <2>2 DEF Contract!Start
<1>3. CASE Loop
  <2>0. Unreadable' = Unreadable
    BY <1>3 DEF Loop, Unreadable
  <2>1. CASE ~Pop
    <3>1. UNCHANGED <<Visible, HandedBack>> /\ pc' \in {"idle", "irq"}
      BY <1>3, <2>1 DEF Loop, queueVars, Visible, HandedBack
    <3>2. Dealt' = Dealt
      BY <1>3, <2>1 DEF Loop, queueVars, Dealt
    <3>3. Dealt = Visible
      BY <1>3, <2>1 DEF Loop, IterFails, NoChain, Dealt, Visible, QueueInHand
    <3>4. Active /\ (Active' = FALSE)
      BY <1>3, <3>1 DEF Loop, Active
    <3> QED
      BY <2>0, <3>1, <3>2, <3>3, <3>4 DEF Contract!Finish
  <2>2. CASE Pop
    <3>1. pc = "loop" /\ pc' = "read"
      BY <1>3, <2>2 DEF Loop, Pop, IterFails, NoChain, TypeOK, QueueTypeOK
    <3>2. UNCHANGED <<Visible, HandedBack>>
      BY <2>2 DEF Pop, Visible, HandedBack
    <3>3. Dealt' = Dealt
      BY <2>2, <3>1 DEF Pop, Dealt, TypeOK, QueueTypeOK
    <3>4. Active' = Active
      BY <3>1 DEF Active
    <3> QED
      BY <2>0, <3>2, <3>3, <3>4
  <2> QED
    BY <2>1, <2>2
<1>4. CASE Skip \/ (process_9p /\ msg.len = 4)
  <2>1. /\ pc = "read" /\ pc' \in {"loop", "dead"}
        /\ UNCHANGED <<queueVars, message>>
    BY <1>4 DEF Skip, process_9p
  <2>2. ready /\ next_avail \in Ids
    BY <2>1, InHandType
  <2>3. next_avail \in Unreadable
    BY <1>4, <2>2 DEF Skip, Unreadable, msg
  <2>4. UNCHANGED <<Visible, HandedBack, Unreadable>>
    BY <2>1 DEF queueVars, Visible, HandedBack, Unreadable
  <2>5. Dealt + 1 = next_avail /\ Dealt' = Dealt + 1 /\ Dealt < Visible
    BY <2>1, <2>2 DEF Dealt, Visible, queueVars, TypeOK, QueueTypeOK, Ids
  <2>6. Active /\ Active' \in BOOLEAN
    BY <2>1 DEF Active
  <2> QED
    BY <2>3, <2>4, <2>5, <2>6 DEF Contract!Keep
<1>5. CASE process_9p /\ msg.len # 4
  <2>1. /\ pc = "read" /\ pc' = "use"
        /\ UNCHANGED <<queueVars, message>>
    BY <1>5 DEF process_9p
  <2>2. UNCHANGED <<Visible, Dealt, HandedBack, Unreadable>>
    BY <2>1 DEF queueVars, Visible, Dealt, HandedBack, Unreadable
  <2>3. Active' = Active
    BY <2>1 DEF Active
  <2> QED
    BY <2>2, <2>3
<1>6. CASE Use
  <2>1. /\ pc = "use" /\ pc' = "loop"
        /\ UNCHANGED <<ready, avail_idx, next_avail, message>>
    BY <1>6 DEF Use, AddUsed
  <2>2. ready /\ next_avail \in Ids
    BY <2>1, InHandType
  <2>3. HandedBack' = Append(HandedBack, next_avail)
    BY <1>6, HandedBackGrows DEF Use
  <2>4. Dealt + 1 = next_avail /\ Dealt' = Dealt + 1 /\ Dealt < Visible
    BY <2>1, <2>2 DEF Dealt, Visible, TypeOK, QueueTypeOK, Ids
  <2>5. UNCHANGED <<Visible, Unreadable>>
    BY <2>1 DEF Visible, Unreadable
  <2>6. Active /\ (Active' = Active)
    BY <2>1 DEF Active
  <2> QED
    BY <2>3, <2>4, <2>5, <2>6 DEF Contract!Serve
<1>7. CASE Irq
  <2>1. UNCHANGED <<Visible, Dealt, HandedBack, Unreadable>>
    BY <1>7 DEF Irq, queueVars, Visible, Dealt, HandedBack, Unreadable
  <2>2. Active' = Active
    BY <1>7 DEF Irq, Active
  <2> QED
    BY <2>1, <2>2
<1>8. CASE UNCHANGED vars
  BY <1>8 DEF vars, queueVars, Visible, Dealt, HandedBack, Unreadable, Active
<1> QED
  BY <1>1, <1>2, <1>3, <1>4, <1>5, <1>6, <1>7, <1>8 DEF Next

(* handle_event implements the contract of a virtqueue: chains are dealt   *)
(* with in order, handed back once, and kept only if they are unreadable.  *)
THEOREM HandlerServesQueue == Spec => ServesQueue
<1>1. Spec => []IInv
  BY InitIInv, NextIInv, PTL DEF Spec
<1> QED
  BY <1>1, InitContract, NextContract, PTL
     DEF Spec, ServesQueue, Contract!ContractSpec

\* How far the handler is from its end: the chains it has yet to pop, then
\* its place.
ChainsLeft == avail_idx - next_avail

Place == CASE pc = "read" -> 4 [] pc = "use" -> 3 [] pc = "loop" -> 2
           [] pc = "irq" -> 1 [] OTHER -> 0

\* A step while the handler is at work: the driver's, which changes nothing
\* the handler has, or its own.
WorkFalls ==
  pc \notin {"idle", "dead"} =>
    \/ UNCHANGED <<next_avail, used, pc, announced>>
    \/ /\ UNCHANGED avail_idx
       /\ \/ ChainsLeft' < ChainsLeft
          \/ ChainsLeft' = ChainsLeft /\ Place' < Place

(* Every step of the event handler brings it closer to its end, also past  *)
(* the chains it skips, and only a chain that the driver publishes takes   *)
(* it further from it.                                                     *)
THEOREM HandlerWindsDown == Spec => [][WorkFalls]_vars
<1>1. ASSUME IInv, Next, pc \notin {"idle", "dead"}
      PROVE  WorkFalls
  <2>1. avail_idx \in Nat /\ next_avail \in Nat
    BY <1>1, VirtqueueAssumption DEF IInv, TypeOK, QueueTypeOK
  <2>2. CASE Driver
    BY <2>2 DEF Driver, SetUp, Offer, WorkFalls
  <2>3. CASE Pop
    BY <2>1, <2>3 DEF Pop, WorkFalls, ChainsLeft
  <2>4. CASE ~Pop /\ (Loop \/ Skip \/ process_9p \/ Use \/ Irq)
    <3>1. /\ UNCHANGED <<avail_idx, next_avail>>
          /\ \/ pc = "loop" /\ pc' \in {"idle", "irq"}
             \/ pc = "read" /\ pc' \in {"loop", "use", "dead"}
             \/ pc = "use" /\ pc' = "loop"
             \/ pc = "irq" /\ pc' = "idle"
      BY <2>4 DEF Loop, Skip, process_9p, Use, AddUsed, Irq, queueVars
    <3>2. /\ Place \in 0 .. 4 /\ Place' \in 0 .. 4
          /\ Place' < Place
      BY <3>1 DEF Place
    <3> QED
      BY <2>1, <3>1, <3>2 DEF WorkFalls, ChainsLeft
  <2> QED
    BY <1>1, <2>2, <2>3, <2>4 DEF Next, handle_event
<1>2. IInv /\ [Next]_vars => [WorkFalls]_vars
  BY <1>1 DEF WorkFalls
<1> QED
  BY <1>2, InitIInv, NextIInv, PTL DEF Spec

-----------------------------------------------------------------------------
(* The check of a list.                                                    *)

\* An appended entry leaves the earlier ones where they are.
LEMMA AppendKeeps ==
  ASSUME NEW es \in Seq(AclEntry), NEW e \in AclEntry
  PROVE  /\ Append(es, e) \in Seq(AclEntry)
         /\ DOMAIN es \subseteq DOMAIN Append(es, e)
         /\ \A i \in DOMAIN es : Append(es, e)[i] = es[i]
         /\ DOMAIN es \subseteq Nat
         /\ \A i \in DOMAIN es : \A j \in 1 .. i - 1 : j \in DOMAIN es
  OBVIOUS

\* The list stays a list of entries.
THEOREM AclTypeCorrect == AclSpec => []AclTypeOK
  <1>1. AclInit => AclTypeOK
    <2>1. <<>> \in Seq(AclEntry)
      OBVIOUS
    <2> QED
      BY <2>1 DEF AclInit, AclTypeOK, AclType
  <1>2. AclTypeOK /\ [AclNext]_acl => AclTypeOK'
    <2> SUFFICES ASSUME AclTypeOK, NEW e \in AclEntry, Grant(e)
                 PROVE  AclTypeOK'
      BY DEF AclNext, AclTypeOK
    <2>1. acl.entries \in Seq(AclEntry)
      BY DEF AclTypeOK, AclType
    <2>2. Append(acl.entries, e) \in Seq(AclEntry)
      BY <2>1, AppendKeeps
    <2> QED
      BY <2>2 DEF AclTypeOK, AclType, Grant
  <1> QED
    BY <1>1, <1>2, PTL DEF AclSpec

\* Who may do several things may do each of them.
THEOREM Monotone == AclSpec => []GrantsAreMonotone
  <1>1. AclTypeOK => GrantsAreMonotone
    BY DEF AclTypeOK, AclType, AclEntry, GrantsAreMonotone, check_permission,
           OwnerGranted, FirstOwnEntry, HasOwnEntry, GroupGranted,
           OtherGranted
  <1> QED
    BY <1>1, AclTypeCorrect, PTL

\* Nobody gets in whom the list does not name.
THEOREM NoStranger == AclSpec => []StrangersRefused
  <1>1. AclTypeOK => StrangersRefused
    BY DEF AclTypeOK, AclType, AclEntry, StrangersRefused, check_permission,
           GroupGranted, OtherGranted
  <1> QED
    BY <1>1, AclTypeCorrect, PTL

\* An entry more takes nothing away from anyone but an owner without entries.
THEOREM TakesNothing == AclSpec => EntryTakesNothing
  <1> DEFINE Kept == \A uid \in Uids, gid \in Gids,
                        required \in SUBSET Permissions :
        /\ check_permission(acl, uid, gid, required)
        /\ acl.owner = uid => HasOwnEntry(acl, uid)
        => check_permission(acl', uid, gid, required)
  <1>1. AclTypeOK /\ [AclNext]_acl => [Kept]_acl
    <2> SUFFICES ASSUME AclTypeOK, NEW e \in AclEntry, Grant(e),
                        NEW uid \in Uids, NEW gid \in Gids,
                        NEW required \in SUBSET Permissions,
                        check_permission(acl, uid, gid, required),
                        acl.owner = uid => HasOwnEntry(acl, uid)
                 PROVE  check_permission(acl', uid, gid, required)
      BY DEF AclNext
    <2> DEFINE es == acl.entries
               fs == acl'.entries
    <2>1. /\ es \in Seq(AclEntry) /\ fs = Append(es, e)
          /\ acl'.owner = acl.owner /\ acl'.group = acl.group
      BY DEF AclTypeOK, AclType, Grant
    <2>2. /\ DOMAIN es \subseteq DOMAIN fs
          /\ \A i \in DOMAIN es : fs[i] = es[i]
          /\ \A i \in DOMAIN es : \A j \in 1 .. i - 1 : j \in DOMAIN es
      BY <2>1, AppendKeeps
    <2>3. CASE acl.owner = uid
      <3>1. FirstOwnEntry(acl, uid, required)
        BY <2>3 DEF check_permission, OwnerGranted
      <3>2. FirstOwnEntry(acl', uid, required)
        BY <2>2, <3>1 DEF FirstOwnEntry
      <3> QED
        BY <2>1, <2>3, <3>2 DEF check_permission, OwnerGranted
    <2>4. CASE acl.owner # uid
      BY <2>1, <2>2, <2>4 DEF check_permission, GroupGranted, OtherGranted
    <2> QED
      BY <2>3, <2>4
  <1> QED
    BY <1>1, AclTypeCorrect, PTL DEF AclSpec, EntryTakesNothing

-----------------------------------------------------------------------------
(* The table of lists: what set_acl and create_file leave in it.           *)

\* A thread about to insert holds the metadata of a file that was there.
MetaInHand == \A t \in Threads : step[t] = "insert" => meta[t] # NoFile

TableInv == TableTypeOK /\ SetAclStands /\ CreatedHasAcl /\ MetaInHand

(* FsState::new starts with an empty table.                                *)
LEMMA InitTableInv == TableInit => TableInv
<1>1. None \in AclValue
  BY UsersAssumption DEF None, AclValue
<1> QED
  BY <1>1
     DEF TableInit, TableInv, TableTypeOK, SetAclStands, CreatedHasAcl,
         MetaInHand

(* The list init_acl makes from metadata is a list, and not None.          *)
LEMMA InitialAcl ==
  ASSUME NEW u \in Users, u # NoFile
  PROVE  /\ [owner |-> u, version |-> 0] \in AclValue
         /\ [owner |-> u, version |-> 0] # None
BY UsersAssumption DEF AclValue, None

LEMMA NextTableInv == TableInv /\ [TableNext]_tableVars => TableInv'
<1> SUFFICES ASSUME TableInv, [TableNext]_tableVars PROVE TableInv'
  OBVIOUS
<1> USE DEF TableInv, TableTypeOK, SetAclStands, CreatedHasAcl, MetaInHand
<1>1. ASSUME NEW t \in Threads, NEW p \in Paths, NEW u \in Users,
             create_file(t, p, u)
      PROVE  TableInv'
  BY <1>1 DEF create_file
<1>2. ASSUME NEW t \in Threads, Metadata(t) PROVE TableInv'
  BY <1>2 DEF Metadata
<1>3. ASSUME NEW t \in Threads, Insert(t) PROVE TableInv'
  <2>1. meta[t] \in Users /\ meta[t] # NoFile
    BY <1>3 DEF Insert
  <2>2. CASE acls[arg[t]] # None
    BY <1>3, <2>2 DEF Insert
  <2>3. CASE acls[arg[t]] = None
    <3>1. sets[arg[t]] = None
      BY <2>3
    <3> QED
      BY <1>3, <2>1, <2>3, <3>1, InitialAcl DEF Insert
  <2> QED
    BY <2>2, <2>3
<1>4. ASSUME NEW p \in Paths, NEW u \in Users \cup {NoFile}, Replace(p, u)
      PROVE  TableInv'
  BY <1>4 DEF Replace
<1>5. ASSUME NEW p \in Paths, NEW a \in AclValue, set_acl(p, a) PROVE TableInv'
  <2>1. a # None
    BY <1>5 DEF set_acl, None
  <2> QED
    BY <1>5, <2>1 DEF set_acl
<1>6. CASE UNCHANGED tableVars
  BY <1>6 DEF tableVars
<1> QED
  BY <1>1, <1>2, <1>3, <1>4, <1>5, <1>6 DEF TableNext

(* The table always has its type.                                          *)
THEOREM TableTypeCorrect == TableSpec => []TableTypeOK
<1>1. TableInv => TableTypeOK
  BY DEF TableInv
<1> QED
  BY <1>1, InitTableInv, NextTableInv, PTL DEF TableSpec

(* set_acl is never undone by a create_file that was under way.            *)
THEOREM SetStands == TableSpec => []SetAclStands
<1>1. TableInv => SetAclStands
  BY DEF TableInv
<1> QED
  BY <1>1, InitTableInv, NextTableInv, PTL DEF TableSpec

(* A path create_file has answered with Ok has a list, whatever happened   *)
(* to the file in between.                                                 *)
THEOREM CreatedListed == TableSpec => []CreatedHasAcl
<1>1. TableInv => CreatedHasAcl
  BY DEF TableInv
<1> QED
  BY <1>1, InitTableInv, NextTableInv, PTL DEF TableSpec

-----------------------------------------------------------------------------
(* The MMIO buffer.                                                        *)

(* The three outcomes: while the lock is usable Ok means inside the        *)
(* buffer, and past its end the answer is Err unless the end wraps; a sum  *)
(* that wrapped is below the offset and panics at the slice.               *)
LEMMA ResultFacts ==
  ASSUME NEW offset \in Offsets, NEW len \in 0 .. MaxLen
  PROVE  /\ Result(offset, len) \in {"ok", "err", "panic"}
         /\ Result(offset, len) = "ok" => offset + len <= MmioSize
         /\ ~poisoned /\ offset + len <= MmioSize => Result(offset, len) = "ok"
         /\ ~poisoned /\ offset + len > MmioSize /\ offset + len < UsizeLimit
              => Result(offset, len) = "err"
         /\ poisoned => Result(offset, len) = "panic"
<1> DEFINE end == (offset + len) % UsizeLimit
<1> /\ offset \in Nat /\ len \in Nat /\ UsizeLimit \in Nat /\ MmioSize \in Nat
    /\ offset < UsizeLimit /\ len < UsizeLimit /\ MmioSize < UsizeLimit
  BY FsMmioAssumption DEF Offsets
<1>1. offset + len < UsizeLimit => end = offset + len
  OBVIOUS
<1>2. offset + len >= UsizeLimit => end = offset + len - UsizeLimit
  OBVIOUS
<1> HIDE DEF end
<1>3. offset + len >= UsizeLimit => offset > end
  BY <1>2
<1>4. Result(offset, len) =
        IF poisoned \/ (offset + len >= UsizeLimit /\ overflow_checks)
          THEN "panic"
        ELSE IF end > MmioSize THEN "err"
        ELSE IF offset > end THEN "panic" ELSE "ok"
  BY DEF Result, end
<1>5. Result(offset, len) \in {"ok", "err", "panic"}
  BY <1>4
<1>6. Result(offset, len) = "ok" => offset + len <= MmioSize
  <2> SUFFICES ASSUME Result(offset, len) = "ok"
               PROVE  offset + len <= MmioSize
    OBVIOUS
  <2>1. ~(end > MmioSize) /\ ~(offset > end)
    BY <1>4
  <2>2. offset + len < UsizeLimit
    BY <1>3, <2>1
  <2> QED
    BY <1>1, <2>1, <2>2
<1>7. poisoned => Result(offset, len) = "panic"
  BY <1>4
<1>8. ASSUME ~poisoned, offset + len <= MmioSize
      PROVE  Result(offset, len) = "ok"
  <2>1. offset + len < UsizeLimit /\ ~(end > MmioSize) /\ ~(offset > end)
    BY <1>1, <1>8
  <2> QED
    BY <1>4, <1>8, <2>1
<1>9. ASSUME ~poisoned, offset + len > MmioSize, offset + len < UsizeLimit
      PROVE  Result(offset, len) = "err"
  <2>1. end > MmioSize /\ ~(offset + len >= UsizeLimit)
    BY <1>1, <1>9
  <2> QED
    BY <1>4, <1>9, <2>1
<1> QED
  BY <1>5, <1>6, <1>7, <1>8, <1>9

LEMMA InitBufferType == BufferInit => BufferTypeOK
<1> SUFFICES ASSUME BufferInit PROVE BufferTypeOK
  OBVIOUS
<1>1. 0 \in Offsets /\ 0 \in 0 .. MaxLen
  BY FsMmioAssumption DEF Offsets
<1>2. last \in Access
  BY <1>1 DEF BufferInit, Access
<1>3. mmio_data \in [0 .. MmioSize - 1 -> 0 .. 2]
  BY DEF BufferInit
<1>4. poisoned \in BOOLEAN /\ overflow_checks \in BOOLEAN
  BY DEF BufferInit
<1> QED
  BY <1>2, <1>3, <1>4 DEF BufferTypeOK

LEMMA NextBufferType ==
  BufferTypeOK /\ [BufferNext]_bufferVars => BufferTypeOK'
<1> SUFFICES ASSUME BufferTypeOK, [BufferNext]_bufferVars PROVE BufferTypeOK'
  OBVIOUS
<1>1. ASSUME NEW offset \in Offsets, NEW len \in 0 .. MaxLen,
             mmio_read(offset, len)
      PROVE  BufferTypeOK'
  BY <1>1, ResultFacts DEF mmio_read, BufferTypeOK, Access
<1>2. ASSUME NEW offset \in Offsets, NEW len \in 0 .. MaxLen, NEW v \in 1 .. 2,
             mmio_write(offset, len, v)
      PROVE  BufferTypeOK'
  <2>1. last' \in Access
    BY <1>2, ResultFacts DEF mmio_write, Access
  <2>2. mmio_data' \in [0 .. MmioSize - 1 -> 0 .. 2]
    BY <1>2 DEF mmio_write, BufferTypeOK
  <2>3. poisoned' \in BOOLEAN
    BY <1>2 DEF mmio_write, BufferTypeOK
  <2>4. overflow_checks' \in BOOLEAN
    BY <1>2 DEF mmio_write, BufferTypeOK
  <2> QED
    BY <2>1, <2>2, <2>3, <2>4 DEF BufferTypeOK
<1>3. CASE UNCHANGED bufferVars
  BY <1>3 DEF bufferVars, BufferTypeOK
<1> QED
  BY <1>1, <1>2, <1>3 DEF BufferNext

(* The buffer keeps its length and its type.                               *)
THEOREM BufferTypeCorrect == BufferSpec => []BufferTypeOK
BY InitBufferType, NextBufferType, PTL DEF BufferSpec

(* While the lock is usable an access inside the buffer succeeds, and one  *)
(* past its end is an Err that changes nothing; only an end that wraps may *)
(* panic, and it changes nothing either.                                   *)
THEOREM BoundsHold == BufferSpec => PastEndIsErr
<1> DEFINE A == last' # last /\ ~poisoned =>
                  LET end == last'.offset + last'.len IN
                  /\ end <= MmioSize => last'.result = "ok" /\ ~poisoned'
                  /\ end > MmioSize =>
                       /\ last'.result # "ok" /\ mmio_data' = mmio_data
                       /\ end < UsizeLimit =>
                            last'.result = "err" /\ ~poisoned'
<1>1. BufferTypeOK /\ [BufferNext]_bufferVars => [A]_bufferVars
  <2> SUFFICES ASSUME BufferTypeOK, BufferNext, ~poisoned PROVE A
    BY DEF bufferVars
  <2>1. ASSUME NEW offset \in Offsets, NEW len \in 0 .. MaxLen,
               last'.offset = offset, last'.len = len,
               last'.result = Result(offset, len),
               Result(offset, len) # "ok" => mmio_data' = mmio_data,
               Result(offset, len) # "panic" => ~poisoned'
        PROVE  A
    <3>1. offset + len \in Nat /\ MmioSize \in Nat
      BY FsMmioAssumption DEF Offsets
    <3>2. offset + len > MmioSize => Result(offset, len) # "ok"
      BY <3>1, ResultFacts
    <3>3. /\ offset + len <= MmioSize => Result(offset, len) = "ok"
          /\ offset + len > MmioSize /\ offset + len < UsizeLimit
               => Result(offset, len) = "err"
      BY ResultFacts
    <3> QED
      BY <2>1, <3>2, <3>3
  <2>2. ASSUME NEW offset \in Offsets, NEW len \in 0 .. MaxLen,
               mmio_read(offset, len)
        PROVE  A
    BY <2>1, <2>2 DEF mmio_read
  <2>3. ASSUME NEW offset \in Offsets, NEW len \in 0 .. MaxLen,
               NEW v \in 1 .. 2, mmio_write(offset, len, v)
        PROVE  A
    <3>1. last' = [op |-> "write", offset |-> offset, len |-> len,
                   result |-> Result(offset, len)]
      BY <2>3 DEF mmio_write
    <3>2. Result(offset, len) # "ok" => mmio_data' = mmio_data
      BY <2>3 DEF mmio_write, BufferTypeOK
    <3>3. Result(offset, len) # "panic" => ~poisoned'
      BY <2>3 DEF mmio_write
    <3> HIDE DEF A
    <3> QED
      BY <2>1, <3>1, <3>2, <3>3
  <2> HIDE DEF A
  <2> QED
    BY <2>2, <2>3 DEF BufferNext
<1> QED
  BY <1>1, BufferTypeCorrect, PTL DEF BufferSpec, PastEndIsErr

(* A lock that a panicking writer has poisoned lets nothing through.       *)
THEOREM PoisonStays == BufferSpec => PoisonIsFinal
<1> DEFINE A == poisoned =>
                  poisoned' /\ (last' # last => last'.result = "panic")
<1>1. [BufferNext]_bufferVars => [A]_bufferVars
  <2> SUFFICES ASSUME BufferNext, poisoned PROVE A
    BY DEF bufferVars
  <2>1. ASSUME NEW offset \in Offsets, NEW len \in 0 .. MaxLen,
               mmio_read(offset, len)
        PROVE  A
    BY <2>1, ResultFacts DEF mmio_read
  <2>2. ASSUME NEW offset \in Offsets, NEW len \in 0 .. MaxLen,
               NEW v \in 1 .. 2, mmio_write(offset, len, v)
        PROVE  A
    BY <2>2, ResultFacts DEF mmio_write
  <2> QED
    BY <2>1, <2>2 DEF BufferNext
<1> QED
  BY <1>1, PTL DEF BufferSpec, PoisonIsFinal

=============================================================================
